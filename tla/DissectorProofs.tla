--------------------------- MODULE DissectorProofs ---------------------------
(***************************************************************************)
(* For all packets, link types and limits: the dissector indexes no byte   *)
(* behind its slice but the one of a truncated window scale, its layers    *)
(* tile the packet, a payload gets one fingerprint per hello shown, and    *)
(* the entries of a DNS message are read forward.                          *)
(***************************************************************************)
EXTENDS Dissector, SequenceTheorems, TLAPS

-----------------------------------------------------------------------------
(* The parts of the inductive invariant.                                   *)

HeaderNames == {"Ethernet", "VLAN", "Linux SLL", "Linux SLL2", "IPv4", "IPv6", "TCP", "UDP"}
Applications == {"TLS", "HTTP", "HTTP/2", "SSH", "DNS", "mDNS", "QUIC", "DHCP"}
LayerNames ==
    HeaderNames \cup Applications \cup IpProtocols
    \cup {"Raw", "LLDP", "Payload", "ARP", "NTP", "Data", "TLS" \o "?", "HTTP" \o "?"}

Layer == [name : LayerNames, off : Nat, len : Nat]

HelloNames == HandshakeTypes \cup {""}
Parts == {"", "question", "answer", "data"}
IpNames == IpProtocols \cup {""}

Tls == [rec : Nat, length : Nat, n : Nat, hs : HelloNames, sni : BOOLEAN,
        cipher : BOOLEAN, shown : Nat, prints : Nat]

Dns == [base : Nat, qd : Nat, an : Nat, i : Nat, mdns : BOOLEAN,
        part : Parts,
        entry : Nat, visited : Nat, start : Nat, jumped : BOOLEAN, next : Nat]

DissectorTypeOK ==
    /\ size \in Nat /\ pos \in Nat /\ cur \in Nat /\ end \in Nat
    /\ layers \in Seq(Layer)
    /\ ipProto \in IpNames
    /\ tls \in Tls /\ dns \in Dns
    /\ hdrLen \in Nat /\ h2 \in Nat

\* Where the layers read so far end.
Frontier == IF layers = <<>> THEN 0 ELSE layers[Len(layers)].off + layers[Len(layers)].len

\* The first half of LayersTile.
Tiled ==
    \A i \in 1 .. Len(layers) :
        /\ layers[i].off = IF i = 1 THEN 0 ELSE layers[i - 1].off + layers[i - 1].len
        /\ layers[i].off + layers[i].len <= size
        /\ i < Len(layers) => layers[i].len > 0

\* What names a frame until an application does.
Provisional == {"", "TCP", "UDP"}

Unnamed == protocol = ""

Open == at \notin {"finish", "done", "panic"}

\* While the dissection goes on, the layers are headers and the next one
\* begins at pos.  What has named the frame after an application has read on
\* to the end.
TileInv ==
    /\ Tiled
    /\ Open => /\ pos = Frontier /\ pos <= size
               /\ \A i \in 1 .. Len(layers) : layers[i].len > 0 /\ layers[i].name \in HeaderNames
               /\ protocol \in Provisional
    /\ protocol \in Applications => layers # <<>> /\ Frontier = size
    /\ at = "finish" /\ Unnamed /\ layers # <<>> =>
         layers[Len(layers)].name \notin Applications

OverIp == layers # <<>> /\ layers[Len(layers)].name \in {"IPv4", "IPv6"}

StartInv == at = "dissect" => pos = 0

\* Where a slice ends when it is indexed.
PanicInv ==
    /\ at \in {"ICMP", "ICMPv6", "TCP", "UDP", "otherIp"} => OverIp
    /\ at \in {"ICMP", "ICMPv6", "TCP", "UDP"} => ipProto = at
    /\ at = "otherIp" => ipProto \in IpProtocols
    /\ at \in {"option", "segment"} =>
         OverIp /\ ipProto = "TCP" /\ hdrLen >= 20 /\ pos + hdrLen <= size
    /\ at = "option" => hdrLen > 20 /\ end = pos + hdrLen
    /\ PanicOnlyAtLastOption

\* The bytes that a message keeps are numbers; the reader is not in front of the
\* entry that it reads.
DnsInv ==
    /\ at \in {"entry", "name", "named", "dnsDone"} => \A o \in DOMAIN known : known[o] \in Nat
    /\ at = "entry" => dns.part \in {"question", "answer"}
    /\ at \in {"name", "named"} =>
         IF dns.part = "data" THEN dns.entry < dns.next /\ dns.next <= size
         ELSE dns.entry <= NameEnd

-----------------------------------------------------------------------------
(* What is known of the hello in the record that is read, in the order in  *)
(* which it becomes known, and where the next field is then.               *)
RecordAt == tls.rec + 5
BodyAt == tls.rec + 9
BodyEnd == Min2(RecordEnd, BodyAt + known[RecordAt + 1])
SessionAt == BodyAt + HelloFixed
CiphersAt == SessionAt + 1 + known[SessionAt]
MethodsAt == CiphersAt + 2 + known[CiphersAt]
ExtsAt == MethodsAt + 1 + known[MethodsAt]
ExtsEnd == Min2(BodyEnd, ExtsAt + 2 + known[ExtsAt])

KnownNat(o) == o \in DOMAIN known /\ known[o] \in Nat

HasHeader == RecordEnd - RecordAt >= 4
HeaderRead ==
    /\ HasHeader
    /\ RecordAt \in DOMAIN known /\ known[RecordAt] \in HandshakeTypes /\ KnownNat(RecordAt + 1)

HasSession == known[RecordAt] = "ClientHello" /\ BodyEnd - BodyAt > HelloFixed
SessionRead == HeaderRead /\ HasSession /\ KnownNat(SessionAt)

HasCiphers == CiphersAt + 2 <= BodyEnd
CiphersRead == SessionRead /\ HasCiphers /\ KnownNat(CiphersAt)

HasMethods == MethodsAt < BodyEnd
MethodsRead == CiphersRead /\ HasMethods /\ KnownNat(MethodsAt)

HasExts == ExtsAt + 2 <= BodyEnd
ExtsRead == MethodsRead /\ HasExts /\ KnownNat(ExtsAt)

\* An extension's header fits at o.
Fits(o) == o + 4 <= ExtsEnd

\* S is a set of extensions in map from the one at first on, with the one that
\* each leads to in front of last, but for those in more.
Leads(map, first, last, S, more) ==
    /\ first + 4 <= last => first \in S \cup more
    /\ \A o \in S :
         /\ o + 2 \in DOMAIN map /\ map[o + 2] \in Nat
         /\ o + 4 + map[o + 2] + 4 <= last => o + 4 + map[o + 2] \in S \cup more

\* The extensions of the hello that are known, but for those in more.
Extensions(more) ==
    \E S \in SUBSET DOMAIN known : Leads(known, ExtsAt + 2, ExtsEnd, S, more)

\* The message was read as far as parseClientHello goes; a hello that was shown
\* was read to its end.
HelloShownInFull ==
    /\ MethodsRead
    /\ HasExts => ExtsRead /\ Extensions({})

HelloRead ==
    HasHeader =>
        /\ HeaderRead
        /\ HasSession =>
             /\ SessionRead
             /\ HasCiphers => CiphersRead /\ (HasMethods => HelloShownInFull)

\* parseClientHello has read the message in this record to its end.
Complete ==
    HasHeader /\ HasSession /\ HasCiphers /\ HasMethods

Below == \A o \in DOMAIN known : o \in Nat /\ o < cur

\* The walk of parseClientHello.
ShowInv ==
    /\ at = "record" => /\ DOMAIN known \subseteq {tls.rec, tls.rec + 3}
                        /\ tls.rec + 3 \in DOMAIN known => known[tls.rec + 3] \in Nat
    /\ at = "handshake" => cur = RecordAt /\ end = RecordEnd /\ Below
    /\ at \in {"ClientHello", "ServerHello"} =>
         HeaderRead /\ known[RecordAt] = at /\ tls.hs = at /\ cur = BodyAt /\ end = BodyEnd
    /\ at = "serverExtension" => HeaderRead /\ known[RecordAt] = "ServerHello" /\ tls.hs = "ServerHello"
    /\ at \in {"ClientHello", "ciphers", "compression", "extension"} => Below
    /\ at \in {"ciphers", "compression", "extension", "helloShown"} => tls.hs = "ClientHello"
    /\ at = "ciphers" => SessionRead /\ cur = CiphersAt /\ end = BodyEnd
    /\ at = "compression" => CiphersRead /\ HasMethods /\ cur = MethodsAt /\ end = BodyEnd
    /\ at = "extension" =>
         ExtsRead /\ end = ExtsEnd /\ Extensions({cur})
    /\ at = "helloShown" => HelloShownInFull

\* The walk of buildJA3 over what is known by then.
PrintInv ==
    /\ at \in {"afterHandshake", "ja3", "ja3Ciphers", "ja3Compression", "ja3Extension"} => HelloRead
    /\ at = "afterHandshake" /\ HasHeader => known[RecordAt] = tls.hs
    /\ at = "ja3" => cur = RecordAt /\ end = RecordEnd
    /\ at = "ja3Ciphers" => SessionRead /\ cur = CiphersAt /\ end = BodyEnd
    /\ at = "ja3Compression" => MethodsRead /\ cur = MethodsAt /\ end = BodyEnd
    /\ at = "ja3Extension" =>
         /\ ExtsRead /\ end = ExtsEnd
         /\ \E S \in SUBSET DOMAIN known :
              /\ Leads(known, ExtsAt + 2, ExtsEnd, S, {})
              /\ Fits(cur) => cur \in S

\* A hello shown that has no fingerprint yet is the one in this record.
CountsInv ==
    tls.shown = tls.prints +
        IF \/ at \in {"afterHandshake", "ja3", "ja3Ciphers"} /\ Complete
           \/ at \in {"ja3Compression", "ja3Extension", "ja3Made"}
        THEN 1 ELSE 0

DissectorInv ==
    /\ DissectorTypeOK
    /\ StartInv
    /\ TileInv
    /\ PanicInv
    /\ DnsInv
    /\ ShowInv
    /\ PrintInv
    /\ CountsInv

TlsAts ==
    {"record", "nextRecord", "tlsDone", "handshake", "afterHandshake",
     "ClientHello", "ciphers", "compression", "extension", "helloShown",
     "ServerHello", "serverExtension",
     "ja3", "ja3Ciphers", "ja3Compression", "ja3Extension", "ja3Made"}
DnsAts == {"entry", "name", "named", "dnsDone"}
IpAts == {"ICMP", "ICMPv6", "TCP", "UDP", "otherIp"}
TcpAts == {"option", "segment"}

-----------------------------------------------------------------------------
(* Lemmas about what the steps have in common.                             *)

\* Noting a value: where, what it keeps, and what is found there.
LEMMA NotedDomain ==
    ASSUME NEW map, NEW o, NEW value
    PROVE  DOMAIN Noted(map, o, value) = DOMAIN map \cup {o}
BY DEF Noted

LEMMA NotedKeeps ==
    ASSUME NEW map, NEW o, NEW value, NEW p \in DOMAIN map
    PROVE  Noted(map, o, value)[p] = map[p]
BY DEF Noted

LEMMA NotedHere ==
    ASSUME NEW map, NEW o, NEW value, o \notin DOMAIN map
    PROVE  Noted(map, o, value)[o] = value
BY DEF Noted

LEMMA NotedAgain ==
    ASSUME NEW map, NEW o \in DOMAIN map, NEW value
    PROVE  Noted(map, o, value) = map
BY DEF Noted

\* Two values that were not known.
LEMMA NotedPair ==
    ASSUME NEW map, NEW a, NEW b, NEW x, NEW y,
           a \notin DOMAIN map, b \notin DOMAIN map, b # a,
           NEW second, second = Noted(Noted(map, a, x), b, y)
    PROVE  /\ DOMAIN second = DOMAIN map \cup {a, b}
           /\ second[a] = x
           /\ second[b] = y
           /\ \A p \in DOMAIN map : second[p] = map[p]
<1> DEFINE first == Noted(map, a, x)
<1>1. DOMAIN first = DOMAIN map \cup {a}
  BY NotedDomain
<1>2. first[a] = x
  BY NotedHere
<1>3. \A p \in DOMAIN map : first[p] = map[p]
  BY NotedKeeps
<1> HIDE DEF first
<1>4. second = Noted(first, b, y)
  BY DEF first
<1>5. DOMAIN second = DOMAIN first \cup {b}
  BY <1>4, NotedDomain
<1>6. second[b] = y
  BY <1>1, <1>4, NotedHere
<1>7. \A p \in DOMAIN first : second[p] = first[p]
  BY <1>4, NotedKeeps
<1> QED BY <1>1, <1>2, <1>3, <1>5, <1>6, <1>7

\* What a length field claims is a number.
LEMMA ClaimsAreNumbers == ASSUME NEW rest \in Int PROVE Claims(rest) \subseteq Nat
<1> SUFFICES ASSUME NEW n \in Claims(rest) PROVE n \in Nat
  OBVIOUS
<1>1. n >= 0 /\ (n \in Few \/ n \in {rest - 1, rest, rest + 1})
  BY DEF Claims
<1>2. CASE n \in Few
  BY <1>2, PacketAssumption
<1>3. CASE n \in {rest - 1, rest, rest + 1}
  BY <1>1, <1>3
<1> QED BY <1>1, <1>2, <1>3

\* The cursors of the two walks matter only while they run.
LEMMA OutsideWalks ==
    ASSUME CountsInv, at \notin TlsAts, tls' = tls, at' \notin TlsAts, at' \notin DnsAts
    PROVE  DnsInv' /\ ShowInv' /\ PrintInv' /\ CountsInv'
<1>1. tls.shown = tls.prints + 0
  BY DEF CountsInv, TlsAts
<1>2. CountsInv'
  BY <1>1 DEF CountsInv, TlsAts
<1> QED BY <1>2 DEF DnsInv, ShowInv, PrintInv, TlsAts, DnsAts

LEMMA OutsideTransport ==
    ASSUME at' \notin IpAts, at' \notin TcpAts, at' # "panic"
    PROVE  PanicInv'
  BY DEF PanicInv, PanicOnlyAtLastOption, IpAts, TcpAts

LEMMA LastIndex ==
    ASSUME DissectorTypeOK, layers # <<>>
    PROVE  Len(layers) \in 1 .. Len(layers) /\ layers[Len(layers)] \in Layer
<1>1. layers \in Seq(Layer)
  BY DEF DissectorTypeOK
<1>2. Len(layers) \in Nat \ {0}
  BY <1>1, EmptySeq
<1>3. Len(layers) \in 1 .. Len(layers)
  BY <1>2
<1> QED BY <1>1, <1>3, ElementOfSeq

\* A step that adds no layer, whatever comes next.
LEMMA NoLayer ==
    ASSUME DissectorTypeOK, TileInv, Open, UNCHANGED <<size, pos, layers, protocol>>
    PROVE  TileInv'
<1>1. /\ Tiled /\ pos = Frontier /\ pos <= size
      /\ \A i \in 1 .. Len(layers) : layers[i].len > 0 /\ layers[i].name \in HeaderNames
      /\ protocol \in Provisional
  BY DEF TileInv
<1>2. Tiled' /\ Frontier' = Frontier
  BY <1>1 DEF Tiled, Frontier
<1>3. protocol' \notin Applications
  BY <1>1 DEF Applications, Provisional
<1>4. layers # <<>> => layers[Len(layers)].name \notin Applications
  BY <1>1, LastIndex DEF HeaderNames, Applications
<1> QED BY <1>1, <1>2, <1>3, <1>4 DEF TileInv

\* A layer is added where the last one ended.
LEMMA LayerAdded ==
    ASSUME DissectorTypeOK, TileInv, Open,
           NEW name \in LayerNames, NEW n \in Nat, pos + n <= size,
           AddLayer(name, pos, n), size' = size
    PROVE  /\ Tiled' /\ Frontier' = pos + n
           /\ layers' \in Seq(Layer) /\ layers' # <<>>
           /\ layers'[Len(layers')].name = name
           /\ \A i \in 1 .. Len(layers') :
                 \/ layers'[i].len > 0 /\ layers'[i].name \in HeaderNames
                 \/ layers'[i].len = n /\ layers'[i].name = name
<1> DEFINE m == Len(layers)
           l == [name |-> name, off |-> pos, len |-> n]
<1>1. /\ layers' = Append(layers, l) /\ l \in Layer
      /\ l.name = name /\ l.off = pos /\ l.len = n
      /\ m = Len(layers)
  BY DEF AddLayer, DissectorTypeOK, Layer, LayerNames
<1> HIDE DEF l, m
<1>2. /\ layers \in Seq(Layer) /\ m = Len(layers) /\ m \in Nat /\ pos \in Nat
      /\ layers' \in Seq(Layer) /\ Len(layers') = m + 1
      /\ \A i \in 1 .. m : layers'[i] = layers[i]
      /\ layers'[m + 1] = l
  BY <1>1, AppendProperties, LenProperties DEF DissectorTypeOK
<1>3. layers' # <<>>
  BY <1>2, EmptySeq
<1>4. Frontier' = pos + n
  BY <1>1, <1>2, <1>3 DEF Frontier
<1>5. Tiled'
  <2> SUFFICES ASSUME NEW i \in 1 .. m + 1
               PROVE  /\ layers'[i].off = IF i = 1 THEN 0 ELSE layers'[i - 1].off + layers'[i - 1].len
                      /\ layers'[i].off + layers'[i].len <= size
                      /\ i < m + 1 => layers'[i].len > 0
    BY <1>2 DEF Tiled
  <2>1. CASE i \in 1 .. m
    <3>1. i = 1 \/ i - 1 \in 1 .. m
      BY <1>2, <2>1
    <3> QED BY <1>2, <2>1, <3>1 DEF TileInv, Tiled
  <2>2. CASE i = m + 1
    <3>1. pos = Frontier
      BY DEF TileInv
    <3>2. CASE m = 0
      <4>1. layers = <<>>
        BY <1>2, <3>2, EmptySeq
      <4> QED BY <1>1, <1>2, <2>2, <3>1, <3>2, <4>1 DEF Frontier
    <3>3. CASE m # 0
      <4>1. layers # <<>> /\ i - 1 = m /\ m \in 1 .. m /\ i # 1
        BY <1>2, <2>2, <3>3, EmptySeq
      <4> QED BY <1>1, <1>2, <2>2, <3>1, <4>1 DEF Frontier
    <3> QED BY <3>2, <3>3
  <2> QED BY <1>2, <2>1, <2>2
<1>6. \A i \in 1 .. Len(layers') :
        \/ layers'[i].len > 0 /\ layers'[i].name \in HeaderNames
        \/ layers'[i].len = n /\ layers'[i].name = name
  <2> SUFFICES ASSUME NEW i \in 1 .. m + 1
               PROVE  \/ layers'[i].len > 0 /\ layers'[i].name \in HeaderNames
                      \/ layers'[i].len = n /\ layers'[i].name = name
    BY <1>2
  <2>1. i \in 1 .. m \/ i = m + 1
    BY <1>2
  <2> QED BY <1>1, <1>2, <2>1 DEF TileInv
<1>7. layers'[Len(layers')].name = name
  BY <1>1, <1>2
<1> QED BY <1>2, <1>3, <1>4, <1>5, <1>6, <1>7

\* A header is read, and what follows it.
LEMMA HeaderAdded ==
    ASSUME DissectorTypeOK, TileInv, Open,
           NEW name \in HeaderNames, NEW n \in Nat, n > 0, pos + n <= size,
           AddLayer(name, pos, n), pos' = pos + n, size' = size,
           protocol' \in Provisional
    PROVE  /\ TileInv'
           /\ layers' \in Seq(Layer) /\ layers' # <<>> /\ layers'[Len(layers')].name = name
<1>1. name \in LayerNames
  BY DEF LayerNames
<1>2. /\ Tiled' /\ Frontier' = pos + n
      /\ layers' \in Seq(Layer) /\ layers' # <<>> /\ layers'[Len(layers')].name = name
      /\ \A i \in 1 .. Len(layers') : layers'[i].len > 0 /\ layers'[i].name \in HeaderNames
  BY <1>1, LayerAdded
<1>3. protocol' \notin Applications /\ name \notin Applications
  BY DEF Applications, HeaderNames, Provisional
<1> QED BY <1>2, <1>3 DEF TileInv

\* The last layer is added.
LEMMA LastAdded ==
    ASSUME DissectorTypeOK, TileInv, Open,
           NEW name \in LayerNames, NEW n \in Nat, pos + n <= size,
           AddLayer(name, pos, n), size' = size, at' = "finish",
           protocol' \in Applications => pos + n = size,
           Unnamed' => name \notin Applications
    PROVE  TileInv' /\ layers' \in Seq(Layer)
<1>1. /\ Tiled' /\ Frontier' = pos + n
      /\ layers' \in Seq(Layer) /\ layers' # <<>> /\ layers'[Len(layers')].name = name
  BY LayerAdded
<1>2. ~Open'
  BY DEF Open
<1> QED BY <1>1, <1>2 DEF TileInv

\* LastLayer takes what is left.
LEMMA LastTaken ==
    ASSUME DissectorTypeOK, TileInv, Open, NEW name \in LayerNames, NEW proto,
           LastLayer(name, proto), size' = size, Unnamed' => name \notin Applications
    PROVE  TileInv' /\ layers' \in Seq(Layer) /\ at' = "finish"
<1>1. /\ size \in Nat /\ pos \in Nat
      /\ size - pos \in Nat /\ pos + (size - pos) = size /\ pos + (size - pos) <= size
  <2>1. size \in Nat /\ pos \in Nat
    BY DEF DissectorTypeOK
  <2>2. pos <= size
    BY DEF TileInv
  <2> QED BY <2>1, <2>2
<1>2. AddLayer(name, pos, size - pos) /\ at' = "finish"
  BY DEF LastLayer
<1>3. TileInv' /\ layers' \in Seq(Layer)
  BY <1>1, <1>2, LastAdded
<1> QED BY <1>2, <1>3

\* A step outside the walks that leaves the cursors alone.
LEMMA OuterStep ==
    ASSUME DissectorInv, UNCHANGED <<fixed, cursors, inner>>,
           at \notin TlsAts, at' \notin TlsAts, at' \notin DnsAts, at' # "dissect",
           pos' \in Nat, ipProto' \in IpNames, layers' \in Seq(Layer), TileInv', PanicInv'
    PROVE  DissectorInv'
<1>1. DissectorTypeOK'
  BY DEF DissectorInv, DissectorTypeOK, fixed, cursors, inner
<1>2. tls' = tls /\ CountsInv
  BY DEF DissectorInv, inner
<1>3. DnsInv' /\ ShowInv' /\ PrintInv' /\ CountsInv'
  BY <1>2, OutsideWalks
<1> QED BY <1>1, <1>3 DEF DissectorInv, StartInv

\* What every step may use.
LEMMA Basics ==
    ASSUME DissectorInv
    PROVE  /\ DissectorTypeOK /\ TileInv
           /\ size \in Nat /\ pos \in Nat /\ cur \in Nat /\ end \in Nat /\ hdrLen \in Nat
           /\ layers \in Seq(Layer) /\ ipProto \in IpNames
           /\ Open => pos <= size /\ protocol \in Provisional
  BY DEF DissectorInv, DissectorTypeOK, TileInv

-----------------------------------------------------------------------------
(* The link and the network headers.                                       *)

LEMMA DissectStep == ASSUME DissectorInv, Dissect PROVE DissectorInv'
<1>1. /\ at = "dissect" /\ Open /\ at \notin TlsAts
      /\ UNCHANGED <<fixed, pos, cursors, protocol, ipProto, inner>>
  BY DEF Dissect, Open, TlsAts
<1>2. /\ DissectorTypeOK /\ TileInv /\ size \in Nat /\ pos \in Nat
      /\ layers \in Seq(Layer) /\ ipProto \in IpNames /\ protocol \in Provisional
  BY <1>1, Basics
<1>3. CASE /\ layers' = layers
           /\ at' \in {"ethernet", "sll", "sll2", "ipv4", "ipv6", "finish"}
  <2>1. TileInv'
    BY <1>1, <1>2, <1>3, NoLayer DEF fixed
  <2>2. at' \notin TlsAts /\ at' \notin DnsAts /\ PanicInv'
    BY <1>3, OutsideTransport DEF TlsAts, DnsAts, IpAts, TcpAts
  <2> QED BY <1>1, <1>2, <1>3, <2>1, <2>2, OuterStep
<1>4. CASE AddLayer("Raw", 0, size) /\ at' = "finish"
  <2>1. pos = 0
    BY <1>1 DEF DissectorInv, StartInv
  <2>2. "Raw" \in LayerNames /\ "Raw" \notin Applications /\ protocol' \notin Applications
    BY <1>1, <1>2 DEF LayerNames, Applications, Provisional
  <2>3. TileInv' /\ layers' \in Seq(Layer)
    BY <1>1, <1>2, <1>4, <2>1, <2>2, LastAdded DEF fixed
  <2>4. at' \notin TlsAts /\ at' \notin DnsAts /\ PanicInv'
    BY <1>4, OutsideTransport DEF TlsAts, DnsAts, IpAts, TcpAts
  <2> QED BY <1>1, <1>2, <1>4, <2>3, <2>4, OuterStep
<1> QED BY <1>3, <1>4 DEF Dissect

LEMMA TooShortStep == ASSUME DissectorInv, TooShort PROVE DissectorInv'
<1>1. /\ at \in DOMAIN Needs /\ Open /\ at \notin TlsAts /\ at' = "finish"
      /\ UNCHANGED <<fixed, pos, cursors, layers, protocol, ipProto, inner>>
  BY DEF TooShort, Needs, Open, TlsAts, frameVars
<1>2. TileInv'
  BY <1>1, Basics, NoLayer DEF fixed
<1>3. at' \notin TlsAts /\ at' \notin DnsAts /\ PanicInv'
  BY <1>1, OutsideTransport DEF TlsAts, DnsAts, IpAts, TcpAts
<1> QED BY <1>1, <1>2, <1>3, Basics, OuterStep

\* A link or a tag header, and the UDP header.
LEMMA HeaderStep ==
    ASSUME DissectorInv, Open, at \notin TlsAts,
           NEW name \in HeaderNames, NEW n \in Nat, n > 0, pos + n <= size,
           AddLayer(name, pos, n), pos' = pos + n, protocol' \in Provisional,
           UNCHANGED <<fixed, cursors, inner, ipProto>>,
           at' \notin TlsAts, at' \notin DnsAts, at' \notin IpAts, at' \notin TcpAts,
           at' # "panic", at' # "dissect"
    PROVE  DissectorInv'
<1>1. DissectorTypeOK /\ TileInv /\ pos \in Nat /\ ipProto \in IpNames
  BY Basics
<1>2. TileInv' /\ layers' \in Seq(Layer)
  BY <1>1, HeaderAdded DEF fixed
<1>3. PanicInv'
  BY OutsideTransport
<1> QED BY <1>1, <1>2, <1>3, OuterStep

\* A last layer that is not a whole payload, or one that is.
LEMMA LastStep ==
    ASSUME DissectorInv, Open, at \notin TlsAts,
           TileInv', layers' \in Seq(Layer), at' = "finish",
           UNCHANGED <<fixed, pos, cursors, inner, ipProto>>
    PROVE  DissectorInv'
<1>1. pos \in Nat /\ ipProto \in IpNames
  BY Basics
<1>2. at' \notin TlsAts /\ at' \notin DnsAts /\ PanicInv'
  BY OutsideTransport DEF TlsAts, DnsAts, IpAts, TcpAts
<1> QED BY <1>1, <1>2, OuterStep

LEMMA ByEtherTypeFacts ==
    ASSUME NEW type \in EtherTypes
    PROVE  ByEtherType(type) \in {"vlan", "ipv4", "ipv6", "arp", "lldp", "payload"}
  BY DEF ByEtherType, EtherTypes

LEMMA EthernetStep == ASSUME DissectorInv, Ethernet PROVE DissectorInv'
<1>1. at = "ethernet" /\ Open /\ at \notin TlsAts /\ size - pos >= 14
  BY DEF Ethernet, Reads, Needs, Left, Open, TlsAts
<1>2. size \in Nat /\ pos \in Nat /\ protocol \in Provisional
  BY <1>1, Basics
<1>3. pos + 14 <= size /\ pos + 12 <= size
  BY <1>1, <1>2
<1>4. /\ AddLayer("Ethernet", pos, 14) /\ pos' = pos + 14 /\ protocol' = protocol
      /\ UNCHANGED <<fixed, cursors, inner, ipProto>>
      /\ \E type \in EtherTypes : at' = ByEtherType(type)
  BY <1>3 DEF Ethernet, Proceed
<1>5. at' \in {"vlan", "ipv4", "ipv6", "arp", "lldp", "payload"}
  BY <1>4, ByEtherTypeFacts
<1>6. "Ethernet" \in HeaderNames
  BY DEF HeaderNames
<1>7. /\ at' \notin TlsAts /\ at' \notin DnsAts /\ at' \notin IpAts /\ at' \notin TcpAts
      /\ at' # "panic" /\ at' # "dissect"
  BY <1>5 DEF TlsAts, DnsAts, IpAts, TcpAts
<1> QED BY <1>1, <1>2, <1>3, <1>4, <1>6, <1>7, HeaderStep

LEMMA VlanStep == ASSUME DissectorInv, Vlan PROVE DissectorInv'
<1>1. at = "vlan" /\ Open /\ at \notin TlsAts /\ size - pos >= 4
  BY DEF Vlan, Reads, Needs, Left, Open, TlsAts
<1>2. size \in Nat /\ pos \in Nat /\ protocol \in Provisional
  BY <1>1, Basics
<1>3. pos + 4 <= size
  BY <1>1, <1>2
<1>4. /\ AddLayer("VLAN", pos, 4) /\ pos' = pos + 4 /\ protocol' = protocol
      /\ UNCHANGED <<fixed, cursors, inner, ipProto>>
      /\ \E type \in EtherTypes : at' = ByEtherType(type)
  BY DEF Vlan
<1>5. at' \in {"vlan", "ipv4", "ipv6", "arp", "lldp", "payload"}
  BY <1>4, ByEtherTypeFacts
<1>6. "VLAN" \in HeaderNames
  BY DEF HeaderNames
<1>7. /\ at' \notin TlsAts /\ at' \notin DnsAts /\ at' \notin IpAts /\ at' \notin TcpAts
      /\ at' # "panic" /\ at' # "dissect"
  BY <1>5 DEF TlsAts, DnsAts, IpAts, TcpAts
<1> QED BY <1>1, <1>2, <1>3, <1>4, <1>6, <1>7, HeaderStep

LEMMA OtherEtherTypeStep == ASSUME DissectorInv, OtherEtherType PROVE DissectorInv'
<1>1. /\ at \in {"lldp", "payload"} /\ Open /\ at \notin TlsAts
      /\ UNCHANGED <<fixed, pos, cursors, inner, ipProto>>
  BY DEF OtherEtherType, Open, TlsAts
<1>2. "LLDP" \in LayerNames \ Applications /\ "Payload" \in LayerNames \ Applications
  BY DEF LayerNames, Applications
<1>3. \E name \in LayerNames \ Applications, proto \in {"LLDP", protocol} : LastLayer(name, proto)
  BY <1>2 DEF OtherEtherType
<1>4. TileInv' /\ layers' \in Seq(Layer) /\ at' = "finish"
  BY <1>1, <1>3, Basics, LastTaken DEF fixed
<1> QED BY <1>1, <1>4, LastStep

LEMMA CookedStep == ASSUME DissectorInv, Cooked PROVE DissectorInv'
<1>1. /\ at \in {"sll", "sll2"} /\ Open /\ at \notin TlsAts
      /\ size - pos >= IF at = "sll" THEN 16 ELSE 20
  BY DEF Cooked, Reads, Needs, Left, Open, TlsAts
<1>2. size \in Nat /\ pos \in Nat /\ protocol \in Provisional
  BY <1>1, Basics
<1>3. PICK n \in {16, 20} : n = IF at = "sll" THEN 16 ELSE 20
  OBVIOUS
<1>4. n \in Nat /\ n > 0 /\ pos + n <= size /\ pos + 12 <= size /\ pos + 0 <= size
  BY <1>1, <1>2, <1>3
<1>5. PICK name \in {"Linux SLL", "Linux SLL2"} : AddLayer(name, pos, n)
  BY <1>3 DEF Cooked
<1>6. /\ pos' = pos + n /\ protocol' = protocol
      /\ UNCHANGED <<fixed, cursors, inner, ipProto>>
      /\ at' \in {"ipv4", "ipv6", "arp", "finish"}
  BY <1>3, <1>4 DEF Cooked, Proceed
<1>7. name \in HeaderNames
  BY DEF HeaderNames
<1>8. /\ at' \notin TlsAts /\ at' \notin DnsAts /\ at' \notin IpAts /\ at' \notin TcpAts
      /\ at' # "panic" /\ at' # "dissect"
  BY <1>6 DEF TlsAts, DnsAts, IpAts, TcpAts
<1> QED BY <1>1, <1>2, <1>4, <1>5, <1>6, <1>7, <1>8, HeaderStep

LEMMA ArpStep == ASSUME DissectorInv, Arp PROVE DissectorInv'
<1>1. at = "arp" /\ Open /\ at \notin TlsAts /\ size - pos >= 28
  BY DEF Arp, Reads, Needs, Left, Open, TlsAts
<1>2. size \in Nat /\ pos \in Nat
  BY Basics
<1>3. pos + 28 <= size
  BY <1>1, <1>2
<1>4. /\ AddLayer("ARP", pos, 28) /\ protocol' = "ARP" /\ at' = "finish"
      /\ UNCHANGED <<fixed, pos, cursors, inner, ipProto>>
  BY <1>3 DEF Arp, Proceed
<1>5. "ARP" \in LayerNames /\ "ARP" \notin Applications
  BY DEF LayerNames, Applications
<1>6. TileInv' /\ layers' \in Seq(Layer)
  BY <1>1, <1>2, <1>3, <1>4, <1>5, Basics, LastAdded DEF fixed
<1> QED BY <1>1, <1>4, <1>6, LastStep

\* An IP header hands on to a transport that it has named.
LEMMA IpHeaderStep ==
    ASSUME DissectorInv, Open, at \notin TlsAts, NEW name \in {"IPv4", "IPv6"},
           NEW n \in Nat, n > 0, pos + n <= size, NEW read, read <= size,
           IpHeader(name, n, read)
    PROVE  DissectorInv'
<1>1. /\ DissectorTypeOK /\ TileInv /\ size \in Nat /\ pos \in Nat /\ protocol \in Provisional
  BY Basics
<1>2. PICK proto \in IpProtocols :
        /\ ipProto' = proto
        /\ at' = IF proto \in {"ICMP", "ICMPv6", "TCP", "UDP"} THEN proto ELSE "otherIp"
  BY DEF IpHeader, Proceed
<1>3. /\ AddLayer(name, pos, n) /\ pos' = pos + n /\ protocol' = protocol
      /\ UNCHANGED <<fixed, cursors, inner>>
  BY DEF IpHeader
<1>4. name \in HeaderNames
  BY DEF HeaderNames
<1>5. /\ TileInv' /\ layers' \in Seq(Layer)
      /\ layers' # <<>> /\ layers'[Len(layers')].name = name
  BY <1>1, <1>3, <1>4, HeaderAdded DEF fixed
<1>6. at' \notin TlsAts /\ at' \notin DnsAts /\ at' # "dissect" /\ ipProto' \in IpNames
  BY <1>2 DEF TlsAts, DnsAts, IpNames
<1>7. PanicInv'
  BY <1>2, <1>5 DEF PanicInv, PanicOnlyAtLastOption, OverIp
<1>8. pos' \in Nat
  BY <1>1, <1>3
<1> QED BY <1>3, <1>5, <1>6, <1>7, <1>8, OuterStep

LEMMA IPv4Step == ASSUME DissectorInv, IPv4 PROVE DissectorInv'
<1>1. at = "ipv4" /\ Open /\ at \notin TlsAts /\ size - pos >= 20
  BY DEF IPv4, Reads, Needs, Left, Open, TlsAts
<1>2. size \in Nat /\ pos \in Nat
  BY Basics
<1>3. CASE /\ at' = "finish"
           /\ UNCHANGED <<fixed, pos, cursors, frameVars, inner>>
  <2>1. TileInv' /\ layers' \in Seq(Layer)
    BY <1>1, <1>3, Basics, NoLayer DEF fixed, frameVars
  <2> QED BY <1>1, <1>3, <2>1, LastStep DEF frameVars
<1>4. ASSUME NEW ihl \in Nat, ihl >= 20, pos + ihl <= size, IpHeader("IPv4", ihl, pos + 20)
      PROVE  DissectorInv'
  BY <1>1, <1>2, <1>4, IpHeaderStep
<1>5. \A words \in HeaderWords : 4 * words \in Nat
  BY DissectorAssumption
<1>6. PICK words \in HeaderWords :
        IF 4 * words < 20 \/ pos + 4 * words > size
        THEN at' = "finish" /\ UNCHANGED <<fixed, pos, cursors, frameVars, inner>>
        ELSE IpHeader("IPv4", 4 * words, pos + 20)
  BY DEF IPv4
<1>7. CASE 4 * words < 20 \/ pos + 4 * words > size
  BY <1>3, <1>6, <1>7
<1>8. CASE ~(4 * words < 20 \/ pos + 4 * words > size)
  <2>1. 4 * words \in Nat /\ 4 * words >= 20 /\ pos + 4 * words <= size
    BY <1>2, <1>5, <1>8
  <2>2. IpHeader("IPv4", 4 * words, pos + 20)
    BY <1>6, <1>8
  <2> QED BY <1>4, <2>1, <2>2
<1> QED BY <1>7, <1>8

LEMMA IPv6Step == ASSUME DissectorInv, IPv6 PROVE DissectorInv'
<1>1. at = "ipv6" /\ Open /\ at \notin TlsAts /\ size - pos >= 40 /\ IpHeader("IPv6", 40, pos + 40)
  BY DEF IPv6, Reads, Needs, Left, Open, TlsAts
<1>2. size \in Nat /\ pos \in Nat
  BY Basics
<1>3. pos + 40 <= size
  BY <1>1, <1>2
<1> QED BY <1>1, <1>2, <1>3, IpHeaderStep

LEMMA OtherIpStep == ASSUME DissectorInv, OtherIp PROVE DissectorInv'
<1>1. /\ at = "otherIp" /\ Open /\ at \notin TlsAts
      /\ LastLayer(ipProto, ipProto) /\ UNCHANGED <<fixed, pos, cursors, inner, ipProto>>
  BY DEF OtherIp, Open, TlsAts
<1>2. ipProto \in IpProtocols
  BY <1>1 DEF DissectorInv, PanicInv, IpAts
<1>3. ipProto \in LayerNames /\ ipProto \notin Applications
  BY <1>2 DEF LayerNames, IpProtocols, Applications
<1>4. TileInv' /\ layers' \in Seq(Layer) /\ at' = "finish"
  BY <1>1, <1>3, Basics, LastTaken DEF fixed
<1> QED BY <1>1, <1>4, LastStep

LEMMA IcmpStep == ASSUME DissectorInv, Icmp PROVE DissectorInv'
<1>1. size \in Nat /\ pos \in Nat /\ Left \in Int
  BY Basics DEF Left
<1>2. /\ at \in {"ICMP", "ICMPv6"} /\ Open /\ at \notin TlsAts /\ Left >= 4
  <2>1. at \in {"ICMP", "ICMPv6"} /\ Left >= Needs[at]
    BY DEF Icmp, Reads
  <2>2. Needs["ICMP"] = 8 /\ Needs["ICMPv6"] = 4
    BY DEF Needs
  <2>3. Left >= 4
    BY <1>1, <2>1, <2>2
  <2> QED BY <2>1, <2>3 DEF Open, TlsAts
<1>3. Left \in Nat /\ pos + Left = size /\ pos + Left <= size /\ pos + 2 <= size
  BY <1>1, <1>2 DEF Left
<1>4. /\ AddLayer(at, pos, Left) /\ protocol' = at /\ at' = "finish"
      /\ UNCHANGED <<fixed, pos, cursors, inner, ipProto>>
  BY <1>3 DEF Icmp, Proceed
<1>5. at \in LayerNames /\ at \notin Applications
  BY <1>2 DEF LayerNames, IpProtocols, Applications
<1>6. TileInv' /\ layers' \in Seq(Layer)
  BY <1>1, <1>2, <1>3, <1>4, <1>5, Basics, LastAdded DEF fixed
<1> QED BY <1>2, <1>4, <1>6, LastStep

-----------------------------------------------------------------------------
(* TCP, its options and what its payload looks like.                       *)

\* A step outside the walks that moves cursors, or what else it counts in, but
\* adds no layer.
LEMMA CursorStep ==
    ASSUME DissectorInv, Open, at \notin TlsAts,
           UNCHANGED <<fixed, pos, frameVars, tls>>,
           cur' \in Nat, end' \in Nat, hdrLen' \in Nat, h2' \in Nat, dns' \in Dns,
           at' \notin TlsAts, at' \notin DnsAts, at' # "dissect", PanicInv'
    PROVE  DissectorInv'
<1>1. TileInv'
  BY Basics, NoLayer DEF fixed, frameVars
<1>2. DissectorTypeOK'
  BY DEF DissectorInv, DissectorTypeOK, fixed, frameVars
<1>3. DnsInv' /\ ShowInv' /\ PrintInv' /\ CountsInv'
  BY OutsideWalks DEF DissectorInv
<1> QED BY <1>1, <1>2, <1>3 DEF DissectorInv, StartInv

LEMMA TcpStep == ASSUME DissectorInv, Tcp PROVE DissectorInv'
<1>1. at = "TCP" /\ Open /\ at \notin TlsAts /\ size - pos >= 20
  BY DEF Tcp, Reads, Needs, Left, Open, TlsAts
<1>2. size \in Nat /\ pos \in Nat /\ dns \in Dns /\ h2 \in Nat
  BY Basics DEF DissectorInv, DissectorTypeOK
<1>3. OverIp /\ ipProto = "TCP"
  BY <1>1 DEF DissectorInv, PanicInv
<1>4. PICK words \in HeaderWords :
        hdrLen' = IF 4 * words < 20 \/ pos + 4 * words > size THEN 20 ELSE 4 * words
  BY DEF Tcp
<1>5. 4 * words \in Nat
  BY DissectorAssumption
<1>6. hdrLen' \in Nat /\ hdrLen' >= 20 /\ pos + hdrLen' <= size
  BY <1>1, <1>2, <1>4, <1>5
<1>7. /\ cur' = pos + 20 /\ end' = pos + hdrLen'
      /\ UNCHANGED <<fixed, pos, known, frameVars, tls, dns, h2>>
      /\ at' = IF hdrLen' > 20 THEN "option" ELSE "segment"
  <2>1. pos + 20 <= size
    BY <1>1, <1>2
  <2> QED BY <2>1 DEF Tcp, Proceed
<1>8. cur' \in Nat /\ end' \in Nat
  <2>1. pos + 20 \in Nat
    BY <1>2
  <2>2. \A n \in Nat : pos + n \in Nat
    BY <1>2
  <2>3. pos + hdrLen' \in Nat
    BY <1>6, <2>2
  <2> QED BY <1>7, <2>1, <2>3
<1>9. OverIp' /\ ipProto' = "TCP" /\ size' = size /\ pos' = pos
  BY <1>3, <1>7 DEF OverIp, fixed, frameVars
<1>10. PanicInv'
  BY <1>6, <1>7, <1>9 DEF PanicInv, PanicOnlyAtLastOption
<1>11. at' \notin TlsAts /\ at' \notin DnsAts /\ at' # "dissect"
  BY <1>7 DEF TlsAts, DnsAts
<1> QED BY <1>1, <1>2, <1>6, <1>7, <1>8, <1>10, <1>11, CursorStep

\* The one place where a reader indexes behind its slice, and how far.
LEMMA TcpOptionStep == ASSUME DissectorInv, TcpOption PROVE DissectorInv'
<1>1. /\ at = "option" /\ Open /\ at \notin TlsAts
      /\ UNCHANGED <<fixed, pos, end, known, frameVars, inner>>
  BY DEF TcpOption, Open, TlsAts
<1>2. /\ size \in Nat /\ pos \in Nat /\ cur \in Nat /\ end \in Nat /\ hdrLen \in Nat
      /\ dns \in Dns /\ h2 \in Nat
  BY Basics DEF DissectorInv, DissectorTypeOK
<1>3. /\ OverIp /\ ipProto = "TCP" /\ hdrLen > 20 /\ hdrLen >= 20
      /\ pos + hdrLen <= size /\ end = pos + hdrLen
  BY <1>1, <1>2 DEF DissectorInv, PanicInv
<1>4. OverIp' /\ ipProto' = "TCP" /\ size' = size /\ pos' = pos /\ hdrLen' = hdrLen /\ end' = end
  BY <1>1, <1>3 DEF OverIp, fixed, frameVars, inner
<1>5. CASE at' \in {"option", "segment"} /\ cur' \in Nat
  <2>1. PanicInv'
    BY <1>3, <1>4, <1>5 DEF PanicInv, PanicOnlyAtLastOption
  <2>2. at' \notin TlsAts /\ at' \notin DnsAts /\ at' # "dissect"
    BY <1>5 DEF TlsAts, DnsAts
  <2> QED BY <1>1, <1>2, <1>4, <1>5, <2>1, <2>2, CursorStep DEF inner
<1>6. CASE at' = "panic" /\ cur' = end
  <2>1. PanicInv'
    BY <1>3, <1>4, <1>6 DEF PanicInv, PanicOnlyAtLastOption, OverIp
  <2>2. at' \notin TlsAts /\ at' \notin DnsAts /\ at' # "dissect"
    BY <1>6 DEF TlsAts, DnsAts
  <2> QED BY <1>1, <1>2, <1>4, <1>6, <2>1, <2>2, CursorStep DEF inner
<1>7. CASE cur >= end
  BY <1>1, <1>2, <1>5, <1>7 DEF TcpOption
<1>8. CASE cur < end
  <2>1. PICK kind \in OptionKinds :
          \/ at' = "segment" /\ UNCHANGED cur
          \/ cur' = cur + 1 /\ UNCHANGED at
          \/ /\ cur + 1 < end
             /\ \E length \in Claims(end - cur) :
                  IF length < 2 \/ cur + length > end
                  THEN at' = "segment" /\ UNCHANGED cur
                  ELSE /\ cur' = cur + length
                       /\ Proceed("option", cur + (IF kind = "WS" THEN 3 ELSE 2), end)
    BY <1>2, <1>8 DEF TcpOption
  <2>2. CASE at' = "segment" /\ UNCHANGED cur
    BY <1>2, <1>5, <2>2
  <2>3. CASE cur' = cur + 1 /\ UNCHANGED at
    BY <1>1, <1>2, <1>5, <2>3
  <2>4. ASSUME NEW length \in Claims(end - cur), length >= 2, cur + length <= end,
               cur' = cur + length,
               Proceed("option", cur + (IF kind = "WS" THEN 3 ELSE 2), end)
        PROVE  DissectorInv'
    <3>1. length \in Nat
      BY <1>2, ClaimsAreNumbers
    <3>2. CASE at' = "option"
      BY <1>2, <1>5, <2>4, <3>1, <3>2
    <3>3. CASE at' # "option"
      <4>1. at' = "panic" /\ cur + (IF kind = "WS" THEN 3 ELSE 2) > end
        BY <1>2, <2>4, <3>3 DEF Proceed
      <4>2. cur' = end
        BY <1>2, <2>4, <3>1, <4>1
      <4> QED BY <1>6, <4>1, <4>2
    <3> QED BY <3>2, <3>3
  <2>5. ASSUME NEW length \in Claims(end - cur), ~(length < 2 \/ cur + length > end)
        PROVE  length >= 2 /\ cur + length <= end
    <3>1. length \in Nat
      BY <1>2, ClaimsAreNumbers
    <3> QED BY <1>2, <2>5, <3>1
  <2> QED BY <2>1, <2>2, <2>3, <2>4, <2>5
<1> QED BY <1>2, <1>7, <1>8

LEMMA SegmentStep == ASSUME DissectorInv, Segment PROVE DissectorInv'
<1>1. /\ at = "segment" /\ Open /\ at \notin TlsAts
      /\ AddLayer("TCP", pos, hdrLen) /\ pos' = pos + hdrLen /\ protocol' = "TCP"
      /\ UNCHANGED <<fixed, cursors, inner, ipProto>>
      /\ at' \in {"finish", "appTcp"}
  BY DEF Segment, Open, TlsAts
<1>2. pos \in Nat /\ hdrLen \in Nat /\ hdrLen >= 20 /\ pos + hdrLen <= size
  BY <1>1, Basics DEF DissectorInv, PanicInv
<1>3. hdrLen > 0
  BY <1>2
<1>4. "TCP" \in HeaderNames /\ protocol' \in Provisional
  BY <1>1 DEF HeaderNames, Provisional
<1>5. /\ at' \notin TlsAts /\ at' \notin DnsAts /\ at' \notin IpAts /\ at' \notin TcpAts
      /\ at' # "panic" /\ at' # "dissect"
  BY <1>1 DEF TlsAts, DnsAts, IpAts, TcpAts
<1> QED BY <1>1, <1>2, <1>3, <1>4, <1>5, HeaderStep

\* A payload taken as a whole.
LEMMA PayloadStep ==
    ASSUME DissectorInv, Open, at \notin TlsAts, NEW name \in LayerNames, NEW proto,
           LastLayer(name, proto), Unnamed' => name \notin Applications,
           UNCHANGED <<fixed, pos, cursors, inner, ipProto>>
    PROVE  DissectorInv'
<1>1. TileInv' /\ layers' \in Seq(Layer) /\ at' = "finish"
  BY Basics, LastTaken DEF fixed
<1> QED BY <1>1, LastStep

LEMMA HttpStep == ASSUME DissectorInv, Http PROVE DissectorInv'
<1>1. /\ at = "http" /\ Open /\ at \notin TlsAts /\ LastLayer("HTTP", "HTTP")
      /\ UNCHANGED <<fixed, pos, cursors, inner, ipProto>>
  BY DEF Http, Open, TlsAts
<1>2. "HTTP" \in LayerNames /\ ~Unnamed'
  BY <1>1 DEF LayerNames, Applications, LastLayer, Unnamed
<1> QED BY <1>1, <1>2, PayloadStep

LEMMA Http2FrameStep == ASSUME DissectorInv, Http2Frame PROVE DissectorInv'
<1>1. /\ at = "http2" /\ Open /\ at \notin TlsAts
      /\ UNCHANGED <<fixed, pos, end, known, frameVars, tls, dns, hdrLen>>
  BY DEF Http2Frame, Open, TlsAts
<1>2. /\ size \in Nat /\ cur \in Nat /\ end \in Nat /\ hdrLen \in Nat
      /\ dns \in Dns /\ h2 \in Nat
  BY Basics DEF DissectorInv, DissectorTypeOK
<1>3. h2' \in Nat /\ cur' \in Nat /\ at' \in {"http2", "http2Done"}
  <2>1. CASE cur + 9 <= size /\ h2 < MaxH2Frames
    <3>1. PICK length \in Claims(size - cur - 9) :
            /\ h2' = h2 + 1
            /\ cur' = IF cur + 9 + length > size THEN size ELSE cur + 9 + length
            /\ Proceed(IF cur + 9 + length > size THEN "http2Done" ELSE "http2", cur + 9, size)
      BY <2>1 DEF Http2Frame
    <3>2. length \in Nat
      BY <1>2, ClaimsAreNumbers
    <3> QED BY <1>2, <2>1, <3>1, <3>2 DEF Proceed
  <2>2. CASE ~(cur + 9 <= size /\ h2 < MaxH2Frames)
    BY <1>2, <2>2 DEF Http2Frame
  <2> QED BY <2>1, <2>2
<1>4. at' \notin TlsAts /\ at' \notin DnsAts /\ at' # "dissect" /\ PanicInv'
  BY <1>3, OutsideTransport DEF TlsAts, DnsAts, IpAts, TcpAts
<1> QED BY <1>1, <1>2, <1>3, <1>4, CursorStep

LEMMA Http2DoneStep == ASSUME DissectorInv, Http2Done PROVE DissectorInv'
<1>1. /\ at = "http2Done" /\ Open /\ at \notin TlsAts /\ LastLayer("HTTP/2", "HTTP/2")
      /\ UNCHANGED <<fixed, pos, cursors, inner, ipProto>>
  BY DEF Http2Done, Open, TlsAts
<1>2. "HTTP/2" \in LayerNames /\ ~Unnamed'
  BY <1>1 DEF LayerNames, Applications, LastLayer, Unnamed
<1> QED BY <1>1, <1>2, PayloadStep

LEMMA SshStep == ASSUME DissectorInv, Ssh PROVE DissectorInv'
<1>1. /\ at = "ssh" /\ Open /\ at \notin TlsAts /\ LastLayer("SSH", "SSH")
      /\ UNCHANGED <<fixed, pos, cursors, inner, ipProto>>
  BY DEF Ssh, Open, TlsAts
<1>2. "SSH" \in LayerNames /\ ~Unnamed'
  BY <1>1 DEF LayerNames, Applications, LastLayer, Unnamed
<1> QED BY <1>1, <1>2, PayloadStep

LEMMA TcpDataStep == ASSUME DissectorInv, TcpData PROVE DissectorInv'
<1>1. /\ at = "tcpData" /\ Open /\ at \notin TlsAts
      /\ UNCHANGED <<fixed, pos, cursors, inner, ipProto>>
  BY DEF TcpData, Open, TlsAts
<1>2. \/ LastLayer("Data", protocol)
      \/ LastLayer("TLS" \o "?", "TLS")
      \/ LastLayer("HTTP" \o "?", "HTTP")
  BY DEF TcpData
<1>3. /\ "Data" \in LayerNames /\ "Data" \notin Applications
      /\ "TLS" \o "?" \in LayerNames /\ "HTTP" \o "?" \in LayerNames
  BY DEF LayerNames, Applications
<1>4. CASE LastLayer("Data", protocol)
  BY <1>1, <1>3, <1>4, PayloadStep
<1>5. CASE LastLayer("TLS" \o "?", "TLS")
  <2>1. ~Unnamed'
    BY <1>5 DEF LastLayer, Unnamed
  <2> QED BY <1>1, <1>3, <1>5, <2>1, PayloadStep
<1>6. CASE LastLayer("HTTP" \o "?", "HTTP")
  <2>1. ~Unnamed'
    BY <1>6 DEF LastLayer, Unnamed
  <2> QED BY <1>1, <1>3, <1>6, <2>1, PayloadStep
<1> QED BY <1>2, <1>4, <1>5, <1>6

LEMMA AppTcpStep == ASSUME DissectorInv, AppTcp PROVE DissectorInv'
<1>1. /\ at = "appTcp" /\ Open /\ at \notin TlsAts
      /\ UNCHANGED <<fixed, pos, end, frameVars, dns, hdrLen>>
  BY DEF AppTcp, Open, TlsAts
<1>2. /\ size \in Nat /\ pos \in Nat /\ cur \in Nat /\ end \in Nat /\ hdrLen \in Nat
      /\ dns \in Dns /\ h2 \in Nat
  BY Basics DEF DissectorInv, DissectorTypeOK
<1>3. CASE /\ tls' = tls /\ cur' \in Nat /\ h2' \in Nat
           /\ at' \in {"http2", "http", "ssh", "tcpData"}
  <2>1. at' \notin TlsAts /\ at' \notin DnsAts /\ at' # "dissect" /\ PanicInv'
    BY <1>3, OutsideTransport DEF TlsAts, DnsAts, IpAts, TcpAts
  <2> QED BY <1>1, <1>2, <1>3, <2>1, CursorStep
<1>4. CASE /\ \E type \in ContentTypes, length \in Claims(Left - 5) \ {0} :
                known' = Noted(Noted(Unread, pos, type), pos + 3, length)
           /\ tls' = [IdleTls EXCEPT !.rec = pos]
           /\ at' = "record"
           /\ UNCHANGED <<cur, h2>>
  <2>1. tls'.rec = pos /\ tls'.shown = 0 /\ tls'.prints = 0 /\ tls' \in Tls
    BY <1>2, <1>4 DEF IdleTls, Tls, HelloNames
  <2>2. DOMAIN known' \subseteq {pos, pos + 3} /\ (pos + 3 \in DOMAIN known' => known'[pos + 3] \in Nat)
    <3>1. PICK type \in ContentTypes, length \in Claims(Left - 5) \ {0} :
            known' = Noted(Noted(Unread, pos, type), pos + 3, length)
      BY <1>4
    <3>2. length \in Nat
      BY <1>2, ClaimsAreNumbers DEF Left
    <3>3. DOMAIN Unread = {}
      BY DEF Unread
    <3>4. PICK first : first = Noted(Unread, pos, type)
      OBVIOUS
    <3>5. DOMAIN first = {pos}
      <4>1. DOMAIN first = DOMAIN Unread \cup {pos}
        BY <3>4, NotedDomain
      <4> QED BY <3>3, <4>1
    <3>6. pos + 3 # pos
      BY <1>2
    <3>7. pos + 3 \notin DOMAIN first
      BY <3>5, <3>6
    <3>8. known' = Noted(first, pos + 3, length)
      BY <3>1, <3>4
    <3>9. DOMAIN known' = DOMAIN first \cup {pos + 3}
      BY <3>8, NotedDomain
    <3>10. known'[pos + 3] = length
      BY <3>7, <3>8, NotedHere
    <3> QED BY <3>2, <3>5, <3>9, <3>10
  <2>3. DissectorTypeOK'
    BY <1>1, <1>2, <1>4, <2>1 DEF DissectorInv, DissectorTypeOK, fixed, frameVars
  <2>4. TileInv'
    BY <1>1, Basics, NoLayer DEF fixed, frameVars
  <2>5. PanicInv' /\ DnsInv' /\ StartInv'
    BY <1>4, OutsideTransport DEF IpAts, TcpAts, DnsInv, StartInv
  <2>6. ShowInv' /\ PrintInv'
    BY <1>4, <2>1, <2>2 DEF ShowInv, PrintInv
  <2>7. CountsInv'
    BY <1>4, <2>1 DEF CountsInv
  <2> QED BY <2>3, <2>4, <2>5, <2>6, <2>7 DEF DissectorInv
<1>5. pos + 24 \in Nat /\ 0 \in Nat /\ 1 \in Nat
  BY <1>2
<1> QED BY <1>2, <1>3, <1>4, <1>5 DEF AppTcp

-----------------------------------------------------------------------------
(* UDP, but for DNS.                                                       *)

LEMMA UdpStep == ASSUME DissectorInv, Udp PROVE DissectorInv'
<1>1. at = "UDP" /\ Open /\ at \notin TlsAts /\ size - pos >= 8
  BY DEF Udp, Reads, Needs, Left, Open, TlsAts
<1>2. DissectorTypeOK /\ TileInv /\ size \in Nat /\ pos \in Nat
  BY Basics
<1>3. pos + 8 <= size /\ pos + 8 \in Nat
  BY <1>1, <1>2
<1>4. /\ AddLayer("UDP", pos, 8) /\ pos' = pos + 8 /\ protocol' = "UDP"
      /\ UNCHANGED <<fixed, cursors, ipProto, tls, dns, hdrLen, h2>>
      /\ at' \in {"finish", "appUdp"}
  BY DEF Udp
<1>5. "UDP" \in HeaderNames /\ protocol' \in Provisional
  BY <1>4 DEF HeaderNames, Provisional
<1>6. TileInv' /\ layers' \in Seq(Layer)
  BY <1>1, <1>2, <1>3, <1>4, <1>5, HeaderAdded DEF fixed
<1>7. DissectorTypeOK'
  BY <1>2, <1>3, <1>4, <1>6 DEF DissectorTypeOK, fixed, cursors
<1>8. at' \notin TlsAts /\ at' \notin DnsAts /\ PanicInv' /\ StartInv'
  BY <1>4, OutsideTransport DEF TlsAts, DnsAts, IpAts, TcpAts, StartInv
<1>9. DnsInv' /\ ShowInv' /\ PrintInv' /\ CountsInv'
  BY <1>1, <1>4, <1>8, OutsideWalks DEF DissectorInv
<1> QED BY <1>6, <1>7, <1>8, <1>9 DEF DissectorInv

LEMMA AppUdpStep == ASSUME DissectorInv, AppUdp PROVE DissectorInv'
<1>1. /\ at = "appUdp" /\ Open /\ at \notin TlsAts
      /\ UNCHANGED <<fixed, pos, cursors, frameVars, tls, hdrLen, h2>>
      /\ dns' = [IdleDns EXCEPT !.mdns = (service = "mdns")]
  BY DEF AppUdp, Open, TlsAts
<1>2. at' \in {"dns", "dhcp", "ntp", "quic", "udpData"}
  BY DEF AppUdp
<1>3. dns' \in Dns
  BY <1>1 DEF IdleDns, Dns, Parts
<1>4. cur \in Nat /\ end \in Nat /\ hdrLen \in Nat /\ h2 \in Nat
  BY Basics DEF DissectorInv, DissectorTypeOK
<1>5. at' \notin TlsAts /\ at' \notin DnsAts /\ at' # "dissect" /\ PanicInv'
  BY <1>2, OutsideTransport DEF TlsAts, DnsAts, IpAts, TcpAts
<1> QED BY <1>1, <1>3, <1>4, <1>5, CursorStep DEF cursors

LEMMA UdpPayloadStep == ASSUME DissectorInv, UdpPayload PROVE DissectorInv'
<1>1. /\ at \in {"ntp", "quic", "udpData"} /\ Open /\ at \notin TlsAts
      /\ UNCHANGED <<fixed, pos, cursors, inner, ipProto>>
  BY DEF UdpPayload, Open, TlsAts
<1>2. \/ LastLayer("NTP", "NTP") \/ LastLayer("QUIC", "QUIC") \/ LastLayer("Data", protocol)
  BY DEF UdpPayload
<1>3. /\ "NTP" \in LayerNames /\ "QUIC" \in LayerNames /\ "Data" \in LayerNames
      /\ "NTP" \notin Applications /\ "Data" \notin Applications
  BY DEF LayerNames, Applications
<1>4. CASE LastLayer("NTP", "NTP")
  BY <1>1, <1>3, <1>4, PayloadStep
<1>5. CASE LastLayer("Data", protocol)
  BY <1>1, <1>3, <1>5, PayloadStep
<1>6. CASE LastLayer("QUIC", "QUIC")
  <2>1. ~Unnamed'
    BY <1>6 DEF LastLayer, Unnamed
  <2> QED BY <1>1, <1>3, <1>6, <2>1, PayloadStep
<1> QED BY <1>2, <1>4, <1>5, <1>6

LEMMA DhcpSteps == ASSUME DissectorInv, Dhcp \/ DhcpOption PROVE DissectorInv'
<1>1. /\ at \in {"dhcp", "dhcpOption"} /\ Open /\ at \notin TlsAts
      /\ UNCHANGED <<fixed, pos, end, known, frameVars, inner>>
  BY DEF Dhcp, DhcpOption, Open, TlsAts
<1>2. /\ size \in Nat /\ pos \in Nat /\ cur \in Nat /\ end \in Nat /\ hdrLen \in Nat
      /\ dns \in Dns /\ h2 \in Nat
  BY Basics DEF DissectorInv, DissectorTypeOK
<1>3. cur' \in Nat /\ at' \in {"dhcpOption", "dhcpDone"}
  <2>1. CASE Dhcp
    BY <1>2, <2>1, DissectorAssumption DEF Dhcp
  <2>2. CASE DhcpOption
    <3>1. CASE at' = "dhcpDone" /\ UNCHANGED cur
      BY <1>2, <3>1
    <3>2. CASE cur < size /\ cur' = cur + 1 /\ UNCHANGED at
      BY <1>2, <2>2, <3>2 DEF DhcpOption
    <3>3. ASSUME cur + 1 < size, NEW length \in Claims(size - cur - 2),
                 cur + 2 + length <= size, cur' = cur + 2 + length,
                 Proceed("dhcpOption", cur + 2 + (IF length = 1 THEN 1 ELSE 0), size)
          PROVE  cur' \in Nat /\ at' \in {"dhcpOption", "dhcpDone"}
      <4>1. length \in Nat
        BY <1>2, ClaimsAreNumbers
      <4>2. cur + 2 + (IF length = 1 THEN 1 ELSE 0) <= size
        BY <1>2, <3>3, <4>1
      <4> QED BY <1>2, <3>3, <4>1, <4>2 DEF Proceed
    <3>4. \/ at' = "dhcpDone" /\ UNCHANGED cur
          \/ cur < size /\ cur' = cur + 1 /\ UNCHANGED at
          \/ /\ cur + 1 < size
             /\ \E length \in Claims(size - cur - 2) :
                  IF cur + 2 + length > size
                  THEN at' = "dhcpDone" /\ UNCHANGED cur
                  ELSE /\ cur' = cur + 2 + length
                       /\ Proceed("dhcpOption", cur + 2 + (IF length = 1 THEN 1 ELSE 0), size)
      BY <2>2 DEF DhcpOption
    <3>5. \A length \in Claims(size - cur - 2) :
             ~(cur + 2 + length > size) => cur + 2 + length <= size
      <4> SUFFICES ASSUME NEW length \in Claims(size - cur - 2)
                   PROVE  ~(cur + 2 + length > size) => cur + 2 + length <= size
        OBVIOUS
      <4>1. length \in Nat
        BY <1>2, ClaimsAreNumbers
      <4> QED BY <1>2, <4>1
    <3> QED BY <3>1, <3>2, <3>3, <3>4, <3>5
  <2> QED BY <2>1, <2>2
<1>4. at' \notin TlsAts /\ at' \notin DnsAts /\ at' # "dissect" /\ PanicInv'
  BY <1>3, OutsideTransport DEF TlsAts, DnsAts, IpAts, TcpAts
<1> QED BY <1>1, <1>2, <1>3, <1>4, CursorStep DEF inner

LEMMA DhcpDoneStep == ASSUME DissectorInv, DhcpDone PROVE DissectorInv'
<1>1. /\ at = "dhcpDone" /\ Open /\ at \notin TlsAts /\ LastLayer("DHCP", "DHCP")
      /\ UNCHANGED <<fixed, pos, cursors, inner, ipProto>>
  BY DEF DhcpDone, Open, TlsAts
<1>2. "DHCP" \in LayerNames /\ ~Unnamed'
  BY <1>1 DEF LayerNames, Applications, LastLayer, Unnamed
<1> QED BY <1>1, <1>2, PayloadStep

\* The end of Dissect: a frame that no dissector has named takes the name of
\* its last layer, which is no application's.
LEMMA FinishStep == ASSUME DissectorInv, Finish, UNCHANGED inner PROVE DissectorInv'
<1>1. /\ at = "finish" /\ at \notin TlsAts /\ at' = "done"
      /\ UNCHANGED <<fixed, pos, cursors, layers, ipProto, inner>>
  BY DEF Finish, TlsAts, fixed, cursors
<1>2. pos \in Nat /\ ipProto \in IpNames /\ layers \in Seq(Layer) /\ TileInv
  BY Basics
<1>3. at' \notin TlsAts /\ at' \notin DnsAts /\ at' # "dissect" /\ PanicInv'
  BY <1>1, OutsideTransport DEF TlsAts, DnsAts, IpAts, TcpAts
<1>4. Tiled' /\ Frontier' = Frontier
  BY <1>1, <1>2 DEF TileInv, Tiled, Frontier, fixed
<1>5. protocol' \in Applications => layers # <<>> /\ Frontier = size
  <2>1. CASE protocol' = protocol
    BY <1>2, <2>1 DEF TileInv
  <2>2. CASE Unnamed /\ layers = <<>> /\ protocol' = "Unknown"
    BY <2>2 DEF Applications
  <2>3. CASE Unnamed /\ layers # <<>> /\ protocol' = layers[Len(layers)].name
    BY <1>1, <1>2, <2>3 DEF TileInv
  <2> QED BY <2>1, <2>2, <2>3 DEF Finish, Unnamed
<1>6. TileInv'
  BY <1>1, <1>4, <1>5 DEF TileInv, Open, fixed
<1> QED BY <1>1, <1>2, <1>3, <1>6, OuterStep

-----------------------------------------------------------------------------
(* The two walks of a ClientHello.                                         *)

\* A step of the walks: all that was known is known.
Grows ==
    /\ size' = size /\ tls'.rec = tls.rec /\ tls'.length = tls.length
    /\ DOMAIN known \subseteq DOMAIN known'
    /\ \A o \in DOMAIN known : known'[o] = known[o]

\* Where the fields of the hello are does not change.
LEMMA TowerKept ==
    ASSUME Grows
    PROVE  /\ RecordAt' = RecordAt /\ BodyAt' = BodyAt /\ SessionAt' = SessionAt
           /\ RecordEnd' = RecordEnd /\ (HasHeader' <=> HasHeader)
           /\ HeaderRead => /\ HeaderRead' /\ BodyEnd' = BodyEnd
                            /\ known'[RecordAt] = known[RecordAt] /\ (HasSession' <=> HasSession)
           /\ SessionRead => SessionRead' /\ CiphersAt' = CiphersAt /\ (HasCiphers' <=> HasCiphers)
           /\ CiphersRead => CiphersRead' /\ MethodsAt' = MethodsAt /\ (HasMethods' <=> HasMethods)
           /\ MethodsRead => MethodsRead' /\ ExtsAt' = ExtsAt /\ (HasExts' <=> HasExts)
           /\ ExtsRead => ExtsRead' /\ ExtsEnd' = ExtsEnd
<1>1. /\ RecordAt' = RecordAt /\ BodyAt' = BodyAt /\ SessionAt' = SessionAt /\ RecordEnd' = RecordEnd
  BY DEF Grows, RecordAt, BodyAt, SessionAt, RecordEnd, Min2
<1>2. HasHeader' <=> HasHeader
  BY <1>1 DEF HasHeader
<1>3. ASSUME NEW o, KnownNat(o)
      PROVE  o \in DOMAIN known' /\ known'[o] \in Nat /\ known'[o] = known[o]
  BY <1>3 DEF Grows, KnownNat
<1>4. ASSUME HeaderRead
      PROVE  /\ HeaderRead' /\ BodyEnd' = BodyEnd
             /\ known'[RecordAt] = known[RecordAt] /\ (HasSession' <=> HasSession)
  <2>1. /\ HasHeader /\ RecordAt \in DOMAIN known /\ known[RecordAt] \in HandshakeTypes
        /\ KnownNat(RecordAt + 1)
    BY <1>4 DEF HeaderRead
  <2>2. /\ RecordAt \in DOMAIN known' /\ known'[RecordAt] = known[RecordAt]
        /\ RecordAt + 1 \in DOMAIN known' /\ known'[RecordAt + 1] \in Nat
        /\ known'[RecordAt + 1] = known[RecordAt + 1]
    BY <1>3, <2>1 DEF Grows
  <2>3. HeaderRead'
    BY <1>1, <1>2, <2>1, <2>2 DEF HeaderRead, KnownNat
  <2>4. BodyEnd' = BodyEnd
    BY <1>1, <2>2 DEF BodyEnd, Min2
  <2>5. HasSession' <=> HasSession
    BY <1>1, <2>2, <2>4 DEF HasSession
  <2> QED BY <2>2, <2>3, <2>4, <2>5
<1>5. ASSUME SessionRead
      PROVE  SessionRead' /\ CiphersAt' = CiphersAt /\ (HasCiphers' <=> HasCiphers)
  <2>1. HeaderRead /\ HasSession /\ KnownNat(SessionAt)
    BY <1>5 DEF SessionRead
  <2>2. HeaderRead' /\ HasSession' /\ BodyEnd' = BodyEnd
    BY <1>4, <2>1
  <2>3. SessionAt \in DOMAIN known' /\ known'[SessionAt] \in Nat /\ known'[SessionAt] = known[SessionAt]
    BY <1>3, <2>1
  <2>4. SessionRead'
    BY <1>1, <2>2, <2>3 DEF SessionRead, KnownNat
  <2>5. CiphersAt' = CiphersAt
    BY <1>1, <2>3 DEF CiphersAt
  <2> QED BY <2>2, <2>4, <2>5 DEF HasCiphers
<1>6. ASSUME CiphersRead
      PROVE  CiphersRead' /\ MethodsAt' = MethodsAt /\ (HasMethods' <=> HasMethods)
  <2>1. SessionRead /\ HasCiphers /\ KnownNat(CiphersAt) /\ HeaderRead
    BY <1>6 DEF CiphersRead, SessionRead
  <2>2. SessionRead' /\ HasCiphers' /\ CiphersAt' = CiphersAt /\ BodyEnd' = BodyEnd
    BY <1>4, <1>5, <2>1
  <2>3. CiphersAt \in DOMAIN known' /\ known'[CiphersAt] \in Nat /\ known'[CiphersAt] = known[CiphersAt]
    BY <1>3, <2>1
  <2>4. CiphersRead'
    BY <2>2, <2>3 DEF CiphersRead, KnownNat
  <2>5. MethodsAt' = MethodsAt
    BY <2>2, <2>3 DEF MethodsAt
  <2> QED BY <2>2, <2>4, <2>5 DEF HasMethods
<1>7. ASSUME MethodsRead
      PROVE  MethodsRead' /\ ExtsAt' = ExtsAt /\ (HasExts' <=> HasExts)
  <2>1. CiphersRead /\ HasMethods /\ KnownNat(MethodsAt) /\ HeaderRead
    BY <1>7 DEF MethodsRead, CiphersRead, SessionRead
  <2>2. CiphersRead' /\ HasMethods' /\ MethodsAt' = MethodsAt /\ BodyEnd' = BodyEnd
    BY <1>4, <1>6, <2>1
  <2>3. MethodsAt \in DOMAIN known' /\ known'[MethodsAt] \in Nat /\ known'[MethodsAt] = known[MethodsAt]
    BY <1>3, <2>1
  <2>4. MethodsRead'
    BY <2>2, <2>3 DEF MethodsRead, KnownNat
  <2>5. ExtsAt' = ExtsAt
    BY <2>2, <2>3 DEF ExtsAt
  <2> QED BY <2>2, <2>4, <2>5 DEF HasExts
<1>8. ASSUME ExtsRead
      PROVE  ExtsRead' /\ ExtsEnd' = ExtsEnd
  <2>1. MethodsRead /\ HasExts /\ KnownNat(ExtsAt) /\ HeaderRead
    BY <1>8 DEF ExtsRead, MethodsRead, CiphersRead, SessionRead
  <2>2. MethodsRead' /\ HasExts' /\ ExtsAt' = ExtsAt /\ BodyEnd' = BodyEnd
    BY <1>4, <1>7, <2>1
  <2>3. ExtsAt \in DOMAIN known' /\ known'[ExtsAt] \in Nat /\ known'[ExtsAt] = known[ExtsAt]
    BY <1>3, <2>1
  <2>4. ExtsRead'
    BY <2>2, <2>3 DEF ExtsRead, KnownNat
  <2> QED BY <2>2, <2>3, <2>4 DEF ExtsEnd, Min2
<1> QED BY <1>1, <1>2, <1>4, <1>5, <1>6, <1>7, <1>8

\* What leads where stays when more is known.
LEMMA LeadsKept ==
    ASSUME Grows, NEW first, NEW last, NEW S \in SUBSET DOMAIN known, NEW more,
           Leads(known, first, last, S, more)
    PROVE  S \in SUBSET DOMAIN known' /\ Leads(known', first, last, S, more)
BY DEF Leads, Grows

\* The extension at c is read.
LEMMA LeadsOn ==
    ASSUME NEW map, NEW first, NEW last, NEW S, NEW c, Leads(map, first, last, S, {c}),
           c + 2 \in DOMAIN map, map[c + 2] \in Nat
    PROVE  Leads(map, first, last, S \cup {c}, {c + 4 + map[c + 2]})
BY DEF Leads

\* No extension fits at c.
LEMMA LeadsNoFurther ==
    ASSUME NEW map, NEW first, NEW last, NEW S, NEW c, Leads(map, first, last, S, {c}),
           ~(c + 4 <= last)
    PROVE  Leads(map, first, last, S, {})
<1>1. /\ first + 4 <= last => first \in S \cup {c}
      /\ \A o \in S :
           /\ o + 2 \in DOMAIN map /\ map[o + 2] \in Nat
           /\ o + 4 + map[o + 2] + 4 <= last => o + 4 + map[o + 2] \in S \cup {c}
  BY DEF Leads
<1>2. first + 4 <= last => first \in S
  BY <1>1
<1>3. \A o \in S : o + 4 + map[o + 2] + 4 <= last => o + 4 + map[o + 2] \in S
  BY <1>1
<1> QED BY <1>1, <1>2, <1>3 DEF Leads

\* What was shown of the hello is still known when the fingerprint is made.
LEMMA HelloReadKept ==
    ASSUME Grows, HelloRead
    PROVE  HelloRead' /\ (Complete' <=> Complete)
<1>1. ASSUME HelloShownInFull
      PROVE  HelloShownInFull'
  <2>1. MethodsRead /\ (HasExts => ExtsRead /\ Extensions({}))
    BY <1>1 DEF HelloShownInFull
  <2>2. MethodsRead' /\ ExtsAt' = ExtsAt /\ (HasExts' <=> HasExts)
    BY <2>1, TowerKept
  <2>3. ASSUME HasExts
        PROVE  ExtsRead' /\ Extensions({})'
    <3>1. ExtsRead' /\ ExtsEnd' = ExtsEnd
      BY <2>1, <2>3, TowerKept
    <3>2. PICK S \in SUBSET DOMAIN known : Leads(known, ExtsAt + 2, ExtsEnd, S, {})
      BY <2>1, <2>3 DEF Extensions
    <3>3. S \in SUBSET DOMAIN known' /\ Leads(known', ExtsAt + 2, ExtsEnd, S, {})
      BY <3>2, LeadsKept
    <3> QED BY <2>2, <3>1, <3>3 DEF Extensions
  <2> QED BY <2>2, <2>3 DEF HelloShownInFull
<1>2. CASE ~HasHeader
  BY <1>2, TowerKept DEF HelloRead, Complete
<1>3. CASE HasHeader /\ ~HasSession
  <2>1. HeaderRead
    BY <1>3 DEF HelloRead
  <2> QED BY <1>3, <2>1, TowerKept DEF HelloRead, Complete
<1>4. CASE HasHeader /\ HasSession /\ ~HasCiphers
  <2>1. HeaderRead /\ SessionRead
    BY <1>4 DEF HelloRead
  <2> QED BY <1>4, <2>1, TowerKept DEF HelloRead, Complete
<1>5. CASE HasHeader /\ HasSession /\ HasCiphers /\ ~HasMethods
  <2>1. HeaderRead /\ SessionRead /\ CiphersRead
    BY <1>5 DEF HelloRead
  <2> QED BY <1>5, <2>1, TowerKept DEF HelloRead, Complete
<1>6. CASE HasHeader /\ HasSession /\ HasCiphers /\ HasMethods
  <2>1. HeaderRead /\ SessionRead /\ CiphersRead /\ HelloShownInFull
    BY <1>6 DEF HelloRead
  <2> QED BY <1>1, <1>6, <2>1, TowerKept DEF HelloRead, Complete
<1> QED BY <1>2, <1>3, <1>4, <1>5, <1>6

\* A step of the TLS dissector that goes on.
LEMMA WalkStep ==
    ASSUME DissectorInv, at \in TlsAts, Open, UNCHANGED <<size, pos, layers, protocol, ipProto>>,
           UNCHANGED <<dns, hdrLen, h2>>,
           cur' \in Nat, end' \in Nat, tls' \in Tls, at' \in TlsAts,
           ShowInv', PrintInv', CountsInv'
    PROVE  DissectorInv'
<1>1. TileInv'
  BY Basics, NoLayer
<1>2. DissectorTypeOK'
  BY DEF DissectorInv, DissectorTypeOK
<1>3. PanicInv' /\ DnsInv' /\ StartInv'
  BY OutsideTransport DEF TlsAts, IpAts, TcpAts, DnsInv, StartInv
<1> QED BY <1>1, <1>2, <1>3 DEF DissectorInv

\* The names of the messages name what is shown.
LEMMA HandshakeNames == HandshakeTypes \subseteq HelloNames
  BY DEF HelloNames

\* What the walks may use.
LEMMA WalkBasics ==
    ASSUME DissectorInv
    PROVE  /\ size \in Nat /\ cur \in Nat /\ end \in Nat
           /\ tls \in Tls /\ tls.rec \in Nat /\ tls.length \in Nat /\ tls.n \in Nat
           /\ tls.shown \in Nat /\ tls.prints \in Nat
           /\ RecordAt \in Nat /\ BodyAt \in Nat /\ SessionAt \in Nat /\ RecordEnd \in Nat
           /\ RecordAt = tls.rec + 5 /\ BodyAt = RecordAt + 4 /\ SessionAt = BodyAt + HelloFixed
           /\ ShowInv /\ PrintInv /\ CountsInv
<1>1. /\ size \in Nat /\ cur \in Nat /\ end \in Nat /\ tls \in Tls
      /\ ShowInv /\ PrintInv /\ CountsInv
  BY DEF DissectorInv, DissectorTypeOK
<1>2. /\ tls.rec \in Nat /\ tls.length \in Nat /\ tls.n \in Nat
      /\ tls.shown \in Nat /\ tls.prints \in Nat
  BY <1>1 DEF Tls
<1>3. /\ RecordAt \in Nat /\ BodyAt \in Nat /\ SessionAt \in Nat
      /\ RecordAt = tls.rec + 5 /\ BodyAt = RecordAt + 4 /\ SessionAt = BodyAt + HelloFixed
  BY <1>2, TlsAssumption DEF RecordAt, BodyAt, SessionAt
<1>4. RecordEnd \in Nat
  BY <1>1, <1>2 DEF RecordEnd, Min2
<1> QED BY <1>1, <1>2, <1>3, <1>4

LEMMA RecordStep ==
    ASSUME DissectorInv, Record, UNCHANGED <<dns, hdrLen, service, h2>>
    PROVE  DissectorInv'
<1>1. /\ at = "record" /\ Open /\ at \in TlsAts
      /\ UNCHANGED <<size, pos, layers, protocol, ipProto, known>>
  BY DEF Record, Open, TlsAts, tlsRest, frameVars
<1>2. /\ size \in Nat /\ cur \in Nat /\ end \in Nat /\ tls \in Tls /\ tls.rec \in Nat
      /\ tls.shown = tls.prints + 0
      /\ DOMAIN known \subseteq {tls.rec, tls.rec + 3}
      /\ tls.rec + 3 \in DOMAIN known => known[tls.rec + 3] \in Nat
  BY <1>1, WalkBasics DEF ShowInv, CountsInv
<1>3. CASE at' = "tlsDone" /\ UNCHANGED <<cur, end, tls>>
  <2>1. at' \in TlsAts
    BY <1>3 DEF TlsAts
  <2>2. ShowInv' /\ PrintInv' /\ CountsInv'
    BY <1>2, <1>3 DEF ShowInv, PrintInv, CountsInv
  <2> QED BY <1>1, <1>2, <1>3, <2>1, <2>2, WalkStep
<1>4. ASSUME tls.rec + 5 <= size,
             NEW type \in Field(tls.rec, ContentTypes),
             NEW length \in Field(tls.rec + 3, Claims(size - tls.rec - 5)),
             tls' = [tls EXCEPT !.length = length],
             cur' = tls.rec + 5, end' = Min2(tls.rec + 5 + length, size),
             Proceed(IF type = "handshake" /\ cur' < end' THEN "handshake" ELSE "nextRecord",
                     tls.rec + 1, size)
      PROVE  DissectorInv'
  <2>1. length \in Nat
    BY <1>2, ClaimsAreNumbers DEF Field
  <2>2. /\ tls' \in Tls /\ tls'.rec = tls.rec /\ tls'.length = length /\ tls'.hs = tls.hs
        /\ tls'.shown = tls.shown /\ tls'.prints = tls.prints
    BY <1>2, <1>4, <2>1 DEF Tls
  <2>3. cur' \in Nat /\ end' \in Nat /\ cur' = RecordAt' /\ end' = RecordEnd'
    BY <1>1, <1>2, <1>4, <2>1, <2>2 DEF RecordAt, RecordEnd, Min2
  <2>4. at' \in {"handshake", "nextRecord"}
    BY <1>2, <1>4 DEF Proceed
  <2>5. Below'
    BY <1>1, <1>2, <1>4 DEF Below
  <2>6. at' \in TlsAts
    BY <2>4 DEF TlsAts
  <2>7. ShowInv' /\ PrintInv' /\ CountsInv'
    BY <1>2, <2>2, <2>3, <2>4, <2>5 DEF ShowInv, PrintInv, CountsInv
  <2> QED BY <1>1, <1>2, <2>2, <2>3, <2>6, <2>7, WalkStep
<1>5. tls.rec + 5 > size \/ tls.rec + 5 <= size
  BY <1>2
<1> QED BY <1>3, <1>4, <1>5 DEF Record

LEMMA NextRecordStep ==
    ASSUME DissectorInv, NextRecord, UNCHANGED <<dns, hdrLen, service, h2>>
    PROVE  DissectorInv'
<1>1. /\ at = "nextRecord" /\ Open /\ at \in TlsAts
      /\ UNCHANGED <<size, pos, layers, protocol, ipProto, cur, end>>
      /\ known' = Unread /\ at' \in {"tlsDone", "record"}
      /\ tls' = [tls EXCEPT !.n = @ + 1, !.rec = tls.rec + 5 + tls.length]
  BY DEF NextRecord, Open, TlsAts, tlsRest, frameVars
<1>2. /\ cur \in Nat /\ end \in Nat /\ tls \in Tls /\ tls.rec \in Nat /\ tls.length \in Nat /\ tls.n \in Nat
      /\ tls.shown = tls.prints + 0
  BY <1>1, WalkBasics DEF CountsInv
<1>3. tls.n + 1 \in Nat /\ tls.rec + 5 + tls.length \in Nat
  BY <1>2
<1>4. tls' \in Tls /\ tls'.shown = tls.shown /\ tls'.prints = tls.prints
  BY <1>1, <1>2, <1>3 DEF Tls
<1>5. DOMAIN known' = {}
  BY <1>1 DEF Unread
<1>6. ShowInv' /\ PrintInv' /\ CountsInv'
  BY <1>1, <1>2, <1>4, <1>5 DEF ShowInv, PrintInv, CountsInv
<1>7. at' \in TlsAts
  BY <1>1 DEF TlsAts
<1> QED BY <1>1, <1>2, <1>4, <1>6, <1>7, WalkStep

LEMMA TlsDoneStep ==
    ASSUME DissectorInv, TlsDone, UNCHANGED <<dns, hdrLen, service, h2>>
    PROVE  DissectorInv'
<1>1. /\ at = "tlsDone" /\ Open /\ LastLayer("TLS", "TLS") /\ cur' = 0 /\ end' = 0
      /\ UNCHANGED <<size, pos, ipProto, tls>>
  BY DEF TlsDone, Open
<1>2. "TLS" \in LayerNames /\ ~Unnamed'
  BY <1>1 DEF LayerNames, Applications, LastLayer, Unnamed
<1>3. TileInv' /\ layers' \in Seq(Layer) /\ at' = "finish"
  BY <1>1, <1>2, Basics, LastTaken
<1>4. DissectorTypeOK'
  BY <1>1, <1>3 DEF DissectorInv, DissectorTypeOK
<1>5. PanicInv' /\ StartInv' /\ DnsInv' /\ ShowInv' /\ PrintInv'
  BY <1>3, OutsideTransport DEF IpAts, TcpAts, StartInv, DnsInv, ShowInv, PrintInv
<1>6. CountsInv'
  BY <1>1, <1>3, WalkBasics DEF CountsInv
<1> QED BY <1>3, <1>4, <1>5, <1>6 DEF DissectorInv

LEMMA HandshakeStep ==
    ASSUME DissectorInv, Handshake, UNCHANGED <<dns, hdrLen, service, h2>>
    PROVE  DissectorInv'
<1>1. /\ at = "handshake" /\ Open /\ at \in TlsAts
      /\ UNCHANGED <<size, pos, layers, protocol, ipProto>>
  BY DEF Handshake, Open, TlsAts, tlsRest, frameVars
<1>2. /\ cur = RecordAt /\ end = RecordEnd /\ Below /\ tls.shown = tls.prints + 0
  BY <1>1, WalkBasics DEF ShowInv, CountsInv
<1>3. HasHeader <=> end - cur >= 4
  BY <1>2 DEF HasHeader
<1>4. CASE ~(end - cur >= 4) /\ at' = "afterHandshake" /\ UNCHANGED <<cur, end, known, tls>>
  <2>1. ~HasHeader'
    BY <1>1, <1>3, <1>4 DEF HasHeader, RecordAt, RecordEnd, Min2
  <2>2. at' \in TlsAts
    BY <1>4 DEF TlsAts
  <2>3. ShowInv' /\ PrintInv' /\ CountsInv'
    BY <1>2, <1>4, <2>1 DEF ShowInv, PrintInv, CountsInv, HelloRead, Complete
  <2> QED BY <1>1, <1>4, <2>2, <2>3, WalkBasics, WalkStep
<1>5. ASSUME end - cur >= 4,
             NEW type \in HandshakeTypes, NEW length \in Claims(end - cur - 4),
             tls' = [tls EXCEPT !.hs = type],
             known' = Noted(Noted(known, cur, type), cur + 1, length),
             cur' = cur + 4, end' = Min2(end, cur + 4 + length),
             Proceed(IF type = "other" THEN "afterHandshake" ELSE type, cur + 4, end)
      PROVE  DissectorInv'
  <2>1. cur \in Nat /\ end \in Nat /\ RecordAt \in Nat /\ BodyAt = RecordAt + 4
    BY WalkBasics
  <2>2. length \in Nat
    BY <2>1, ClaimsAreNumbers
  <2>3. /\ tls' \in Tls /\ tls'.rec = tls.rec /\ tls'.length = tls.length /\ tls'.hs = type
        /\ tls'.shown = tls.shown /\ tls'.prints = tls.prints
    BY <1>5, WalkBasics, HandshakeNames DEF Tls
  <2>5. cur \notin DOMAIN known /\ cur + 1 \notin DOMAIN known /\ cur + 1 # cur
    BY <1>2, <2>1 DEF Below
  <2>9. /\ DOMAIN known' = DOMAIN known \cup {cur, cur + 1}
        /\ known'[cur] = type /\ known'[cur + 1] = length
    BY <1>5, <2>5, NotedPair
  <2>10. RecordAt' = RecordAt /\ BodyAt' = BodyAt /\ RecordEnd' = RecordEnd /\ (HasHeader' <=> HasHeader)
    BY <1>1, <2>3 DEF RecordAt, BodyAt, RecordEnd, HasHeader, Min2
  <2>11. HeaderRead' /\ known'[RecordAt'] = type
    BY <1>2, <1>3, <1>5, <2>2, <2>9, <2>10 DEF HeaderRead, KnownNat
  <2>12. cur' = BodyAt' /\ end' = BodyEnd'
    BY <1>2, <1>5, <2>1, <2>9, <2>10 DEF BodyEnd
  <2>13. cur' \in Nat /\ end' \in Nat
    BY <1>5, <2>1, <2>2 DEF Min2
  <2>14. Below'
    <3> SUFFICES ASSUME NEW o \in DOMAIN known' PROVE o \in Nat /\ o < cur'
      BY DEF Below
    <3>1. o \in DOMAIN known \/ o = cur \/ o = cur + 1
      BY <2>9
    <3>2. o \in DOMAIN known => o \in Nat /\ o < cur
      BY <1>2 DEF Below
    <3> QED BY <1>5, <2>1, <3>1, <3>2
  <2>15. at' = IF type = "other" THEN "afterHandshake" ELSE type
    BY <1>5, <2>1 DEF Proceed
  <2>16. CASE type = "other"
    <3>1. at' = "afterHandshake" /\ at' \in TlsAts
      BY <2>15, <2>16 DEF TlsAts
    <3>2. HelloRead' /\ ~Complete'
      BY <2>11, <2>16 DEF HelloRead, HasSession, Complete
    <3>3. ShowInv' /\ PrintInv' /\ CountsInv'
      BY <1>2, <2>3, <2>11, <3>1, <3>2 DEF ShowInv, PrintInv, CountsInv
    <3> QED BY <1>1, <2>3, <2>13, <3>1, <3>3, WalkStep
  <2>17. CASE type # "other"
    <3>1. at' = type /\ at' \in {"ClientHello", "ServerHello"} /\ at' \in TlsAts
      BY <2>15, <2>17 DEF TlsAts, HandshakeTypes
    <3>2. ShowInv' /\ PrintInv' /\ CountsInv'
      BY <1>2, <2>3, <2>11, <2>12, <2>14, <3>1 DEF ShowInv, PrintInv, CountsInv
    <3> QED BY <1>1, <2>3, <2>13, <3>1, <3>2, WalkStep
  <2> QED BY <2>16, <2>17
<1>6. end - cur < 4 \/ end - cur >= 4
  BY WalkBasics
<1>7. end - cur < 4 => ~(end - cur >= 4)
  BY WalkBasics
<1> QED BY <1>4, <1>5, <1>6, <1>7 DEF Handshake

\* A step of the walks that leaves known and the record alone.
LEMMA SameGrows ==
    ASSUME size' = size, known' = known, tls'.rec = tls.rec, tls'.length = tls.length
    PROVE  Grows
BY DEF Grows

LEMMA AfterHandshakeStep ==
    ASSUME DissectorInv, AfterHandshake, UNCHANGED <<dns, hdrLen, service, h2>>
    PROVE  DissectorInv'
<1>1. /\ at = "afterHandshake" /\ Open /\ at \in TlsAts
      /\ UNCHANGED <<size, pos, layers, protocol, ipProto, known, tls>>
      /\ at' = IF tls.hs = "ClientHello" THEN "ja3" ELSE "nextRecord"
      /\ cur' = RecordAt /\ end' = RecordEnd
  BY DEF AfterHandshake, Open, TlsAts, RecordAt
<1>2. /\ HelloRead /\ (HasHeader => known[RecordAt] = tls.hs)
      /\ tls.shown = tls.prints + (IF Complete THEN 1 ELSE 0)
  BY <1>1, WalkBasics DEF PrintInv, CountsInv
<1>3. Grows
  BY <1>1, SameGrows
<1>4. HelloRead' /\ (Complete' <=> Complete) /\ RecordAt' = RecordAt /\ RecordEnd' = RecordEnd
  BY <1>2, <1>3, HelloReadKept, TowerKept
<1>5. cur' \in Nat /\ end' \in Nat /\ tls' \in Tls /\ at' \in TlsAts
  BY <1>1, WalkBasics DEF TlsAts
<1>6. CASE tls.hs = "ClientHello"
  <2>1. ShowInv' /\ PrintInv' /\ CountsInv'
    BY <1>1, <1>2, <1>4, <1>6 DEF ShowInv, PrintInv, CountsInv
  <2> QED BY <1>1, <1>5, <2>1, WalkStep
<1>7. CASE tls.hs # "ClientHello"
  <2>1. ~Complete
    BY <1>2, <1>7 DEF Complete, HasSession
  <2>2. ShowInv' /\ PrintInv' /\ CountsInv'
    BY <1>1, <1>2, <1>7, <2>1 DEF ShowInv, PrintInv, CountsInv
  <2> QED BY <1>1, <1>5, <2>2, WalkStep
<1> QED BY <1>6, <1>7

\* One field of the hello becomes known.
LEMMA FieldNoted ==
    ASSUME Below, NEW o \in Nat, cur \in Nat, o >= cur, NEW value, NEW next \in Nat, next > o,
           known' = Noted(known, o, value), cur' = next,
           size' = size, tls'.rec = tls.rec, tls'.length = tls.length
    PROVE  /\ o \notin DOMAIN known /\ o \in DOMAIN known' /\ known'[o] = value
           /\ Grows /\ Below'
<1>1. o \notin DOMAIN known
  BY DEF Below
<1>2. DOMAIN known' = DOMAIN known \cup {o}
  BY NotedDomain
<1>3. known'[o] = value
  BY <1>1, NotedHere
<1>4. \A p \in DOMAIN known : known'[p] = known[p]
  BY NotedKeeps
<1>5. Grows
  BY <1>2, <1>4 DEF Grows
<1>6. Below'
  <2> SUFFICES ASSUME NEW p \in DOMAIN known' PROVE p \in Nat /\ p < next
    BY DEF Below
  <2>1. p \in DOMAIN known \/ p = o
    BY <1>2
  <2>2. p \in DOMAIN known => p \in Nat /\ p < cur
    BY DEF Below
  <2> QED BY <2>1, <2>2
<1> QED BY <1>1, <1>2, <1>3, <1>5, <1>6

LEMMA ClientHelloStep ==
    ASSUME DissectorInv, ClientHello, UNCHANGED <<dns, hdrLen, service, h2>>
    PROVE  DissectorInv'
<1>1. /\ at = "ClientHello" /\ Open /\ at \in TlsAts
      /\ UNCHANGED <<size, pos, layers, protocol, ipProto, end, tls>>
  BY DEF ClientHello, Open, TlsAts, tlsRest, frameVars
<1>2. /\ HeaderRead /\ known[RecordAt] = "ClientHello" /\ tls.hs = "ClientHello"
      /\ cur = BodyAt /\ end = BodyEnd /\ Below /\ tls.shown = tls.prints + 0
  BY <1>1, WalkBasics DEF ShowInv, CountsInv
<1>3. /\ cur \in Nat /\ end \in Nat /\ BodyAt \in Nat /\ SessionAt \in Nat
      /\ SessionAt = cur + HelloFixed /\ HelloFixed \in Nat /\ tls \in Tls
  BY <1>2, WalkBasics, TlsAssumption
<1>4. HasSession <=> end - cur > HelloFixed
  BY <1>2 DEF HasSession
<1>5. CASE end - cur <= HelloFixed /\ at' = "afterHandshake" /\ UNCHANGED <<cur, known>>
  <2>1. ~HasSession
    BY <1>3, <1>4, <1>5
  <2>2. HelloRead /\ ~Complete
    BY <1>2, <2>1 DEF HelloRead, Complete
  <2>3. Grows
    BY <1>1, <1>5, SameGrows
  <2>4. /\ HelloRead' /\ ~Complete' /\ RecordAt' = RecordAt
        /\ known' = known /\ tls' = tls /\ at' \in TlsAts
    BY <1>1, <1>5, <2>2, <2>3, HelloReadKept, TowerKept DEF TlsAts
  <2>5. ShowInv' /\ PrintInv' /\ CountsInv'
    BY <1>2, <1>5, <2>4 DEF ShowInv, PrintInv, CountsInv
  <2> QED BY <1>1, <1>3, <1>5, <2>4, <2>5, WalkStep
<1>6. ASSUME end - cur > HelloFixed,
             NEW session \in Field(cur + HelloFixed, Claims(end - cur - HelloFixed - 1)),
             known' = Noted(known, cur + HelloFixed, session),
             cur' = cur + HelloFixed + 1 + session,
             Proceed("ciphers", cur + HelloFixed + 1, end)
      PROVE  DissectorInv'
  <2>1. cur + HelloFixed \notin DOMAIN known
    BY <1>2, <1>3 DEF Below
  <2>2. session \in Nat
    BY <1>3, <2>1, ClaimsAreNumbers DEF Field
  <2>3. cur' \in Nat /\ cur' > SessionAt /\ SessionAt >= cur
    BY <1>3, <1>6, <2>2
  <2>4. SessionAt \in DOMAIN known' /\ known'[SessionAt] = session /\ Grows /\ Below'
    BY <1>1, <1>2, <1>3, <1>6, <2>3, FieldNoted
  <2>5. /\ SessionAt' = SessionAt /\ HeaderRead' /\ (HasSession' <=> HasSession)
        /\ BodyEnd' = BodyEnd
    BY <1>2, <2>4, TowerKept
  <2>6. SessionRead'
    BY <1>4, <1>6, <2>2, <2>4, <2>5 DEF SessionRead, KnownNat
  <2>7. cur' = CiphersAt' /\ end' = BodyEnd'
    BY <1>1, <1>2, <1>3, <1>6, <2>4, <2>5 DEF CiphersAt
  <2>8. at' = "ciphers" /\ at' \in TlsAts
    BY <1>3, <1>6 DEF Proceed, TlsAts
  <2>9. ShowInv' /\ PrintInv' /\ CountsInv'
    BY <1>1, <1>2, <2>4, <2>6, <2>7, <2>8 DEF ShowInv, PrintInv, CountsInv
  <2> QED BY <1>1, <1>3, <2>3, <2>8, <2>9, WalkStep
<1>7. end - cur <= HelloFixed \/ end - cur > HelloFixed
  BY <1>3
<1>8. end - cur > HelloFixed => ~(end - cur <= HelloFixed)
  BY <1>3
<1> QED BY <1>5, <1>6, <1>7, <1>8 DEF ClientHello

\* The numbers of the tower.
LEMMA TowerNumbers ==
    ASSUME DissectorInv
    PROVE  /\ HeaderRead => BodyEnd \in Nat
           /\ SessionRead => CiphersAt \in Nat
           /\ CiphersRead => MethodsAt \in Nat
           /\ MethodsRead => ExtsAt \in Nat
           /\ ExtsRead => ExtsEnd \in Nat
<1>1. RecordEnd \in Nat /\ RecordAt \in Nat /\ BodyAt \in Nat /\ SessionAt \in Nat
  BY WalkBasics
<1>2. HeaderRead => BodyEnd \in Nat
  BY <1>1 DEF HeaderRead, KnownNat, BodyEnd, Min2
<1>3. SessionRead => CiphersAt \in Nat
  BY <1>1 DEF SessionRead, KnownNat, CiphersAt
<1>4. CiphersRead => MethodsAt \in Nat
  BY <1>3 DEF CiphersRead, KnownNat, MethodsAt
<1>5. MethodsRead => ExtsAt \in Nat
  BY <1>4 DEF MethodsRead, KnownNat, ExtsAt
<1>6. ExtsRead => ExtsEnd \in Nat
  <2> SUFFICES ASSUME ExtsRead PROVE ExtsEnd \in Nat
    OBVIOUS
  <2>1. BodyEnd \in Nat /\ ExtsAt \in Nat /\ known[ExtsAt] \in Nat
    BY <1>2, <1>5 DEF ExtsRead, MethodsRead, CiphersRead, SessionRead, KnownNat
  <2> QED BY <2>1 DEF ExtsEnd, Min2
<1> QED BY <1>2, <1>3, <1>4, <1>5, <1>6

LEMMA CiphersStep ==
    ASSUME DissectorInv, Ciphers, UNCHANGED <<dns, hdrLen, service, h2>>
    PROVE  DissectorInv'
<1>1. /\ at = "ciphers" /\ Open /\ at \in TlsAts
      /\ UNCHANGED <<size, pos, layers, protocol, ipProto, end, tls>>
  BY DEF Ciphers, Open, TlsAts, tlsRest, frameVars
<1>2. /\ SessionRead /\ HeaderRead /\ HasHeader /\ HasSession /\ tls.hs = "ClientHello"
      /\ cur = CiphersAt /\ end = BodyEnd /\ Below /\ tls.shown = tls.prints + 0
  BY <1>1, WalkBasics DEF ShowInv, CountsInv, SessionRead, HeaderRead
<1>3. /\ cur \in Nat /\ end \in Nat /\ tls \in Tls /\ known[RecordAt] = "ClientHello"
  BY <1>2, WalkBasics DEF HasSession
<1>4. HasCiphers <=> cur + 2 <= end
  BY <1>2 DEF HasCiphers
<1>5. CASE cur + 2 > end /\ at' = "afterHandshake" /\ UNCHANGED <<cur, known>>
  <2>1. ~HasCiphers
    BY <1>3, <1>4, <1>5
  <2>2. HelloRead /\ ~Complete
    BY <1>2, <2>1 DEF HelloRead, Complete
  <2>3. Grows
    BY <1>1, <1>5, SameGrows
  <2>4. /\ HelloRead' /\ ~Complete' /\ RecordAt' = RecordAt
        /\ known' = known /\ tls' = tls /\ at' \in TlsAts
    BY <1>1, <1>5, <2>2, <2>3, HelloReadKept, TowerKept DEF TlsAts
  <2>5. ShowInv' /\ PrintInv' /\ CountsInv'
    BY <1>2, <1>3, <1>5, <2>4 DEF ShowInv, PrintInv, CountsInv
  <2> QED BY <1>1, <1>3, <1>5, <2>4, <2>5, WalkStep
<1>6. ASSUME cur + 2 <= end,
             NEW ciphers \in Field(cur, Claims(end - cur - 2)),
             known' = Noted(known, cur, ciphers),
             cur' = cur + 2 + ciphers,
             at' = IF cur' >= end THEN "afterHandshake" ELSE "compression"
      PROVE  DissectorInv'
  <2>1. cur \notin DOMAIN known
    BY <1>2, <1>3 DEF Below
  <2>2. ciphers \in Nat
    BY <1>3, <2>1, ClaimsAreNumbers DEF Field
  <2>3. cur' \in Nat /\ cur' > cur /\ cur >= cur
    BY <1>3, <1>6, <2>2
  <2>4. cur \in DOMAIN known' /\ known'[cur] = ciphers /\ Grows /\ Below'
    BY <1>1, <1>2, <1>3, <1>6, <2>3, FieldNoted
  <2>5. /\ HeaderRead' /\ SessionRead' /\ CiphersAt' = CiphersAt /\ (HasCiphers' <=> HasCiphers)
        /\ RecordAt' = RecordAt /\ BodyEnd' = BodyEnd /\ known'[RecordAt] = known[RecordAt]
    BY <1>2, <2>4, TowerKept
  <2>6. CiphersRead'
    BY <1>2, <1>4, <1>6, <2>2, <2>4, <2>5 DEF CiphersRead, KnownNat
  <2>7. cur' = MethodsAt' /\ end' = BodyEnd'
    BY <1>1, <1>2, <1>6, <2>4, <2>5 DEF MethodsAt
  <2>8. CASE cur' >= end
    <3>1. at' = "afterHandshake" /\ at' \in TlsAts
      BY <1>6, <2>8 DEF TlsAts
    <3>2. ~HasMethods'
      BY <1>1, <1>3, <2>3, <2>7, <2>8 DEF HasMethods
    <3>3. HelloRead' /\ ~Complete'
      BY <2>5, <2>6, <3>2 DEF HelloRead, Complete
    <3>4. ShowInv' /\ PrintInv' /\ CountsInv'
      BY <1>1, <1>2, <1>3, <2>5, <3>1, <3>3 DEF ShowInv, PrintInv, CountsInv
    <3> QED BY <1>1, <1>3, <2>3, <3>1, <3>4, WalkStep
  <2>9. CASE ~(cur' >= end)
    <3>1. at' = "compression" /\ at' \in TlsAts
      BY <1>6, <2>9 DEF TlsAts
    <3>2. HasMethods'
      BY <1>1, <1>3, <2>3, <2>7, <2>9 DEF HasMethods
    <3>3. ShowInv' /\ PrintInv' /\ CountsInv'
      BY <1>1, <1>2, <2>4, <2>6, <2>7, <3>1, <3>2 DEF ShowInv, PrintInv, CountsInv
    <3> QED BY <1>1, <1>3, <2>3, <3>1, <3>3, WalkStep
  <2> QED BY <2>8, <2>9
<1>7. cur + 2 > end \/ cur + 2 <= end
  BY <1>3
<1>8. cur + 2 <= end => ~(cur + 2 > end)
  BY <1>3
<1> QED BY <1>5, <1>6, <1>7, <1>8 DEF Ciphers

\* Two fields become known.
LEMMA FieldsNoted ==
    ASSUME Below, cur \in Nat, NEW a \in Nat, NEW b \in Nat, a >= cur, b > a, NEW x, NEW y,
           known' = Noted(Noted(known, a, x), b, y), cur' \in Nat, cur' > b,
           size' = size, tls'.rec = tls.rec, tls'.length = tls.length
    PROVE  /\ a \in DOMAIN known' /\ known'[a] = x
           /\ b \in DOMAIN known' /\ known'[b] = y
           /\ Grows /\ Below'
<1>1. a \notin DOMAIN known /\ b \notin DOMAIN known /\ b # a
  BY DEF Below
<1>2. /\ DOMAIN known' = DOMAIN known \cup {a, b}
      /\ known'[a] = x /\ known'[b] = y
      /\ \A p \in DOMAIN known : known'[p] = known[p]
  <2>1. PICK first : first = Noted(known, a, x)
    OBVIOUS
  <2>2. DOMAIN first = DOMAIN known \cup {a}
    BY <2>1, NotedDomain
  <2>3. first[a] = x
    BY <1>1, <2>1, NotedHere
  <2>4. \A p \in DOMAIN known : first[p] = known[p]
    BY <2>1, NotedKeeps
  <2>5. known' = Noted(first, b, y) /\ b \notin DOMAIN first
    BY <1>1, <2>1, <2>2
  <2>6. DOMAIN known' = DOMAIN first \cup {b}
    BY <2>5, NotedDomain
  <2>7. known'[b] = y
    BY <2>5, NotedHere
  <2>8. \A p \in DOMAIN first : known'[p] = first[p]
    BY <2>5, NotedKeeps
  <2> QED BY <2>2, <2>3, <2>4, <2>6, <2>7, <2>8
<1>3. Grows
  BY <1>2 DEF Grows
<1>4. Below'
  <2> SUFFICES ASSUME NEW p \in DOMAIN known' PROVE p \in Nat /\ p < cur'
    BY DEF Below
  <2>1. p \in DOMAIN known \/ p = a \/ p = b
    BY <1>2
  <2>2. p \in DOMAIN known => p \in Nat /\ p < cur
    BY DEF Below
  <2> QED BY <2>1, <2>2
<1> QED BY <1>2, <1>3, <1>4

LEMMA CompressionStep ==
    ASSUME DissectorInv, Compression, UNCHANGED <<dns, hdrLen, service, h2>>
    PROVE  DissectorInv'
<1>1. /\ at = "compression" /\ Open /\ at \in TlsAts
      /\ UNCHANGED <<size, pos, layers, protocol, ipProto, tls>>
  BY DEF Compression, Open, TlsAts, tlsRest, frameVars
<1>2. /\ CiphersRead /\ HeaderRead /\ HasMethods /\ tls.hs = "ClientHello"
      /\ cur = MethodsAt /\ end = BodyEnd /\ Below /\ tls.shown = tls.prints + 0
  BY <1>1, WalkBasics DEF ShowInv, CountsInv, CiphersRead, SessionRead
<1>3. cur \in Nat /\ end \in Nat /\ tls \in Tls /\ cur < end
  BY <1>2, WalkBasics DEF HasMethods
<1>4. cur \notin DOMAIN known
  BY <1>2, <1>3 DEF Below
<1>5. PICK methods \in Claims(end - cur - 1) :
        LET exts == cur + 1 + methods
        IN  IF exts + 2 > end
            THEN /\ known' = Noted(known, cur, methods)
                 /\ Proceed("helloShown", cur + 1, end)
                 /\ UNCHANGED <<cur, end>>
            ELSE \E length \in Field(exts, Claims(end - exts - 2)) :
                   /\ known' = Noted(Noted(known, cur, methods), exts, length)
                   /\ cur' = exts + 2 /\ end' = Min2(end, exts + 2 + length)
                   /\ Proceed("extension", cur + 1, end)
  BY <1>1, <1>4 DEF Compression, Field
<1>6. methods \in Nat
  BY <1>3, ClaimsAreNumbers
<1>7. PICK exts \in Nat : exts = cur + 1 + methods /\ exts > cur
  BY <1>3, <1>6
<1>8. cur + 1 <= end
  BY <1>3
\* What the compression methods say of the rest, once they are known.
<1>9. ASSUME Grows, cur \in DOMAIN known', known'[cur] = methods
      PROVE  MethodsRead' /\ BodyEnd' = end /\ ExtsAt' = exts
  <2>1. CiphersRead' /\ MethodsAt' = cur /\ HasMethods' /\ BodyEnd' = end
    BY <1>2, <1>9, TowerKept
  <2> QED BY <1>6, <1>7, <1>9, <2>1 DEF MethodsRead, KnownNat, ExtsAt
<1>10. CASE exts + 2 > end
  <2>1. known' = Noted(known, cur, methods) /\ at' = "helloShown" /\ UNCHANGED <<cur, end>>
    BY <1>5, <1>7, <1>8, <1>10 DEF Proceed
  <2>2. DOMAIN known' = DOMAIN known \cup {cur}
    BY <2>1, NotedDomain
  <2>3. known'[cur] = methods
    BY <1>4, <2>1, NotedHere
  <2>4. \A p \in DOMAIN known : known'[p] = known[p]
    BY <2>1, NotedKeeps
  <2>5. Grows
    BY <1>1, <2>2, <2>4 DEF Grows
  <2>6. MethodsRead' /\ ~HasExts'
    <3>1. MethodsRead' /\ BodyEnd' = end /\ ExtsAt' = exts
      BY <1>9, <2>2, <2>3, <2>5
    <3>2. ~(exts + 2 <= end)
      BY <1>3, <1>7, <1>10
    <3> QED BY <3>1, <3>2 DEF HasExts
  <2>7. HelloShownInFull'
    BY <2>6 DEF HelloShownInFull
  <2>8. at' \in TlsAts
    BY <2>1 DEF TlsAts
  <2>9. ShowInv' /\ PrintInv' /\ CountsInv'
    BY <1>1, <1>2, <2>1, <2>7 DEF ShowInv, PrintInv, CountsInv
  <2> QED BY <1>1, <1>3, <2>1, <2>8, <2>9, WalkStep
<1>11. CASE ~(exts + 2 > end)
  <2>1. exts \notin DOMAIN known
    BY <1>2, <1>3, <1>7 DEF Below
  <2>2. PICK length \in Claims(end - exts - 2) :
          /\ known' = Noted(Noted(known, cur, methods), exts, length)
          /\ cur' = exts + 2 /\ end' = Min2(end, exts + 2 + length)
          /\ Proceed("extension", cur + 1, end)
    BY <1>5, <1>7, <1>11, <2>1 DEF Field
  <2>3. length \in Nat
    BY <1>3, <1>7, ClaimsAreNumbers
  <2>4. cur' \in Nat /\ cur' > exts /\ end' \in Nat /\ cur >= cur
    BY <1>3, <1>7, <2>2, <2>3 DEF Min2
  <2>5. /\ cur \in DOMAIN known' /\ known'[cur] = methods
        /\ exts \in DOMAIN known' /\ known'[exts] = length
        /\ Grows /\ Below'
    BY <1>1, <1>2, <1>3, <1>7, <2>2, <2>4, FieldsNoted
  <2>6. MethodsRead' /\ BodyEnd' = end /\ ExtsAt' = exts
    BY <1>9, <2>5
  <2>7. ExtsRead'
    <3>1. exts + 2 <= end
      BY <1>3, <1>7, <1>11
    <3> QED BY <2>3, <2>5, <2>6, <3>1 DEF ExtsRead, HasExts, KnownNat
  <2>8. end' = ExtsEnd'
    BY <2>2, <2>5, <2>6 DEF ExtsEnd
  <2>9. Extensions({cur})'
    <3>1. {} \in SUBSET DOMAIN known' /\ cur' = ExtsAt' + 2
      BY <2>2, <2>6
    <3>2. Leads(known', ExtsAt' + 2, ExtsEnd', {}, {cur'})
      BY <3>1 DEF Leads
    <3> QED BY <3>1, <3>2 DEF Extensions
  <2>10. at' = "extension" /\ at' \in TlsAts
    BY <1>8, <2>2 DEF Proceed, TlsAts
  <2>11. ShowInv' /\ PrintInv' /\ CountsInv'
    BY <1>1, <1>2, <2>5, <2>7, <2>8, <2>9, <2>10 DEF ShowInv, PrintInv, CountsInv
  <2> QED BY <1>1, <1>3, <2>4, <2>10, <2>11, WalkStep
<1> QED BY <1>10, <1>11

LEMMA ExtensionStep ==
    ASSUME DissectorInv, Extension, UNCHANGED <<dns, hdrLen, service, h2>>
    PROVE  DissectorInv'
<1>1. /\ at = "extension" /\ Open /\ at \in TlsAts
      /\ UNCHANGED <<size, pos, layers, protocol, ipProto, end>>
  BY DEF Extension, Open, TlsAts, tlsRest, frameVars
<1>2. /\ ExtsRead /\ MethodsRead /\ HasExts /\ tls.hs = "ClientHello"
      /\ end = ExtsEnd /\ Extensions({cur}) /\ Below /\ tls.shown = tls.prints + 0
  BY <1>1, WalkBasics DEF ShowInv, CountsInv, ExtsRead
<1>3. cur \in Nat /\ end \in Nat /\ tls \in Tls
  BY WalkBasics
<1>4. PICK S \in SUBSET DOMAIN known : Leads(known, ExtsAt + 2, ExtsEnd, S, {cur})
  BY <1>2 DEF Extensions
<1>5. CASE cur + 4 > end /\ at' = "helloShown" /\ UNCHANGED <<cur, known, tls>>
  <2>1. Grows
    BY <1>1, <1>5, SameGrows
  <2>2. /\ MethodsRead' /\ ExtsRead' /\ ExtsAt' = ExtsAt /\ ExtsEnd' = ExtsEnd
    BY <1>2, <2>1, TowerKept
  <2>3. ~(cur + 4 <= ExtsEnd)
    BY <1>2, <1>3, <1>5
  <2>4. Leads(known, ExtsAt + 2, ExtsEnd, S, {})
    BY <1>4, <2>3, LeadsNoFurther
  <2>5. Extensions({})'
    BY <1>5, <2>2, <2>4 DEF Extensions
  <2>6. HelloShownInFull'
    BY <2>2, <2>5 DEF HelloShownInFull
  <2>7. at' \in TlsAts
    BY <1>5 DEF TlsAts
  <2>8. ShowInv' /\ PrintInv' /\ CountsInv'
    BY <1>2, <1>5, <2>6 DEF ShowInv, PrintInv, CountsInv
  <2> QED BY <1>1, <1>3, <1>5, <2>7, <2>8, WalkStep
<1>6. ASSUME cur + 4 <= end, NEW id, NEW length \in Claims(end - cur - 4), NEW next \in Nat,
             next = cur + 4 + length,
             known' = Noted(Noted(known, cur, id), cur + 2, length),
             cur' = next,
             at' = IF next > end THEN "helloShown" ELSE "extension",
             tls' = tls \/ tls' = [tls EXCEPT !.sni = TRUE]
      PROVE  DissectorInv'
  <2>1. length \in Nat
    BY <1>3, ClaimsAreNumbers
  <2>2. /\ cur' \in Nat /\ cur + 2 \in Nat /\ cur >= cur /\ cur + 2 > cur /\ cur' > cur + 2
    BY <1>3, <1>6, <2>1
  <2>3. /\ tls' \in Tls /\ tls'.rec = tls.rec /\ tls'.length = tls.length /\ tls'.hs = tls.hs
        /\ tls'.shown = tls.shown /\ tls'.prints = tls.prints
    BY <1>3, <1>6 DEF Tls
  <2>4. /\ cur \in DOMAIN known' /\ cur + 2 \in DOMAIN known' /\ known'[cur + 2] = length
        /\ Grows /\ Below'
    BY <1>1, <1>2, <1>3, <1>6, <2>2, <2>3, FieldsNoted
  <2>5. MethodsRead' /\ ExtsRead' /\ ExtsAt' = ExtsAt /\ ExtsEnd' = ExtsEnd
    BY <1>2, <2>4, TowerKept
  <2>6. S \in SUBSET DOMAIN known' /\ Leads(known', ExtsAt + 2, ExtsEnd, S, {cur})
    BY <1>4, <2>4, LeadsKept
  <2>7. Leads(known', ExtsAt + 2, ExtsEnd, S \cup {cur}, {next})
    <3>1. known'[cur + 2] \in Nat /\ cur + 4 + known'[cur + 2] = next
      BY <1>6, <2>1, <2>4
    <3>2. Leads(known', ExtsAt + 2, ExtsEnd, S \cup {cur}, {cur + 4 + known'[cur + 2]})
      BY <2>4, <2>6, <3>1, LeadsOn
    <3> QED BY <3>1, <3>2
  <2>8. S \cup {cur} \in SUBSET DOMAIN known'
    BY <2>4, <2>6
  <2>9. CASE next > end
    <3>1. at' = "helloShown" /\ at' \in TlsAts
      BY <1>6, <2>9 DEF TlsAts
    <3>2. ~(next + 4 <= ExtsEnd)
      BY <1>2, <1>3, <2>9
    <3>3. Leads(known', ExtsAt + 2, ExtsEnd, S \cup {cur}, {})
      BY <2>7, <3>2, LeadsNoFurther
    <3>4. Extensions({})'
      BY <2>5, <2>8, <3>3 DEF Extensions
    <3>5. HelloShownInFull'
      BY <2>5, <3>4 DEF HelloShownInFull
    <3>6. ShowInv' /\ PrintInv' /\ CountsInv'
      BY <1>2, <2>3, <3>1, <3>5 DEF ShowInv, PrintInv, CountsInv
    <3> QED BY <1>1, <1>3, <2>2, <2>3, <3>1, <3>6, WalkStep
  <2>10. CASE ~(next > end)
    <3>1. at' = "extension" /\ at' \in TlsAts
      BY <1>6, <2>10 DEF TlsAts
    <3>2. Extensions({cur})'
      BY <1>6, <2>5, <2>7, <2>8 DEF Extensions
    <3>3. ShowInv' /\ PrintInv' /\ CountsInv'
      BY <1>1, <1>2, <2>3, <2>4, <2>5, <3>1, <3>2 DEF ShowInv, PrintInv, CountsInv
    <3> QED BY <1>1, <1>3, <2>2, <2>3, <3>1, <3>3, WalkStep
  <2> QED BY <2>9, <2>10
<1>7. CASE ~(cur + 4 > end)
  <2>1. cur + 4 <= end /\ cur + 2 \notin DOMAIN known
    BY <1>2, <1>3, <1>7 DEF Below
  <2>2. PICK id \in Field(cur, ExtensionIds), length \in Claims(end - cur - 4) :
          LET next == cur + 4 + length
          IN  /\ known' = Noted(Noted(known, cur, id), cur + 2, length)
              /\ cur' = next
              /\ at' = IF next > end THEN "helloShown" ELSE "extension"
              /\ \/ tls' = tls
                 \/ /\ id = "server_name" /\ length >= 5 /\ next <= end
                    /\ tls' = [tls EXCEPT !.sni = TRUE]
    BY <1>7, <2>1 DEF Extension, Field
  <2>3. length \in Nat
    BY <1>3, ClaimsAreNumbers
  <2>4. cur + 4 + length \in Nat
    BY <1>3, <2>3
  <2> QED BY <1>6, <2>1, <2>2, <2>4
<1>8. CASE cur + 4 > end
  BY <1>5, <1>8 DEF Extension
<1> QED BY <1>7, <1>8

LEMMA HelloShownStep ==
    ASSUME DissectorInv, HelloShown, UNCHANGED <<dns, hdrLen, service, h2>>
    PROVE  DissectorInv'
<1>1. /\ at = "helloShown" /\ Open /\ at \in TlsAts
      /\ UNCHANGED <<size, pos, layers, protocol, ipProto, cur, end, known>>
      /\ at' = "afterHandshake" /\ tls' = [tls EXCEPT !.shown = @ + 1]
  BY DEF HelloShown, Open, TlsAts, tlsRest, frameVars
<1>2. /\ HelloShownInFull /\ tls.hs = "ClientHello" /\ tls.shown = tls.prints + 0
      /\ cur \in Nat /\ end \in Nat /\ tls \in Tls /\ tls.shown \in Nat /\ tls.prints \in Nat
  BY <1>1, WalkBasics DEF ShowInv, CountsInv
<1>3. tls.shown + 1 \in Nat
  BY <1>2
<1>4. /\ tls' \in Tls /\ tls'.rec = tls.rec /\ tls'.length = tls.length /\ tls'.hs = tls.hs
      /\ tls'.shown = tls.shown + 1 /\ tls'.prints = tls.prints
  BY <1>1, <1>2, <1>3 DEF Tls
<1>5. /\ HeaderRead /\ SessionRead /\ CiphersRead /\ MethodsRead
      /\ HasHeader /\ HasSession /\ HasCiphers /\ HasMethods
  BY <1>2 DEF HelloShownInFull, MethodsRead, CiphersRead, SessionRead, HeaderRead
<1>6. HelloRead /\ Complete
  BY <1>2, <1>5 DEF HelloRead, Complete
<1>7. Grows
  BY <1>1, <1>4, SameGrows
<1>8. HelloRead' /\ Complete'
  BY <1>6, <1>7, HelloReadKept
<1>9. known'[RecordAt'] = "ClientHello"
  BY <1>5, <1>7, TowerKept DEF HasSession
<1>10. tls'.shown = tls'.prints + 1
  BY <1>2, <1>4
<1>11. ShowInv' /\ PrintInv' /\ CountsInv'
  BY <1>1, <1>2, <1>4, <1>8, <1>9, <1>10 DEF ShowInv, PrintInv, CountsInv
<1>12. at' \in TlsAts
  BY <1>1 DEF TlsAts
<1> QED BY <1>1, <1>2, <1>4, <1>11, <1>12, WalkStep

\* Nothing that is read of a ServerHello is read again.
LEMMA ServerHelloSteps ==
    ASSUME DissectorInv, ServerHello \/ ServerExtension, UNCHANGED <<dns, hdrLen, service, h2>>
    PROVE  DissectorInv'
<1>1. /\ at \in {"ServerHello", "serverExtension"} /\ Open /\ at \in TlsAts
      /\ UNCHANGED <<size, pos, layers, protocol, ipProto, known>>
  BY DEF ServerHello, ServerExtension, Open, TlsAts, tlsRest, frameVars
<1>2. /\ HeaderRead /\ known[RecordAt] = "ServerHello" /\ tls.hs = "ServerHello"
      /\ tls.shown = tls.prints + 0 /\ tls \in Tls /\ cur \in Nat /\ end \in Nat
  BY <1>1, WalkBasics DEF ShowInv, CountsInv
<1>3. ASSUME at' \in {"afterHandshake", "serverExtension"}, cur' \in Nat, end' \in Nat,
             tls' = tls \/ tls' = [tls EXCEPT !.cipher = TRUE]
      PROVE  DissectorInv'
  <2>1. /\ tls' \in Tls /\ tls'.rec = tls.rec /\ tls'.length = tls.length /\ tls'.hs = tls.hs
        /\ tls'.shown = tls.shown /\ tls'.prints = tls.prints
    BY <1>2, <1>3 DEF Tls
  <2>2. Grows
    BY <1>1, <2>1, SameGrows
  <2>3. HelloRead /\ ~Complete
    BY <1>2 DEF HelloRead, HasSession, Complete
  <2>4. HelloRead' /\ ~Complete' /\ HeaderRead' /\ known'[RecordAt'] = "ServerHello"
    BY <1>2, <2>2, <2>3, HelloReadKept, TowerKept
  <2>5. ShowInv' /\ PrintInv' /\ CountsInv'
    BY <1>2, <1>3, <2>1, <2>4 DEF ShowInv, PrintInv, CountsInv
  <2>6. at' \in TlsAts
    BY <1>3 DEF TlsAts
  <2> QED BY <1>1, <1>3, <2>1, <2>5, <2>6, WalkStep
<1>4. CASE ServerHello
  <2>1. CASE end - cur <= HelloFixed
    BY <1>2, <1>3, <1>4, <2>1 DEF ServerHello
  <2>2. CASE ~(end - cur <= HelloFixed)
    <3>1. end - cur - HelloFixed - 1 \in Nat /\ cur + HelloFixed + 1 <= end
      BY <1>2, <2>2, TlsAssumption
    <3>2. PICK session \in Claims(end - cur - HelloFixed - 1) :
            LET suite == cur + HelloFixed + 1 + session
            IN  IF suite + 3 > end
                THEN Proceed("afterHandshake", cur + HelloFixed + 1, end) /\ UNCHANGED <<cur, end, tls>>
                ELSE /\ tls' = [tls EXCEPT !.cipher = TRUE]
                     /\ IF suite + 5 > end
                        THEN Proceed("afterHandshake", suite + 3, end) /\ UNCHANGED <<cur, end>>
                        ELSE \E length \in Claims(end - suite - 5) :
                               /\ cur' = suite + 5 /\ end' = Min2(end, suite + 5 + length)
                               /\ Proceed("serverExtension", suite + 3, end)
      BY <1>4, <2>2 DEF ServerHello
    <3>3. session \in Nat
      BY <3>1, ClaimsAreNumbers
    <3>4. PICK suite \in Nat : suite = cur + HelloFixed + 1 + session
      BY <1>2, <3>3, TlsAssumption
    <3>5. CASE suite + 3 > end
      BY <1>2, <1>3, <3>1, <3>2, <3>4, <3>5 DEF Proceed
    <3>6. CASE ~(suite + 3 > end)
      <4>1. suite + 3 <= end
        BY <1>2, <3>4, <3>6
      <4>2. CASE suite + 5 > end
        BY <1>2, <1>3, <3>2, <3>4, <3>6, <4>1, <4>2 DEF Proceed
      <4>3. CASE ~(suite + 5 > end)
        <5>1. PICK length \in Claims(end - suite - 5) :
                /\ cur' = suite + 5 /\ end' = Min2(end, suite + 5 + length)
                /\ Proceed("serverExtension", suite + 3, end)
          BY <3>2, <3>4, <3>6, <4>3
        <5>2. length \in Nat
          BY <1>2, ClaimsAreNumbers
        <5>3. cur' \in Nat /\ end' \in Nat
          BY <1>2, <5>1, <5>2 DEF Min2
        <5>4. tls' = [tls EXCEPT !.cipher = TRUE]
          BY <3>2, <3>4, <3>6
        <5> QED BY <1>3, <4>1, <5>1, <5>3, <5>4 DEF Proceed
      <4> QED BY <4>2, <4>3
    <3> QED BY <3>5, <3>6
  <2> QED BY <2>1, <2>2
<1>5. CASE ServerExtension
  <2>1. tls' = tls /\ end' = end
    BY <1>5 DEF ServerExtension
  <2>2. CASE cur + 4 > end
    BY <1>2, <1>3, <1>5, <2>1, <2>2 DEF ServerExtension
  <2>3. CASE ~(cur + 4 > end)
    <3>1. PICK length \in Claims(end - cur - 4) :
            /\ cur' = cur + 4 + length
            /\ at' = IF cur' > end THEN "afterHandshake" ELSE "serverExtension"
      BY <1>5, <2>3 DEF ServerExtension
    <3>2. length \in Nat
      BY <1>2, ClaimsAreNumbers
    <3>3. cur' \in Nat
      BY <1>2, <3>1, <3>2
    <3> QED BY <1>2, <1>3, <2>1, <3>1, <3>3
  <2> QED BY <2>2, <2>3
<1> QED BY <1>4, <1>5

\* A step of buildJA3, which finds nothing that was not found before.
LEMMA Ja3Leaves ==
    ASSUME DissectorInv, Open, at \in {"ja3", "ja3Ciphers", "ja3Compression", "ja3Extension"},
           UNCHANGED <<size, pos, layers, protocol, ipProto>>, UNCHANGED <<dns, hdrLen, h2>>,
           tls' = tls, known' = known, cur' \in Nat, end' \in Nat,
           \/ at' = "nextRecord" /\ tls.shown = tls.prints + 0
           \/ at' = "ja3Made" /\ tls.shown = tls.prints + 1
    PROVE  DissectorInv'
<1>1. at \in TlsAts /\ at' \in TlsAts /\ tls' \in Tls
  BY WalkBasics DEF TlsAts
<1>2. ShowInv' /\ PrintInv' /\ CountsInv'
  BY DEF ShowInv, PrintInv, CountsInv
<1> QED BY <1>1, <1>2, WalkStep

LEMMA Ja3Step ==
    ASSUME DissectorInv, Ja3, UNCHANGED <<dns, hdrLen, service, h2>>
    PROVE  DissectorInv'
<1>1. /\ at = "ja3" /\ Open /\ at \in TlsAts
      /\ UNCHANGED <<size, pos, layers, protocol, ipProto, tls>>
  BY DEF Ja3, Open, TlsAts, tlsRest, frameVars
<1>2. /\ HelloRead /\ cur = RecordAt /\ end = RecordEnd
      /\ tls.shown = tls.prints + (IF Complete THEN 1 ELSE 0)
      /\ tls.prints \in Nat /\ cur \in Nat /\ end \in Nat /\ tls \in Tls
      /\ BodyAt = cur + 4 /\ SessionAt = BodyAt + HelloFixed
  BY <1>1, WalkBasics DEF PrintInv, CountsInv
<1>3. HasHeader <=> end - cur >= 4
  BY <1>2 DEF HasHeader
<1>4. CASE end - cur < 4
  <2>1. at' = "nextRecord" /\ known' = known /\ cur' = cur /\ end' = end
    BY <1>4 DEF Ja3
  <2>2. ~HasHeader
    BY <1>2, <1>3, <1>4
  <2>3. ~Complete
    BY <2>2 DEF Complete
  <2> QED BY <1>1, <1>2, <2>1, <2>3, Ja3Leaves
<1>5. CASE ~(end - cur < 4)
  <2>1. HasHeader /\ HeaderRead
    BY <1>2, <1>3, <1>5 DEF HelloRead
  <2>2. /\ RecordAt \in DOMAIN known /\ RecordAt + 1 \in DOMAIN known
        /\ known[RecordAt + 1] \in Nat
    BY <2>1 DEF HeaderRead, KnownNat
  <2>3. BodyEnd = Min2(end, cur + 4 + known[RecordAt + 1])
    BY <1>2 DEF BodyEnd
  <2>4. LET body == cur + 4
            last == Min2(end, body + known[RecordAt + 1])
        IN  IF known[RecordAt] # "ClientHello" \/ last - body <= HelloFixed
            THEN Proceed("nextRecord", cur + 1, end) /\ UNCHANGED <<cur, end, known>>
            ELSE \E session \in Field(body + HelloFixed, Claims(last - body - HelloFixed - 1)) :
                   /\ cur' = body + HelloFixed + 1 + session /\ end' = last
                   /\ known' = Noted(known, body + HelloFixed, session)
                   /\ Proceed("ja3Ciphers", body + HelloFixed + 1, last)
    BY <1>2, <1>5, <2>2 DEF Ja3, Field
  <2>5. /\ BodyEnd \in Nat /\ cur + 1 <= end /\ BodyAt \in Nat /\ HelloFixed \in Nat
    BY <1>2, <1>5, <2>1, TowerNumbers, TlsAssumption
  <2>6. HasSession <=> known[RecordAt] = "ClientHello" /\ BodyEnd - BodyAt > HelloFixed
    BY DEF HasSession
  <2>7. CASE known[RecordAt] # "ClientHello" \/ BodyEnd - BodyAt <= HelloFixed
    <3>1. ~HasSession
      BY <2>5, <2>6, <2>7
    <3>2. ~Complete
      BY <3>1 DEF Complete
    <3>3. at' = "nextRecord" /\ UNCHANGED <<cur, end, known>>
      BY <1>2, <2>3, <2>4, <2>5, <2>7 DEF Proceed
    <3> QED BY <1>1, <1>2, <3>2, <3>3, Ja3Leaves
  <2>8. CASE ~(known[RecordAt] # "ClientHello" \/ BodyEnd - BodyAt <= HelloFixed)
    <3>1. HasSession
      BY <2>5, <2>6, <2>8
    <3>2. SessionRead
      BY <1>2, <2>1, <3>1 DEF HelloRead
    <3>3. SessionAt \in DOMAIN known /\ known[SessionAt] \in Nat /\ CiphersAt \in Nat
      BY <3>2, TowerNumbers DEF SessionRead, KnownNat
    <3>4. /\ cur' = BodyAt + HelloFixed + 1 + known[SessionAt] /\ end' = BodyEnd
          /\ known' = Noted(known, SessionAt, known[SessionAt])
          /\ Proceed("ja3Ciphers", BodyAt + HelloFixed + 1, BodyEnd)
      BY <1>2, <2>3, <2>4, <2>8, <3>3 DEF Field
    <3>5. known' = known
      BY <3>3, <3>4, NotedAgain
    <3>6. cur' = CiphersAt
      BY <1>2, <2>5, <3>3, <3>4 DEF CiphersAt
    <3>7. at' = "ja3Ciphers" /\ at' \in TlsAts
      BY <2>5, <2>8, <3>4 DEF Proceed, TlsAts
    <3>8. Grows
      BY <1>1, <3>5, SameGrows
    <3>9. /\ HelloRead' /\ (Complete' <=> Complete) /\ SessionRead' /\ CiphersAt' = CiphersAt
          /\ BodyEnd' = BodyEnd
      BY <1>2, <2>1, <3>2, <3>8, HelloReadKept, TowerKept
    <3>10. ShowInv' /\ PrintInv' /\ CountsInv'
      BY <1>1, <1>2, <3>4, <3>6, <3>7, <3>9 DEF ShowInv, PrintInv, CountsInv
    <3>11. cur' \in Nat /\ end' \in Nat
      BY <2>5, <3>3, <3>4, <3>6
    <3> QED BY <1>1, <1>2, <3>7, <3>10, <3>11, WalkStep
  <2> QED BY <2>7, <2>8
<1> QED BY <1>4, <1>5

LEMMA Ja3CiphersStep ==
    ASSUME DissectorInv, Ja3Ciphers, UNCHANGED <<dns, hdrLen, service, h2>>
    PROVE  DissectorInv'
<1>1. /\ at = "ja3Ciphers" /\ Open /\ at \in TlsAts
      /\ UNCHANGED <<size, pos, layers, protocol, ipProto, tls, end>>
  BY DEF Ja3Ciphers, Open, TlsAts, tlsRest, frameVars
<1>2. /\ HelloRead /\ SessionRead /\ HeaderRead /\ HasHeader /\ HasSession
      /\ cur = CiphersAt /\ end = BodyEnd
      /\ tls.shown = tls.prints + (IF Complete THEN 1 ELSE 0)
      /\ tls.prints \in Nat /\ cur \in Nat /\ end \in Nat /\ tls \in Tls
  BY <1>1, WalkBasics DEF PrintInv, CountsInv, SessionRead, HeaderRead
<1>3. HasCiphers <=> cur + 2 <= end
  BY <1>2 DEF HasCiphers
<1>4. CASE cur + 2 > end
  <2>1. at' = "nextRecord" /\ known' = known /\ cur' = cur
    BY <1>4 DEF Ja3Ciphers
  <2>2. ~HasCiphers
    BY <1>2, <1>3, <1>4
  <2>3. ~Complete
    BY <2>2 DEF Complete
  <2> QED BY <1>1, <1>2, <2>1, <2>3, Ja3Leaves
<1>5. CASE ~(cur + 2 > end)
  <2>1. HasCiphers
    BY <1>2, <1>3, <1>5
  <2>2. CiphersRead /\ (HasMethods => HelloShownInFull)
    BY <1>2, <2>1 DEF HelloRead
  <2>3. cur \in DOMAIN known /\ known[cur] \in Nat /\ MethodsAt \in Nat
    BY <1>2, <2>2, TowerNumbers DEF CiphersRead, KnownNat
  <2>4. /\ known' = Noted(known, cur, known[cur]) /\ cur' = cur + 2 + known[cur]
        /\ at' = IF cur' >= end THEN "nextRecord" ELSE "ja3Compression"
    BY <1>5, <2>3 DEF Ja3Ciphers, Field
  <2>5. known' = known
    BY <2>3, <2>4, NotedAgain
  <2>6. cur' = MethodsAt
    BY <1>2, <2>4 DEF MethodsAt
  <2>7. HasMethods <=> cur' < end
    BY <1>2, <2>6 DEF HasMethods
  <2>8. CASE cur' >= end
    <3>1. ~Complete
      BY <1>2, <2>3, <2>6, <2>7, <2>8 DEF Complete
    <3> QED BY <1>1, <1>2, <2>3, <2>4, <2>5, <2>6, <2>8, <3>1, Ja3Leaves
  <2>9. CASE ~(cur' >= end)
    <3>1. HasMethods
      BY <1>2, <2>3, <2>6, <2>7, <2>9
    <3>2. Complete /\ MethodsRead
      BY <1>2, <2>1, <2>2, <3>1 DEF Complete, HelloShownInFull
    <3>3. Grows
      BY <1>1, <2>5, SameGrows
    <3>4. HelloRead' /\ MethodsRead' /\ MethodsAt' = MethodsAt /\ BodyEnd' = BodyEnd
      BY <1>2, <2>2, <3>2, <3>3, HelloReadKept, TowerKept
    <3>5. at' = "ja3Compression" /\ at' \in TlsAts
      BY <2>4, <2>9 DEF TlsAts
    <3>6. ShowInv' /\ PrintInv' /\ CountsInv'
      BY <1>1, <1>2, <2>6, <3>2, <3>4, <3>5 DEF ShowInv, PrintInv, CountsInv
    <3>7. cur' \in Nat /\ end' \in Nat
      BY <1>1, <1>2, <2>3, <2>6
    <3> QED BY <1>1, <1>2, <3>5, <3>6, <3>7, WalkStep
  <2> QED BY <2>8, <2>9
<1> QED BY <1>4, <1>5

LEMMA Ja3CompressionStep ==
    ASSUME DissectorInv, Ja3Compression, UNCHANGED <<dns, hdrLen, service, h2>>
    PROVE  DissectorInv'
<1>1. /\ at = "ja3Compression" /\ Open /\ at \in TlsAts
      /\ UNCHANGED <<size, pos, layers, protocol, ipProto, tls>>
  BY DEF Ja3Compression, Open, TlsAts, tlsRest, frameVars
<1>2. /\ HelloRead /\ MethodsRead /\ CiphersRead /\ HeaderRead /\ HasMethods
      /\ cur = MethodsAt /\ end = BodyEnd /\ tls.shown = tls.prints + 1
      /\ cur \in Nat /\ end \in Nat /\ tls \in Tls
  BY <1>1, WalkBasics DEF PrintInv, CountsInv, MethodsRead, CiphersRead, SessionRead
<1>3. HelloShownInFull
  BY <1>2 DEF HelloRead, MethodsRead, CiphersRead, SessionRead, HeaderRead
<1>4. cur < end /\ cur + 1 <= end
  BY <1>2 DEF HasMethods
<1>5. cur \in DOMAIN known /\ known[cur] \in Nat /\ ExtsAt = cur + 1 + known[cur] /\ ExtsAt \in Nat
  BY <1>2, TowerNumbers DEF MethodsRead, KnownNat, ExtsAt
<1>6. IF ExtsAt + 2 > end
      THEN Proceed("ja3Made", cur + 1, end) /\ UNCHANGED <<cur, end, known>>
      ELSE \E length \in Field(ExtsAt, Claims(end - ExtsAt - 2)) :
             /\ known' = Noted(Noted(known, cur, known[cur]), ExtsAt, length)
             /\ cur' = ExtsAt + 2 /\ end' = Min2(end, ExtsAt + 2 + length)
             /\ Proceed("ja3Extension", cur + 1, end)
  BY <1>5 DEF Ja3Compression, Field
<1>7. CASE ExtsAt + 2 > end
  <2>1. at' = "ja3Made" /\ UNCHANGED <<cur, end, known>>
    BY <1>4, <1>6, <1>7 DEF Proceed
  <2> QED BY <1>1, <1>2, <2>1, Ja3Leaves
<1>8. CASE ~(ExtsAt + 2 > end)
  <2>1. HasExts
    BY <1>2, <1>5, <1>8 DEF HasExts
  <2>2. ExtsRead /\ Extensions({})
    BY <1>3, <2>1 DEF HelloShownInFull
  <2>3. ExtsAt \in DOMAIN known /\ known[ExtsAt] \in Nat /\ ExtsEnd \in Nat
    BY <2>2, TowerNumbers DEF ExtsRead, KnownNat
  <2>4. /\ known' = Noted(Noted(known, cur, known[cur]), ExtsAt, known[ExtsAt])
        /\ cur' = ExtsAt + 2 /\ end' = Min2(end, ExtsAt + 2 + known[ExtsAt])
        /\ Proceed("ja3Extension", cur + 1, end)
    BY <1>6, <1>8, <2>3 DEF Field
  <2>5. Noted(known, cur, known[cur]) = known
    BY <1>5, NotedAgain
  <2>6. known' = known
    BY <2>3, <2>4, <2>5, NotedAgain
  <2>7. end' = ExtsEnd
    BY <1>2, <2>4 DEF ExtsEnd
  <2>8. at' = "ja3Extension" /\ at' \in TlsAts
    BY <1>4, <2>4 DEF Proceed, TlsAts
  <2>9. Grows
    BY <1>1, <2>6, SameGrows
  <2>10. HelloRead' /\ ExtsRead' /\ ExtsAt' = ExtsAt /\ ExtsEnd' = ExtsEnd
    BY <1>2, <2>2, <2>9, HelloReadKept, TowerKept
  <2>11. PICK S \in SUBSET DOMAIN known : Leads(known, ExtsAt + 2, ExtsEnd, S, {})
    BY <2>2 DEF Extensions
  <2>12. PrintInv'
    <3>1. /\ S \in SUBSET DOMAIN known' /\ Leads(known', ExtsAt' + 2, ExtsEnd', S, {})
          /\ Fits(cur)' => cur' \in S
      BY <2>4, <2>6, <2>10, <2>11 DEF Fits, Leads
    <3> QED BY <2>7, <2>8, <2>10, <3>1 DEF PrintInv
  <2>13. ShowInv' /\ CountsInv'
    BY <1>1, <1>2, <2>8 DEF ShowInv, CountsInv
  <2>14. cur' \in Nat /\ end' \in Nat
    BY <1>5, <2>3, <2>4, <2>7
  <2> QED BY <1>1, <1>2, <2>8, <2>12, <2>13, <2>14, WalkStep
<1> QED BY <1>7, <1>8

LEMMA Ja3ExtensionStep ==
    ASSUME DissectorInv, Ja3Extension, UNCHANGED <<dns, hdrLen, service, h2>>
    PROVE  DissectorInv'
<1>1. /\ at = "ja3Extension" /\ Open /\ at \in TlsAts
      /\ UNCHANGED <<size, pos, layers, protocol, ipProto, tls, end>>
  BY DEF Ja3Extension, Open, TlsAts, tlsRest, frameVars
<1>2. /\ HelloRead /\ ExtsRead /\ end = ExtsEnd /\ tls.shown = tls.prints + 1
      /\ cur \in Nat /\ end \in Nat /\ tls \in Tls
  BY <1>1, WalkBasics DEF PrintInv, CountsInv
<1>3. PICK S \in SUBSET DOMAIN known :
        /\ Leads(known, ExtsAt + 2, ExtsEnd, S, {})
        /\ Fits(cur) => cur \in S
  BY <1>1, WalkBasics DEF PrintInv
<1>4. CASE cur + 4 > end
  <2>1. at' = "ja3Made" /\ UNCHANGED <<cur, known>>
    BY <1>4 DEF Ja3Extension
  <2> QED BY <1>1, <1>2, <2>1, Ja3Leaves
<1>5. CASE ~(cur + 4 > end)
  <2>1. cur \in S
    BY <1>2, <1>3, <1>5 DEF Fits
  <2>2. cur \in DOMAIN known /\ cur + 2 \in DOMAIN known /\ known[cur + 2] \in Nat
    BY <1>3, <2>1 DEF Leads
  <2>3. PICK length \in Nat : length = known[cur + 2]
    BY <2>2
  <2>4. PICK value \in Nat : value = cur + 4 /\ value + length \in Nat
    BY <1>2, <2>3
  <2>5. PICK id \in Field(cur, ExtensionIds) :
          /\ known' = Noted(Noted(known, cur, id), cur + 2, length)
          /\ cur' = value + length
          /\ IF value + length > end THEN at' = "ja3Made"
             ELSE IF id = "points" /\ length >= 1
             THEN \E points \in Claims(length - 1) :
                    Proceed("ja3Extension", value + 1 + Min2(points, length - 1), end)
             ELSE at' = "ja3Extension"
    BY <1>5, <2>2, <2>3, <2>4 DEF Ja3Extension, Field
  <2>6. Noted(known, cur, id) = known
    BY <2>2, NotedAgain
  <2>7. known' = known
    BY <2>2, <2>5, <2>6, NotedAgain
  <2>8. CASE value + length > end
    BY <1>1, <1>2, <2>4, <2>5, <2>7, <2>8, Ja3Leaves
  <2>9. CASE ~(value + length > end)
    <3>1. at' = "ja3Extension"
      <4>1. CASE id = "points" /\ length >= 1
        <5>1. PICK points \in Claims(length - 1) :
                Proceed("ja3Extension", value + 1 + Min2(points, length - 1), end)
          BY <2>5, <2>9, <4>1
        <5>2. points \in Nat
          BY <2>3, ClaimsAreNumbers
        <5>3. value + 1 + Min2(points, length - 1) <= end
          BY <1>2, <2>3, <2>4, <2>9, <5>2 DEF Min2
        <5> QED BY <5>1, <5>3 DEF Proceed
      <4>2. CASE ~(id = "points" /\ length >= 1)
        BY <2>5, <2>9, <4>2
      <4> QED BY <4>1, <4>2
    <3>2. at' \in TlsAts
      BY <3>1 DEF TlsAts
    <3>3. Grows
      BY <1>1, <2>7, SameGrows
    <3>4. HelloRead' /\ ExtsRead' /\ ExtsAt' = ExtsAt /\ ExtsEnd' = ExtsEnd
      BY <1>2, <3>3, HelloReadKept, TowerKept DEF ExtsRead
    <3>5. cur' = cur + 4 + known[cur + 2]
      BY <2>3, <2>4, <2>5
    <3>6. Fits(cur)' => cur' \in S
      BY <1>3, <2>1, <3>4, <3>5 DEF Fits, Leads
    <3>7. /\ S \in SUBSET DOMAIN known' /\ Leads(known', ExtsAt' + 2, ExtsEnd', S, {})
      BY <1>3, <2>7, <3>4
    <3>8. PrintInv'
      BY <1>1, <1>2, <3>1, <3>4, <3>6, <3>7 DEF PrintInv
    <3>9. ShowInv' /\ CountsInv'
      BY <1>1, <1>2, <3>1 DEF ShowInv, CountsInv
    <3> QED BY <1>1, <1>2, <2>4, <2>5, <3>2, <3>8, <3>9, WalkStep
  <2> QED BY <2>8, <2>9
<1> QED BY <1>4, <1>5

LEMMA Ja3MadeStep ==
    ASSUME DissectorInv, Ja3Made, UNCHANGED <<dns, hdrLen, service, h2>>
    PROVE  DissectorInv'
<1>1. /\ at = "ja3Made" /\ Open /\ at \in TlsAts /\ at' = "nextRecord" /\ at' \in TlsAts
      /\ UNCHANGED <<size, pos, layers, protocol, ipProto, cur, end>>
      /\ tls' = [tls EXCEPT !.prints = @ + 1]
  BY DEF Ja3Made, Open, TlsAts
<1>2. /\ tls.shown = tls.prints + 1 /\ tls \in Tls /\ tls.prints \in Nat
      /\ cur \in Nat /\ end \in Nat
  BY <1>1, WalkBasics DEF CountsInv
<1>3. tls.prints + 1 \in Nat /\ tls.prints + 1 = tls.prints + 1 + 0
  BY <1>2
<1>4. tls' \in Tls /\ tls'.shown = tls'.prints + 0
  BY <1>1, <1>2, <1>3 DEF Tls
<1>5. ShowInv' /\ PrintInv' /\ CountsInv'
  BY <1>1, <1>4 DEF ShowInv, PrintInv, CountsInv
<1> QED BY <1>1, <1>2, <1>4, <1>5, WalkStep

LEMMA TlsStep ==
    ASSUME DissectorInv, TlsNext, UNCHANGED <<dns, hdrLen, service, h2>>
    PROVE  DissectorInv'
BY RecordStep, NextRecordStep, TlsDoneStep, HandshakeStep, AfterHandshakeStep,
   ClientHelloStep, CiphersStep, CompressionStep, ExtensionStep, HelloShownStep, ServerHelloSteps,
   Ja3Step, Ja3CiphersStep, Ja3CompressionStep, Ja3ExtensionStep, Ja3MadeStep
   DEF TlsNext

-----------------------------------------------------------------------------
(* A DNS message.                                                          *)

KnownNumbers == \A o \in DOMAIN known : known[o] \in Nat

\* What is read of a message is a number.
LEMMA NotedNumbers ==
    ASSUME NEW map, NEW o, NEW value \in Nat, \A p \in DOMAIN map : map[p] \in Nat
    PROVE  \A p \in DOMAIN Noted(map, o, value) : Noted(map, o, value)[p] \in Nat
<1>1. CASE o \in DOMAIN map
  BY <1>1 DEF Noted
<1>2. CASE o \notin DOMAIN map
  <2>1. Noted(map, o, value) = [p \in DOMAIN map \cup {o} |-> IF p = o THEN value ELSE map[p]]
    BY <1>2 DEF Noted
  <2> QED BY <2>1
<1> QED BY <1>1, <1>2

LEMMA FieldNumbers ==
    ASSUME KnownNumbers, NEW o, NEW values \in SUBSET Nat
    PROVE  Field(o, values) \subseteq Nat
BY DEF Field, KnownNumbers

\* A step of the DNS dissector that goes on.
LEMMA MessageStep ==
    ASSUME DissectorInv, at \in DnsAts \cup {"dns"}, at' \in DnsAts,
           UNCHANGED <<size, pos, end, layers, protocol, ipProto>>,
           UNCHANGED <<tls, hdrLen, h2>>,
           cur' \in Nat, dns' \in Dns, DnsInv'
    PROVE  DissectorInv'
<1>1. at \notin TlsAts /\ at' \notin TlsAts /\ Open
  BY DEF TlsAts, DnsAts, Open
<1>2. TileInv'
  BY <1>1, Basics, NoLayer
<1>3. DissectorTypeOK'
  BY DEF DissectorInv, DissectorTypeOK
<1>4. PanicInv' /\ StartInv'
  BY OutsideTransport DEF DnsAts, IpAts, TcpAts, StartInv
<1>5. tls.shown = tls.prints + 0
  BY <1>1 DEF DissectorInv, CountsInv, TlsAts
<1>6. CountsInv'
  BY <1>1, <1>5 DEF CountsInv, TlsAts
<1>7. ShowInv' /\ PrintInv'
  BY <1>1 DEF ShowInv, PrintInv, TlsAts
<1> QED BY <1>2, <1>3, <1>4, <1>6, <1>7 DEF DissectorInv

\* What the steps may use.
LEMMA MessageBasics ==
    ASSUME DissectorInv
    PROVE  /\ size \in Nat /\ pos \in Nat /\ cur \in Nat /\ dns \in Dns
           /\ dns.base \in Nat /\ dns.qd \in Nat /\ dns.an \in Nat /\ dns.i \in Nat
           /\ dns.entry \in Nat /\ dns.visited \in Nat /\ dns.start \in Nat /\ dns.next \in Nat
           /\ dns.mdns \in BOOLEAN /\ dns.jumped \in BOOLEAN
           /\ NameEnd \in Nat
           /\ at \in DnsAts => KnownNumbers
           /\ at \in {"name", "named"} =>
                IF dns.part = "data" THEN dns.entry < dns.next /\ dns.next <= size
                ELSE dns.entry <= NameEnd
<1>1. size \in Nat /\ pos \in Nat /\ cur \in Nat /\ dns \in Dns /\ DnsInv
  BY DEF DissectorInv, DissectorTypeOK
<1>2. /\ dns.base \in Nat /\ dns.qd \in Nat /\ dns.an \in Nat /\ dns.i \in Nat
      /\ dns.entry \in Nat /\ dns.visited \in Nat /\ dns.start \in Nat /\ dns.next \in Nat
      /\ dns.mdns \in BOOLEAN /\ dns.jumped \in BOOLEAN
  BY <1>1 DEF Dns
<1>3. NameEnd \in Nat
  BY <1>1, <1>2 DEF NameEnd
<1> QED BY <1>1, <1>2, <1>3 DEF DnsInv, DnsAts, KnownNumbers

LEMMA DnsHeaderStep ==
    ASSUME DissectorInv, DnsHeader, UNCHANGED <<tls, hdrLen, service, h2>>
    PROVE  DissectorInv'
<1>1. /\ at = "dns" /\ Open /\ at \notin TlsAts
      /\ UNCHANGED <<size, pos, end, layers, protocol, ipProto>>
  BY DEF DnsHeader, Open, TlsAts, dnsRest
<1>2. size \in Nat /\ pos \in Nat /\ cur \in Nat /\ dns.mdns \in BOOLEAN
  BY MessageBasics
<1>3. CASE size - pos < 12
  <2>1. at' = "finish" /\ UNCHANGED <<cur, known, dns>> /\ UNCHANGED fixed
    BY <1>1, <1>3 DEF DnsHeader, fixed, dnsRest
  <2>2. TileInv' /\ layers' \in Seq(Layer)
    BY <1>1, Basics, NoLayer
  <2>3. UNCHANGED cursors /\ UNCHANGED inner
    BY <1>1, <2>1 DEF cursors, inner
  <2> QED BY <1>1, <2>1, <2>2, <2>3, LastStep
<1>4. CASE ~(size - pos < 12)
  <2>1. PICK qd \in Counts, an \in Counts :
          /\ dns' = [IdleDns EXCEPT !.base = pos, !.qd = qd, !.an = an, !.mdns = dns.mdns,
                                    !.part = "question"]
          /\ known' = Noted(Noted(Noted(Noted(Unread, pos + 4, 0), pos + 5, qd), pos + 6, 0), pos + 7, an)
          /\ cur' = pos + 12
          /\ at' = "entry"
    BY <1>4 DEF DnsHeader
  <2>2. qd \in Nat /\ an \in Nat /\ cur' \in Nat
    BY <1>2, <2>1, DnsAssumption
  <2>3. dns' \in Dns
    BY <1>2, <2>1, <2>2 DEF IdleDns, Dns, Parts
  <2>4. KnownNumbers'
    <3> DEFINE a == Noted(Unread, pos + 4, 0)
               b == Noted(a, pos + 5, qd)
               c == Noted(b, pos + 6, 0)
               d == Noted(c, pos + 7, an)
    <3>1. \A p \in DOMAIN Unread : Unread[p] \in Nat
      BY DEF Unread
    <3>2. \A p \in DOMAIN a : a[p] \in Nat
      BY <3>1, NotedNumbers
    <3> HIDE DEF a
    <3>3. \A p \in DOMAIN b : b[p] \in Nat
      BY <2>2, <3>2, NotedNumbers
    <3> HIDE DEF b
    <3>4. \A p \in DOMAIN c : c[p] \in Nat
      BY <3>3, NotedNumbers
    <3> HIDE DEF c
    <3>5. \A p \in DOMAIN d : d[p] \in Nat
      BY <2>2, <3>4, NotedNumbers
    <3>6. known' = d
      BY <2>1 DEF a, b, c, d
    <3> QED BY <3>5, <3>6 DEF KnownNumbers
  <2>5. DnsInv'
    BY <2>1, <2>4 DEF DnsInv, KnownNumbers
  <2>6. at' \in DnsAts /\ at \in DnsAts \cup {"dns"}
    BY <1>1, <2>1 DEF DnsAts
  <2> QED BY <1>1, <2>2, <2>3, <2>5, <2>6, MessageStep
<1> QED BY <1>3, <1>4

LEMMA EntryStep ==
    ASSUME DissectorInv, Entry, UNCHANGED <<tls, hdrLen, service, h2>>
    PROVE  DissectorInv'
<1>1. /\ at = "entry" /\ at \in DnsAts \cup {"dns"} /\ at \in DnsAts
      /\ UNCHANGED <<size, pos, end, layers, protocol, ipProto, cur, known>>
  BY DEF Entry, DnsAts, dnsRest
<1>2. /\ cur \in Nat /\ dns \in Dns /\ KnownNumbers /\ dns.part \in {"question", "answer"}
  BY <1>1, MessageBasics DEF DissectorInv, DnsInv
<1>3. KnownNumbers'
  BY <1>1, <1>2 DEF KnownNumbers
<1>4. CASE /\ at' = "name"
           /\ dns' = [dns EXCEPT !.entry = cur, !.visited = 0, !.start = cur, !.jumped = FALSE]
  <2>1. dns' \in Dns /\ dns'.entry = cur /\ dns'.jumped = FALSE /\ dns'.part = dns.part
    BY <1>2, <1>4 DEF Dns
  <2>2. NameEnd' = cur /\ dns'.entry <= cur
    BY <1>1, <1>2, <2>1 DEF NameEnd
  <2>3. dns'.part # "data" /\ at' \in DnsAts
    BY <1>2, <1>4, <2>1 DEF DnsAts
  <2>4. DnsInv'
    BY <1>3, <1>4, <2>2, <2>3 DEF DnsInv, KnownNumbers
  <2> QED BY <1>1, <1>2, <2>1, <2>3, <2>4, MessageStep
<1>5. CASE at' \in {"entry", "dnsDone"} /\ dns' = [dns EXCEPT !.part = "answer", !.i = 0]
  <2>1. dns' \in Dns /\ dns'.part = "answer"
    BY <1>2, <1>5 DEF Dns, Parts
  <2>2. DnsInv' /\ at' \in DnsAts
    BY <1>3, <1>5, <2>1 DEF DnsInv, KnownNumbers, DnsAts
  <2> QED BY <1>1, <1>2, <2>1, <2>2, MessageStep
<1> QED BY <1>4, <1>5 DEF Entry

LEMMA NameStep ==
    ASSUME DissectorInv, Name, UNCHANGED <<tls, hdrLen, service, h2>>
    PROVE  DissectorInv'
<1>1. /\ at = "name" /\ at \in DnsAts \cup {"dns"} /\ at \in DnsAts
      /\ UNCHANGED <<size, pos, end, layers, protocol, ipProto>>
  BY DEF Name, DnsAts, dnsRest
<1>2. /\ cur \in Nat /\ size \in Nat /\ dns \in Dns /\ dns.visited \in Nat /\ dns.start \in Nat
      /\ dns.base \in Nat /\ dns.entry \in Nat /\ dns.next \in Nat /\ dns.jumped \in BOOLEAN
      /\ KnownNumbers
      /\ IF dns.part = "data" THEN dns.entry < dns.next /\ dns.next <= size
         ELSE dns.entry <= NameEnd
  BY <1>1, MessageBasics
\* What is left to show of each turn.
<1>3. ASSUME at' \in {"name", "named"}, cur' \in Nat, KnownNumbers', dns' \in Dns,
             dns'.entry = dns.entry, dns'.next = dns.next, dns'.part = dns.part,
             dns.part # "data" => dns.entry <= NameEnd'
      PROVE  DissectorInv'
  <2>1. DnsInv'
    BY <1>1, <1>2, <1>3 DEF DnsInv, KnownNumbers
  <2>2. at' \in DnsAts
    BY <1>3 DEF DnsAts
  <2> QED BY <1>1, <1>3, <2>1, <2>2, MessageStep
\* A turn that does not jump goes on behind where it was.
<1>4. ASSUME NEW next \in Nat, next >= cur, cur' = next, at' \in {"name", "named"}, KnownNumbers',
             dns' = Looked
      PROVE  DissectorInv'
  <2>1. dns.visited + 1 \in Nat
    BY <1>2
  <2>2. /\ dns' \in Dns /\ dns'.entry = dns.entry /\ dns'.next = dns.next /\ dns'.part = dns.part
        /\ dns'.jumped = dns.jumped /\ dns'.start = dns.start
    BY <1>2, <1>4, <2>1 DEF Looked, Dns
  <2>3. dns.part # "data" => dns.entry <= NameEnd'
    BY <1>2, <1>4, <2>2 DEF NameEnd
  <2> QED BY <1>3, <1>4, <2>2, <2>3
<1>5. CASE ~(cur < size /\ dns.visited < MaxVisited)
  <2>1. at' = "named" /\ UNCHANGED <<cur, known, dns>>
    BY <1>5 DEF Name
  <2>2. KnownNumbers' /\ NameEnd' = NameEnd
    BY <1>2, <2>1 DEF KnownNumbers, NameEnd
  <2> QED BY <1>2, <1>3, <2>1, <2>2
<1>6. CASE cur < size /\ dns.visited < MaxVisited
  <2>1. cur + 1 <= size /\ cur + 1 \in Nat /\ cur + 1 >= cur
    BY <1>2, <1>6
  <2>2. PICK length \in Field(cur, Lengths) :
          \/ /\ length = 0
             /\ known' = Noted(known, cur, length)
             /\ cur' = cur + 1
             /\ Proceed("named", cur + 1, size)
             /\ dns' = Looked
          \/ /\ length = Pointer /\ cur + 1 >= size
             /\ known' = Noted(known, cur, length)
             /\ Proceed("named", cur + 1, size)
             /\ dns' = Looked
             /\ UNCHANGED cur
          \/ /\ length = Pointer /\ cur + 1 < size
             /\ \E to \in Field(cur + 1, Pointers) :
                  /\ known' = Know(known, cur, <<length, to>>)
                  /\ cur' = dns.base + to
                  /\ Proceed("name", cur + 1, size)
                  /\ dns' = Followed
          \/ /\ length \notin {0, Pointer}
             /\ known' = Noted(known, cur, length)
             /\ cur' = IF cur + 1 + length > size THEN cur + 1 ELSE cur + 1 + length
             /\ Proceed(IF cur + 1 + length > size THEN "named" ELSE "name", cur + 1, size)
             /\ dns' = Looked
    BY <1>6 DEF Name
  <2>3. length \in Nat
    BY <1>2, FieldNumbers, DnsAssumption
  <2>4. ASSUME known' = Noted(known, cur, length)
        PROVE  KnownNumbers'
    BY <1>2, <2>3, <2>4, NotedNumbers DEF KnownNumbers
  <2>5. CASE /\ known' = Noted(known, cur, length) /\ cur' = cur + 1
             /\ Proceed("named", cur + 1, size) /\ dns' = Looked
    <3>1. at' \in {"name", "named"}
      BY <2>1, <2>5 DEF Proceed
    <3> QED BY <1>4, <2>1, <2>4, <2>5, <3>1
  <2>6. CASE /\ known' = Noted(known, cur, length) /\ cur' = cur
             /\ Proceed("named", cur + 1, size) /\ dns' = Looked
    <3>1. at' \in {"name", "named"} /\ cur >= cur
      BY <1>2, <2>1, <2>6 DEF Proceed
    <3> QED BY <1>2, <1>4, <2>4, <2>6, <3>1
  <2>7. ASSUME NEW to \in Field(cur + 1, Pointers),
               known' = Know(known, cur, <<length, to>>), cur' = dns.base + to,
               Proceed("name", cur + 1, size), dns' = Followed
        PROVE  DissectorInv'
    <3>1. to \in Nat /\ cur' \in Nat
      BY <1>2, <2>7, FieldNumbers, DnsAssumption
    <3>2. KnownNumbers'
      <4>1. \A p \in DOMAIN Noted(known, cur, length) : Noted(known, cur, length)[p] \in Nat
        BY <1>2, <2>3, NotedNumbers DEF KnownNumbers
      <4>2. known' = Noted(Noted(known, cur, length), cur + 1, to)
        BY <2>7 DEF Know
      <4> QED BY <3>1, <4>1, <4>2, NotedNumbers DEF KnownNumbers
    <3>3. at' = "name"
      BY <2>1, <2>7 DEF Proceed
    <3>4. dns.visited + 1 \in Nat /\ cur + 2 \in Nat
      BY <1>2
    <3>5. /\ dns' \in Dns /\ dns'.entry = dns.entry /\ dns'.next = dns.next /\ dns'.part = dns.part
          /\ dns'.jumped = TRUE /\ dns'.start = IF dns.jumped THEN dns.start ELSE cur + 2
      BY <1>2, <2>7, <3>4 DEF Followed, Looked, Dns
    <3>6. dns.part # "data" => dns.entry <= NameEnd'
      BY <1>2, <3>5 DEF NameEnd
    <3> QED BY <1>3, <3>1, <3>2, <3>3, <3>5, <3>6
  <2>8. CASE /\ known' = Noted(known, cur, length)
             /\ cur' = IF cur + 1 + length > size THEN cur + 1 ELSE cur + 1 + length
             /\ Proceed(IF cur + 1 + length > size THEN "named" ELSE "name", cur + 1, size)
             /\ dns' = Looked
    <3>1. at' \in {"name", "named"}
      BY <2>1, <2>8 DEF Proceed
    <3>2. cur' \in Nat /\ cur' >= cur
      BY <1>2, <2>3, <2>8
    <3> QED BY <1>4, <2>4, <2>8, <3>1, <3>2
  <2> QED BY <2>2, <2>5, <2>6, <2>7, <2>8
<1> QED BY <1>5, <1>6

\* The step that reads an entry to its end.
EntryAdvances == at = "named" /\ dns'.i > dns.i => dns.entry < cur' /\ cur' <= size

LEMMA QuestionStep ==
    ASSUME DissectorInv, Question, UNCHANGED <<tls, hdrLen, service, h2>>
    PROVE  DissectorInv' /\ EntryAdvances
<1>1. /\ at = "named" /\ at \in DnsAts \cup {"dns"} /\ at \in DnsAts /\ dns.part = "question"
      /\ UNCHANGED <<size, pos, end, layers, protocol, ipProto, known>> /\ at' = "entry"
  BY DEF Question, DnsAts, dnsRest
<1>2. /\ size \in Nat /\ cur \in Nat /\ dns \in Dns /\ dns.i \in Nat /\ dns.entry \in Nat
      /\ NameEnd \in Nat /\ KnownNumbers /\ dns.entry <= NameEnd
  BY <1>1, MessageBasics
<1>3. KnownNumbers' /\ at' \in DnsAts
  BY <1>1, <1>2 DEF KnownNumbers, DnsAts
<1>4. CASE NameEnd + 4 > size
  <2>1. dns' = [dns EXCEPT !.part = "answer", !.i = 0] /\ cur' = dns.entry
    BY <1>4 DEF Question
  <2>2. dns' \in Dns /\ dns'.part = "answer" /\ dns'.i = 0
    BY <1>2, <2>1 DEF Dns, Parts
  <2>3. DnsInv' /\ EntryAdvances
    BY <1>1, <1>2, <1>3, <2>2 DEF DnsInv, KnownNumbers, EntryAdvances
  <2> QED BY <1>1, <1>2, <1>3, <2>1, <2>2, <2>3, MessageStep
<1>5. CASE ~(NameEnd + 4 > size)
  <2>1. dns' = [dns EXCEPT !.i = @ + 1] /\ cur' = NameEnd + 4
    BY <1>5 DEF Question
  <2>2. dns.i + 1 \in Nat /\ cur' \in Nat /\ cur' <= size /\ dns.entry < cur'
    BY <1>2, <1>5, <2>1
  <2>3. dns' \in Dns /\ dns'.part = "question"
    BY <1>1, <1>2, <2>1, <2>2 DEF Dns
  <2>4. DnsInv' /\ EntryAdvances
    BY <1>1, <1>3, <2>2, <2>3 DEF DnsInv, KnownNumbers, EntryAdvances
  <2> QED BY <1>1, <1>3, <2>2, <2>3, <2>4, MessageStep
<1> QED BY <1>4, <1>5

LEMMA AnswerStep ==
    ASSUME DissectorInv, Answer, UNCHANGED <<tls, hdrLen, service, h2>>
    PROVE  DissectorInv' /\ EntryAdvances
<1>1. /\ at = "named" /\ at \in DnsAts \cup {"dns"} /\ at \in DnsAts /\ dns.part = "answer"
      /\ UNCHANGED <<size, pos, end, layers, protocol, ipProto>>
  BY DEF Answer, DnsAts, dnsRest
<1>2. /\ size \in Nat /\ cur \in Nat /\ dns \in Dns /\ dns.i \in Nat /\ dns.entry \in Nat
      /\ NameEnd \in Nat /\ KnownNumbers /\ dns.entry <= NameEnd
  BY <1>1, MessageBasics
<1>3. CASE at' = "dnsDone" /\ UNCHANGED <<cur, dns>> /\ KnownNumbers'
  <2>1. DnsInv' /\ at' \in DnsAts /\ EntryAdvances
    BY <1>2, <1>3 DEF DnsInv, KnownNumbers, DnsAts, EntryAdvances
  <2> QED BY <1>1, <1>2, <1>3, <2>1, MessageStep
<1>4. CASE NameEnd + 10 > size
  <2>1. at' = "dnsDone" /\ UNCHANGED <<cur, known, dns>>
    BY <1>4 DEF Answer
  <2>2. KnownNumbers'
    BY <1>2, <2>1 DEF KnownNumbers
  <2> QED BY <1>3, <2>1, <2>2
<1>5. CASE ~(NameEnd + 10 > size)
  <2>1. PICK type \in Pairs(NameEnd, {0}, RecordTypes),
             length \in Pairs(NameEnd + 8, {0}, Claims(size - NameEnd - 10)) :
          LET data == NameEnd + 10
              skip == IF Number(type) = MailType THEN 2 ELSE 0
              named == \/ Number(type) \in NameTypes
                       \/ Number(type) = MailType /\ Number(length) >= 3
          IN  /\ known' = Know(Know(known, NameEnd, type), NameEnd + 8, length)
              /\ IF data + Number(length) > size
                 THEN at' = "dnsDone" /\ UNCHANGED <<cur, meta, dns>>
                 ELSE IF named
                 THEN /\ at' = "name"
                      /\ cur' = data + skip
                      /\ dns' = [dns EXCEPT !.part = "data", !.visited = 0, !.jumped = FALSE,
                                            !.next = data + Number(length)]
                      /\ UNCHANGED meta
                 ELSE /\ at' = "entry"
                      /\ cur' = data + Number(length)
                      /\ dns' = [dns EXCEPT !.i = @ + 1]
                      /\ meta' = meta \cup {"dns_ans"}
    BY <1>5 DEF Answer
  <2>2. ASSUME NEW o, NEW lo \in SUBSET Nat, NEW p \in Pairs(o, {0}, lo)
        PROVE  p[1] \in Nat /\ p[2] \in Nat /\ Number(p) \in Nat
    <3>1. PICK h \in Field(o, {0}), l \in Field(o + 1, lo) : p = <<h, l>>
      BY DEF Pairs
    <3>2. h \in Nat
      <4>1. {0} \in SUBSET Nat
        OBVIOUS
      <4> QED BY <1>2, <4>1, FieldNumbers
    <3>3. l \in Nat
      BY <1>2, FieldNumbers
    <3>4. p[1] = h /\ p[2] = l
      BY <3>1
    <3> QED BY <3>2, <3>3, <3>4 DEF Number
  <2>3. RecordTypes \in SUBSET Nat /\ Claims(size - NameEnd - 10) \in SUBSET Nat
    BY <1>2, DnsAssumption, ClaimsAreNumbers
  <2>4. /\ type[1] \in Nat /\ type[2] \in Nat /\ length[1] \in Nat /\ length[2] \in Nat
        /\ Number(length) \in Nat
    BY <2>2, <2>3
  <2>5. KnownNumbers'
    <3> DEFINE a == Noted(known, NameEnd, type[1])
               b == Noted(a, NameEnd + 1, type[2])
               c == Noted(b, NameEnd + 8, length[1])
               d == Noted(c, NameEnd + 8 + 1, length[2])
    <3>1. \A p \in DOMAIN a : a[p] \in Nat
      BY <1>2, <2>4, NotedNumbers DEF KnownNumbers
    <3> HIDE DEF a
    <3>2. \A p \in DOMAIN b : b[p] \in Nat
      BY <2>4, <3>1, NotedNumbers
    <3> HIDE DEF b
    <3>3. \A p \in DOMAIN c : c[p] \in Nat
      BY <2>4, <3>2, NotedNumbers
    <3> HIDE DEF c
    <3>4. \A p \in DOMAIN d : d[p] \in Nat
      BY <2>4, <3>3, NotedNumbers
    <3>5. known' = d
      BY <2>1 DEF a, b, c, d, Know
    <3> QED BY <3>4, <3>5 DEF KnownNumbers
  <2>6. PICK next \in Nat : next = NameEnd + 10 + Number(length) /\ dns.entry < next
    BY <1>2, <2>4
  <2>7. CASE next > size
    BY <1>3, <2>1, <2>5, <2>6, <2>7
  <2>8. CASE ~(next > size) /\ at' = "name"
    <3>1. next <= size
      BY <1>2, <2>6, <2>8
    <3>2. PICK skip \in {0, 2} : cur' = NameEnd + 10 + skip
      BY <2>1, <2>6, <2>8
    <3>3. cur' \in Nat
      BY <1>2, <3>2
    <3>4. dns' = [dns EXCEPT !.part = "data", !.visited = 0, !.jumped = FALSE, !.next = next]
      BY <2>1, <2>6, <2>8
    <3>5. /\ dns' \in Dns /\ dns'.part = "data" /\ dns'.entry = dns.entry /\ dns'.next = next
          /\ dns'.i = dns.i
      BY <1>2, <2>6, <3>4 DEF Dns, Parts
    <3>6. DnsInv' /\ EntryAdvances /\ at' \in DnsAts
      BY <1>1, <1>2, <2>5, <2>6, <2>8, <3>1, <3>5 DEF DnsInv, KnownNumbers, EntryAdvances, DnsAts
    <3> QED BY <1>1, <3>3, <3>5, <3>6, MessageStep
  <2>9. CASE ~(next > size) /\ at' = "entry"
    <3>1. next <= size
      BY <1>2, <2>6, <2>9
    <3>2. cur' = next /\ dns' = [dns EXCEPT !.i = @ + 1]
      BY <2>1, <2>6, <2>9
    <3>3. dns.i + 1 \in Nat
      BY <1>2
    <3>4. dns' \in Dns /\ dns'.part = "answer"
      BY <1>1, <1>2, <3>2, <3>3 DEF Dns
    <3>5. DnsInv' /\ EntryAdvances /\ at' \in DnsAts
      BY <2>5, <2>6, <2>9, <3>1, <3>2, <3>4 DEF DnsInv, KnownNumbers, EntryAdvances, DnsAts
    <3> QED BY <1>1, <2>6, <3>2, <3>4, <3>5, MessageStep
  <2>10. ~(next > size) => at' \in {"name", "entry"}
    BY <2>1, <2>6
  <2> QED BY <2>7, <2>8, <2>9, <2>10
<1> QED BY <1>4, <1>5

LEMMA AnswerNamedStep ==
    ASSUME DissectorInv, AnswerNamed, UNCHANGED <<tls, hdrLen, service, h2>>
    PROVE  DissectorInv' /\ EntryAdvances
<1>1. /\ at = "named" /\ at \in DnsAts \cup {"dns"} /\ at \in DnsAts /\ dns.part = "data"
      /\ UNCHANGED <<size, pos, end, layers, protocol, ipProto, known>> /\ at' = "entry"
      /\ cur' = dns.next /\ dns' = [dns EXCEPT !.part = "answer", !.i = @ + 1]
  BY DEF AnswerNamed, DnsAts, dnsRest
<1>2. /\ dns \in Dns /\ dns.i \in Nat /\ dns.next \in Nat
      /\ KnownNumbers /\ dns.entry < dns.next /\ dns.next <= size
  BY <1>1, MessageBasics
<1>3. dns.i + 1 \in Nat
  BY <1>2
<1>4. dns' \in Dns /\ dns'.part = "answer"
  BY <1>1, <1>2, <1>3 DEF Dns, Parts
<1>5. DnsInv' /\ EntryAdvances /\ at' \in DnsAts
  BY <1>1, <1>2, <1>4 DEF DnsInv, KnownNumbers, EntryAdvances, DnsAts
<1> QED BY <1>1, <1>2, <1>4, <1>5, MessageStep

LEMMA DnsDoneStep ==
    ASSUME DissectorInv, DnsDone, UNCHANGED <<tls, hdrLen, service, h2>>
    PROVE  DissectorInv'
<1>1. /\ at = "dnsDone" /\ Open /\ at \notin TlsAts /\ UNCHANGED <<size, pos, end, ipProto>>
      /\ cur' = 0 /\ dns' = IdleDns
      /\ LastLayer("mDNS", "mDNS") \/ LastLayer("DNS", "DNS")
  BY DEF DnsDone, Open, TlsAts
<1>2. "mDNS" \in LayerNames /\ "DNS" \in LayerNames /\ ~Unnamed'
  BY <1>1 DEF LayerNames, Applications, LastLayer, Unnamed
<1>3. TileInv' /\ layers' \in Seq(Layer) /\ at' = "finish"
  BY <1>1, <1>2, Basics, LastTaken
<1>4. dns' \in Dns
  BY <1>1 DEF IdleDns, Dns, Parts
<1>5. DissectorTypeOK'
  BY <1>1, <1>3, <1>4 DEF DissectorInv, DissectorTypeOK
<1>6. at' \notin TlsAts /\ at' \notin DnsAts /\ PanicInv' /\ StartInv'
  BY <1>3, OutsideTransport DEF TlsAts, DnsAts, IpAts, TcpAts, StartInv
<1>7. DnsInv' /\ ShowInv' /\ PrintInv' /\ CountsInv'
  BY <1>1, <1>6, OutsideWalks DEF DissectorInv
<1> QED BY <1>3, <1>5, <1>6, <1>7 DEF DissectorInv

LEMMA DnsStep ==
    ASSUME DissectorInv, DnsNext, UNCHANGED <<tls, hdrLen, service, h2>>
    PROVE  DissectorInv'
BY DnsHeaderStep, EntryStep, NameStep, QuestionStep, AnswerStep, AnswerNamedStep, DnsDoneStep
   DEF DnsNext

-----------------------------------------------------------------------------
(* The theorems.                                                           *)

LEMMA DissectorStart == ASSUME DissectorInit PROVE DissectorInv
<1>1. /\ size \in Nat /\ at = "dissect" /\ pos = 0 /\ cur = 0 /\ end = 0 /\ layers = <<>>
      /\ tls = IdleTls /\ dns = IdleDns /\ hdrLen = 0 /\ h2 = 0
  BY PacketAssumption DEF DissectorInit, PacketInit
<1>2. ipProto \in IpNames /\ protocol \in Provisional
  BY DEF DissectorInit, PacketInit, IpNames, Provisional
<1>3. tls \in Tls /\ tls.shown = 0 /\ tls.prints = 0
  BY <1>1 DEF IdleTls, Tls, HelloNames
<1>4. dns \in Dns
  BY <1>1 DEF IdleDns, Dns, Parts
<1>5. layers \in Seq(Layer) /\ Len(layers) = 0
  BY <1>1
<1>6. DissectorTypeOK /\ StartInv
  BY <1>1, <1>2, <1>3, <1>4, <1>5 DEF DissectorTypeOK, StartInv
<1>7. TileInv
  <2>1. Tiled /\ Frontier = 0
    BY <1>1, <1>5 DEF Tiled, Frontier
  <2>2. protocol \notin Applications
    BY <1>2 DEF Provisional, Applications
  <2> QED BY <1>1, <1>2, <1>5, <2>1, <2>2 DEF TileInv
<1>8. PanicInv
  BY <1>1 DEF PanicInv, PanicOnlyAtLastOption
<1>9. DnsInv /\ ShowInv /\ PrintInv
  BY <1>1 DEF DnsInv, ShowInv, PrintInv
<1>10. CountsInv
  BY <1>1, <1>3 DEF CountsInv
<1> QED BY <1>6, <1>7, <1>8, <1>9, <1>10 DEF DissectorInv

LEMMA DissectorKept == ASSUME DissectorInv, [DissectorNext]_dissectorVars PROVE DissectorInv'
<1>1. CASE UNCHANGED dissectorVars
  <2>1. /\ UNCHANGED <<size, at, pos, cur, end, known, layers, protocol, ipProto>>
        /\ UNCHANGED <<tls, dns, hdrLen, h2>>
    BY <1>1 DEF dissectorVars, packetVars, frameVars
  <2>2. DissectorTypeOK' /\ StartInv'
    BY <2>1 DEF DissectorInv, DissectorTypeOK, StartInv
  <2>3. TileInv'
    BY <2>1 DEF DissectorInv, TileInv, Tiled, Frontier, Open, Unnamed
  <2>4. PanicInv'
    BY <2>1 DEF DissectorInv, PanicInv, PanicOnlyAtLastOption, OverIp
  <2>5. DnsInv'
    BY <2>1 DEF DissectorInv, DnsInv, NameEnd
  <2>6. /\ RecordAt' = RecordAt /\ RecordEnd' = RecordEnd /\ BodyAt' = BodyAt /\ BodyEnd' = BodyEnd
        /\ SessionAt' = SessionAt /\ CiphersAt' = CiphersAt /\ MethodsAt' = MethodsAt
        /\ ExtsAt' = ExtsAt /\ ExtsEnd' = ExtsEnd
    BY <2>1 DEF RecordAt, RecordEnd, BodyAt, BodyEnd, SessionAt, CiphersAt, MethodsAt, ExtsAt, ExtsEnd, Min2
  <2>7. /\ HasHeader' <=> HasHeader
        /\ HasSession' <=> HasSession
        /\ HasCiphers' <=> HasCiphers
        /\ HasMethods' <=> HasMethods
        /\ HasExts' <=> HasExts
    BY <2>1, <2>6 DEF HasHeader, HasSession, HasCiphers, HasMethods, HasExts
  <2>8. /\ HeaderRead' <=> HeaderRead
        /\ SessionRead' <=> SessionRead
        /\ CiphersRead' <=> CiphersRead
        /\ MethodsRead' <=> MethodsRead
        /\ ExtsRead' <=> ExtsRead
    BY <2>1, <2>6, <2>7 DEF HeaderRead, SessionRead, CiphersRead, MethodsRead, ExtsRead, KnownNat
  <2>9. Below' <=> Below
    BY <2>1 DEF Below
  <2>10. (Extensions({})' <=> Extensions({})) /\ (Extensions({cur})' <=> Extensions({cur}))
    BY <2>1, <2>6 DEF Extensions
  <2>11. /\ HelloShownInFull' <=> HelloShownInFull
         /\ HelloRead' <=> HelloRead
         /\ Complete' <=> Complete
    BY <2>7, <2>8, <2>10 DEF HelloShownInFull, HelloRead, Complete
  <2>12. ShowInv'
    BY <2>1, <2>6, <2>7, <2>8, <2>9, <2>10, <2>11 DEF DissectorInv, ShowInv
  <2>13. PrintInv'
    BY <2>1, <2>6, <2>7, <2>8, <2>11 DEF DissectorInv, PrintInv, Fits
  <2>14. CountsInv'
    BY <2>1, <2>11 DEF DissectorInv, CountsInv
  <2> QED BY <2>2, <2>3, <2>4, <2>5, <2>12, <2>13, <2>14 DEF DissectorInv
<1>2. CASE DissectorNext
  BY <1>2, DissectStep, TooShortStep, EthernetStep, VlanStep, OtherEtherTypeStep, CookedStep, ArpStep,
     IPv4Step, IPv6Step, OtherIpStep, IcmpStep,
     TcpStep, TcpOptionStep, SegmentStep, AppTcpStep,
     HttpStep, Http2FrameStep, Http2DoneStep, SshStep, TcpDataStep,
     UdpStep, AppUdpStep, UdpPayloadStep, DhcpSteps, DhcpDoneStep,
     TlsStep, DnsStep, FinishStep DEF DissectorNext
<1> QED BY <1>1, <1>2

\* The strengthening that the three invariants below follow from: while a
\* packet is read the layers end at pos, what parseClientHello has found of a
\* hello is still known when buildJA3 walks it, and the two counts differ by one
\* exactly where that walk is under way (decode/frame.go, tcpudp.go, tls.go, dns.go).
THEOREM DissectorInvariance == DissectorSpec => []DissectorInv
<1>1. DissectorInit => DissectorInv
  BY DissectorStart
<1>2. DissectorInv /\ [DissectorNext]_dissectorVars => DissectorInv'
  BY DissectorKept
<1> QED BY <1>1, <1>2, PTL DEF DissectorSpec

\* Offsets, lengths and counters are numbers, and every layer has one of the
\* dissectors' names.
THEOREM DissectorTyping == DissectorSpec => []DissectorTypeOK
<1>1. DissectorInv => DissectorTypeOK
  BY DEF DissectorInv
<1> QED BY <1>1, DissectorInvariance, PTL

\* Every reader looks at what is left before it indexes the packet, but for
\* the window scale at the end of the options (tcpudp.go:112).
THEOREM DissectorPanics == DissectorSpec => []PanicOnlyAtLastOption
<1>1. DissectorInv => PanicOnlyAtLastOption
  BY DEF DissectorInv, PanicInv
<1> QED BY <1>1, DissectorInvariance, PTL

\* The layers tile the packet, and an application's reaches its end.
THEOREM DissectorLayersTile == DissectorSpec => []LayersTile
<1>1. DissectorInv => LayersTile
  <2> SUFFICES ASSUME DissectorInv PROVE LayersTile
    OBVIOUS
  <2>1. Tiled
    BY DEF DissectorInv, TileInv
  <2>2. ASSUME protocol \in Applications
        PROVE  layers[Len(layers)].off + layers[Len(layers)].len = size
    BY <2>2 DEF DissectorInv, TileInv, Frontier
  <2> QED BY <2>1, <2>2 DEF LayersTile, Tiled, Applications
<1> QED BY <1>1, DissectorInvariance, PTL

\* One fingerprint for every hello that is shown, whatever the lengths in it
\* claim and however many records there are (tls.go:56-61).
THEOREM DissectorJa3 == DissectorSpec => []Ja3PerHello
<1>1. DissectorInv => Ja3PerHello
  <2> SUFFICES ASSUME DissectorInv, at \in {"finish", "done"} PROVE tls.prints = tls.shown
    BY DEF Ja3PerHello
  <2>1. tls.shown = tls.prints + 0 /\ tls.prints \in Nat
    BY WalkBasics DEF CountsInv
  <2> QED BY <2>1
<1> QED BY <1>1, DissectorInvariance, PTL

\* An entry of a DNS message takes the reader forward, wherever the pointers
\* in its names lead (dns.go:44, :59).
THEOREM DissectorEntriesAdvance == DissectorSpec => EntriesAdvance
<1>1. DissectorInv /\ [DissectorNext]_dissectorVars => EntryAdvances
  <2> SUFFICES ASSUME DissectorInv, [DissectorNext]_dissectorVars, at = "named"
               PROVE  EntryAdvances
    BY DEF EntryAdvances
  <2>1. dns.i \in Nat
    BY MessageBasics
  <2>2. CASE UNCHANGED dns
    BY <2>1, <2>2 DEF EntryAdvances
  <2>3. CASE (Question \/ Answer \/ AnswerNamed) /\ UNCHANGED <<tls, hdrLen, service, h2>>
    BY <2>3, QuestionStep, AnswerStep, AnswerNamedStep
  <2>4. \/ UNCHANGED dns
        \/ (Question \/ Answer \/ AnswerNamed) /\ UNCHANGED <<tls, hdrLen, service, h2>>
    <3>1. CASE UNCHANGED dissectorVars
      BY <3>1 DEF dissectorVars
    <3>2. CASE DnsNext /\ UNCHANGED <<tls, hdrLen, service, h2>>
      BY <3>2 DEF DnsNext, DnsHeader, Entry, Name, DnsDone
    <3>3. CASE AppUdp
      BY <3>3 DEF AppUdp
    <3>4. CASE TlsNext /\ UNCHANGED <<dns, hdrLen, service, h2>>
      BY <3>4
    <3>5. CASE Finish /\ UNCHANGED inner
      BY <3>5 DEF inner
    <3>6. CASE \/ Dissect \/ TooShort \/ Ethernet \/ Vlan \/ OtherEtherType \/ Cooked \/ Arp
               \/ IPv4 \/ IPv6 \/ OtherIp \/ Icmp
               \/ Tcp \/ TcpOption \/ Segment \/ AppTcp
               \/ Http \/ Http2Frame \/ Http2Done \/ Ssh \/ TcpData
               \/ Udp \/ UdpPayload \/ Dhcp \/ DhcpOption \/ DhcpDone
      BY <3>6 DEF inner, Dissect, TooShort, Ethernet, Vlan, OtherEtherType, Cooked, Arp,
         IPv4, IPv6, IpHeader, OtherIp, Icmp, Tcp, TcpOption, Segment, AppTcp,
         Http, Http2Frame, Http2Done, Ssh, TcpData, Udp, UdpPayload, Dhcp, DhcpOption, DhcpDone
    <3> QED BY <3>1, <3>2, <3>3, <3>4, <3>5, <3>6 DEF DissectorNext
  <2> QED BY <2>2, <2>3, <2>4
<1>2. DissectorSpec => [][EntryAdvances]_dissectorVars
  BY <1>1, DissectorInvariance, PTL DEF DissectorSpec
<1> QED BY <1>2 DEF EntriesAdvance, EntryAdvances
=============================================================================
