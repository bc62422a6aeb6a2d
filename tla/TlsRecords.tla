----------------------------- MODULE TlsRecords -----------------------------
(***************************************************************************)
(* dissectTLS: the records of one TCP payload, the handshake message that  *)
(* a record begins with, and the JA3 fingerprint.  A ClientHello is walked *)
(* twice, by parseClientHello for what is shown and by buildJA3 for the    *)
(* fingerprint; each stops at its own checks.  fields is one map for all   *)
(* records of the payload, so what an earlier record wrote is still there  *)
(* when a later one is looked at.                                          *)
(***************************************************************************)
EXTENDS Packet

CONSTANTS
    MaxRecords,     \* records shown of one payload (12)
    HelloFixed      \* bytes of a hello in front of its session id (34)

ASSUME TlsAssumption == MaxRecords \in Nat /\ HelloFixed \in Nat

VARIABLE tls
\* rec       where the current record begins
\* length    the length it claims
\* n         len(records)
\* hs        fields["handshake"]
\* sni, cipher   fields holds a server_name, a cipher_suite
\* shown     history: ClientHellos that parseClientHello read to the end
\* prints    fingerprints appended to Tags

IdleTls == [rec |-> 0, length |-> 0, n |-> 0, hs |-> "", sni |-> FALSE, cipher |-> FALSE,
            shown |-> 0, prints |-> 0]

ContentTypes == {"handshake", "alert", "other"}
ExtensionIds == {"server_name", "supported_versions", "groups", "points", "other"}

tlsRest == <<size, link, pos, frameVars>>

RecordEnd == Min2(tls.rec + 5 + tls.length, size)

-----------------------------------------------------------------------------
(* The loop over the records.                                              *)
Record ==
    /\ at = "record"
    /\ IF tls.rec + 5 > size \/ tls.n >= MaxRecords
       THEN at' = "tlsDone" /\ UNCHANGED <<cur, end, tls>>
       ELSE \E type \in Field(tls.rec, ContentTypes),
               length \in Field(tls.rec + 3, Claims(size - tls.rec - 5)) :
              /\ tls' = [tls EXCEPT !.length = length]
              /\ cur' = tls.rec + 5 /\ end' = Min2(tls.rec + 5 + length, size)
              /\ Proceed(IF type = "handshake" /\ cur' < end' THEN "handshake" ELSE "nextRecord",
                         tls.rec + 1, size)
    /\ UNCHANGED <<known, tlsRest>>

NextRecord ==
    /\ at = "nextRecord"
    /\ tls' = [tls EXCEPT !.n = @ + 1, !.rec = tls.rec + 5 + tls.length]
    /\ at' = IF tls.length = 0 \/ tls'.rec > size THEN "tlsDone" ELSE "record"
    /\ known' = Unread
    /\ UNCHANGED <<cur, end, tlsRest>>

TlsDone ==
    /\ at = "tlsDone"
    /\ LastLayer("TLS", "TLS")
    /\ meta' = meta \cup (IF tls.sni THEN {"sni"} ELSE {})
    /\ tags' = tags \cup {"encrypted", "tls"}
    /\ cur' = 0 /\ end' = 0 /\ known' = Unread
    /\ UNCHANGED <<size, link, pos, ipProto, tls>>

-----------------------------------------------------------------------------
(* parseTLSHandshake, and what dissectTLS does after it.                   *)
HandshakeTypes == {"ClientHello", "ServerHello", "other"}

Handshake ==
    /\ at = "handshake"
    /\ IF end - cur < 4
       THEN at' = "afterHandshake" /\ UNCHANGED <<cur, end, known, tls>>
       ELSE \E type \in HandshakeTypes, length \in Claims(end - cur - 4) :
              /\ tls' = [tls EXCEPT !.hs = type]
              /\ known' = Noted(Noted(known, cur, type), cur + 1, length)
              /\ cur' = cur + 4 /\ end' = Min2(end, cur + 4 + length)
              /\ Proceed(IF type = "other" THEN "afterHandshake" ELSE type, cur + 4, end)
    /\ UNCHANGED tlsRest

AfterHandshake ==
    /\ at = "afterHandshake"
    /\ at' = IF tls.hs = "ClientHello" THEN "ja3" ELSE "nextRecord"
    /\ meta' = IF tls.hs = "ServerHello"
               THEN meta \cup (IF tls.cipher THEN {"tls_cipher"} ELSE {})
                         \cup (IF tls.sni THEN {"sni"} ELSE {})
               ELSE meta
    /\ cur' = tls.rec + 5 /\ end' = RecordEnd
    /\ UNCHANGED <<size, link, pos, known, layers, protocol, ipProto, tags, tls>>

-----------------------------------------------------------------------------
(* parseClientHello, on the body [cur, end) of the message: the session    *)
(* id, the cipher suites, the compression methods, the extensions.         *)
ClientHello ==
    /\ at = "ClientHello"
    /\ IF end - cur <= HelloFixed
       THEN at' = "afterHandshake" /\ UNCHANGED <<cur, known>>
       ELSE \E session \in Field(cur + HelloFixed, Claims(end - cur - HelloFixed - 1)) :
              /\ known' = Noted(known, cur + HelloFixed, session)
              /\ cur' = cur + HelloFixed + 1 + session
              /\ Proceed("ciphers", cur + HelloFixed + 1, end)
    /\ UNCHANGED <<end, tls, tlsRest>>

Ciphers ==
    /\ at = "ciphers"
    /\ IF cur + 2 > end
       THEN at' = "afterHandshake" /\ UNCHANGED <<cur, known>>
       ELSE \E ciphers \in Field(cur, Claims(end - cur - 2)) :
              /\ known' = Noted(known, cur, ciphers)
              /\ cur' = cur + 2 + ciphers
              /\ at' = IF cur' >= end THEN "afterHandshake" ELSE "compression"
    /\ UNCHANGED <<end, tls, tlsRest>>

\* The extensions end where their length says, or with the body.
Compression ==
    /\ at = "compression"
    /\ \E methods \in Field(cur, Claims(end - cur - 1)) :
         LET exts == cur + 1 + methods
         IN  IF exts + 2 > end
             THEN /\ known' = Noted(known, cur, methods)
                  /\ Proceed("helloShown", cur + 1, end)
                  /\ UNCHANGED <<cur, end>>
             ELSE \E length \in Field(exts, Claims(end - exts - 2)) :
                    /\ known' = Noted(Noted(known, cur, methods), exts, length)
                    /\ cur' = exts + 2 /\ end' = Min2(end, exts + 2 + length)
                    /\ Proceed("extension", cur + 1, end)
    /\ UNCHANGED <<tls, tlsRest>>

\* server_name: a list length, a type, the length of the name and the name.
Extension ==
    /\ at = "extension"
    /\ IF cur + 4 > end
       THEN at' = "helloShown" /\ UNCHANGED <<cur, known, tls>>
       ELSE \E id \in Field(cur, ExtensionIds), length \in Field(cur + 2, Claims(end - cur - 4)) :
              LET next == cur + 4 + length
              IN  /\ known' = Noted(Noted(known, cur, id), cur + 2, length)
                  /\ cur' = next
                  /\ at' = IF next > end THEN "helloShown" ELSE "extension"
                  /\ \/ tls' = tls
                     \/ /\ id = "server_name" /\ length >= 5 /\ next <= end
                        /\ tls' = [tls EXCEPT !.sni = TRUE]
    /\ UNCHANGED <<end, tlsRest>>

HelloShown ==
    /\ at = "helloShown"
    /\ at' = "afterHandshake"
    /\ tls' = [tls EXCEPT !.shown = @ + 1]
    /\ UNCHANGED <<cur, end, known, tlsRest>>

-----------------------------------------------------------------------------
(* parseServerHello: the cipher suite and, after it, the extensions.       *)
ServerHello ==
    /\ at = "ServerHello"
    /\ IF end - cur <= HelloFixed
       THEN at' = "afterHandshake" /\ UNCHANGED <<cur, end, tls>>
       ELSE \E session \in Claims(end - cur - HelloFixed - 1) :
              LET suite == cur + HelloFixed + 1 + session
              IN  IF suite + 3 > end
                  THEN Proceed("afterHandshake", cur + HelloFixed + 1, end) /\ UNCHANGED <<cur, end, tls>>
                  ELSE /\ tls' = [tls EXCEPT !.cipher = TRUE]
                       /\ IF suite + 5 > end
                          THEN Proceed("afterHandshake", suite + 3, end) /\ UNCHANGED <<cur, end>>
                          ELSE \E length \in Claims(end - suite - 5) :
                                 /\ cur' = suite + 5 /\ end' = Min2(end, suite + 5 + length)
                                 /\ Proceed("serverExtension", suite + 3, end)
    /\ UNCHANGED <<known, tlsRest>>

ServerExtension ==
    /\ at = "serverExtension"
    /\ IF cur + 4 > end
       THEN at' = "afterHandshake" /\ UNCHANGED cur
       ELSE \E length \in Claims(end - cur - 4) :
              /\ cur' = cur + 4 + length
              /\ at' = IF cur' > end THEN "afterHandshake" ELSE "serverExtension"
    /\ UNCHANGED <<end, known, tls, tlsRest>>

-----------------------------------------------------------------------------
(* buildJA3, on the whole record: it starts again from the message header  *)
(* and returns nothing at the first check that fails.                      *)
Ja3 ==
    /\ at = "ja3"
    /\ IF end - cur < 4
       THEN at' = "nextRecord" /\ UNCHANGED <<cur, end, known>>
       ELSE \E type \in Field(cur, HandshakeTypes), length \in Field(cur + 1, Claims(end - cur - 4)) :
              LET body == cur + 4
                  last == Min2(end, body + length)
              IN  IF type # "ClientHello" \/ last - body <= HelloFixed
                  THEN Proceed("nextRecord", cur + 1, end) /\ UNCHANGED <<cur, end, known>>
                  ELSE \E session \in Field(body + HelloFixed, Claims(last - body - HelloFixed - 1)) :
                         /\ cur' = body + HelloFixed + 1 + session /\ end' = last
                         /\ known' = Noted(known, body + HelloFixed, session)
                         /\ Proceed("ja3Ciphers", body + HelloFixed + 1, last)
    /\ UNCHANGED <<tls, tlsRest>>

Ja3Ciphers ==
    /\ at = "ja3Ciphers"
    /\ IF cur + 2 > end
       THEN at' = "nextRecord" /\ UNCHANGED <<cur, known>>
       ELSE \E ciphers \in Field(cur, Claims(end - cur - 2)) :
              /\ known' = Noted(known, cur, ciphers)
              /\ cur' = cur + 2 + ciphers
              /\ at' = IF cur' >= end THEN "nextRecord" ELSE "ja3Compression"
    /\ UNCHANGED <<end, tls, tlsRest>>

\* Bug: a hello without extensions has no fingerprint.
Ja3CompressionStrict ==
    /\ at = "ja3Compression"
    /\ \E methods \in Field(cur, Claims(end - cur - 1)) :
         LET exts == cur + 1 + methods
         IN  IF exts + 2 > end
             THEN Proceed("nextRecord", cur + 1, end) /\ UNCHANGED <<cur, end, known>>
             ELSE \E length \in Field(exts, Claims(end - exts - 2)) :
                    /\ known' = Noted(Noted(known, cur, methods), exts, length)
                    /\ cur' = exts + 2 /\ end' = Min2(end, exts + 2 + length)
                    /\ Proceed("ja3Extension", cur + 1, end)
    /\ UNCHANGED <<tls, tlsRest>>

Ja3Compression ==
    /\ at = "ja3Compression"
    /\ \E methods \in Field(cur, Claims(end - cur - 1)) :
         LET exts == cur + 1 + methods
         IN  IF exts + 2 > end
             THEN Proceed("ja3Made", cur + 1, end) /\ UNCHANGED <<cur, end, known>>
             ELSE \E length \in Field(exts, Claims(end - exts - 2)) :
                    /\ known' = Noted(Noted(known, cur, methods), exts, length)
                    /\ cur' = exts + 2 /\ end' = Min2(end, exts + 2 + length)
                    /\ Proceed("ja3Extension", cur + 1, end)
    /\ UNCHANGED <<tls, tlsRest>>

\* Bug: the extension's length does not bound the point formats.
Ja3ExtensionUnbounded ==
    /\ at = "ja3Extension"
    /\ IF cur + 4 > end
       THEN at' = "ja3Made" /\ UNCHANGED <<cur, known>>
       ELSE \E id \in Field(cur, ExtensionIds), length \in Field(cur + 2, Claims(end - cur - 4)) :
              LET value == cur + 4
              IN  /\ known' = Noted(Noted(known, cur, id), cur + 2, length)
                  /\ cur' = value + length
                  /\ IF value + length > end THEN at' = "ja3Made"
                     ELSE IF id = "points" /\ length >= 1
                     THEN \E points \in Claims(length) : Proceed("ja3Extension", value + 1 + points, end)
                     ELSE at' = "ja3Extension"
    /\ UNCHANGED <<end, tls, tlsRest>>

\* Of ec_point_formats it indexes as many bytes as the first one says, but
\* none behind the extension.
Ja3Extension ==
    /\ at = "ja3Extension"
    /\ IF cur + 4 > end
       THEN at' = "ja3Made" /\ UNCHANGED <<cur, known>>
       ELSE \E id \in Field(cur, ExtensionIds), length \in Field(cur + 2, Claims(end - cur - 4)) :
              LET value == cur + 4
              IN  /\ known' = Noted(Noted(known, cur, id), cur + 2, length)
                  /\ cur' = value + length
                  /\ IF value + length > end THEN at' = "ja3Made"
                     ELSE IF id = "points" /\ length >= 1
                     THEN \E points \in Claims(length - 1) :
                            Proceed("ja3Extension", value + 1 + Min2(points, length - 1), end)
                     ELSE at' = "ja3Extension"
    /\ UNCHANGED <<end, tls, tlsRest>>

Ja3Made ==
    /\ at = "ja3Made"
    /\ at' = "nextRecord"
    /\ tls' = [tls EXCEPT !.prints = @ + 1]
    /\ meta' = meta \cup {"ja3"}
    /\ tags' = tags \cup {"ja3"}
    /\ UNCHANGED <<size, link, pos, cur, end, known, layers, protocol, ipProto>>

TlsNext ==
    \/ Record \/ NextRecord \/ TlsDone
    \/ Handshake \/ AfterHandshake
    \/ ClientHello \/ Ciphers \/ Compression \/ Extension \/ HelloShown
    \/ ServerHello \/ ServerExtension
    \/ Ja3 \/ Ja3Ciphers \/ Ja3Compression \/ Ja3Extension \/ Ja3Made
=============================================================================
