-------------------------------- MODULE Wire --------------------------------
(***************************************************************************)
(* The packets of NAT-PMP and PCP (src/src/wire.js) and who takes them for *)
(* what: a client that has a request in flight (process_packet() of        *)
(* src/src/pmp_session.js) and a gateway (process_packet() of              *)
(* src/src/pmp_server_session.js), or one that only speaks NAT-PMP.  One   *)
(* exchange is a request, what the gateway reads in it, the reply, and what*)
(* the client makes of that; either packet may arrive cut short.           *)
(*                                                                         *)
(* A packet is a sequence of bytes; TLC's integers have 32 bits with sign, *)
(* so an unsigned 32-bit field is a pair of 16-bit halves.  An address is  *)
(* the text the program handles: four numbers, or up to eight groups with a*)
(* gap ("::") somewhere.                                                   *)
(***************************************************************************)
EXTENDS Naturals, Sequences

CONSTANTS
  Asked,     \* the requests made, see Tx in PMPSession
  Foreign,   \* packets of other programs that reach the gateway
  Decision,  \* what the gateway may decide: result, external, lifetime
  ExternalIp,\* what its external address may be, None when it has none
  Now,       \* its epoch, a pair
  Elsewhere, \* an address other than any client's
  Cut,       \* the lengths packets are cut to
  InFlight,  \* requests that may be in flight when a reply to another arrives
  None,      \* nothing yet, a field that is missing
  NaN        \* what reading past the end of a packet gives

VARIABLES
  asked,     \* the request made, None when the packet is foreign
  gateway,   \* "both", or "natpmp" for one that only speaks NAT-PMP
  source,    \* where the gateway sees the request come from
  packet,    \* the packet under way
  whole,     \* it has not been cut
  read,      \* what the gateway made of the request
  decided,   \* its decision
  externalIp,\* its external address when it replied
  inflight,  \* the request in flight when the reply arrives
  heard      \* what the client made of the reply

vars == <<asked, gateway, source, packet, whole, read, decided, externalIp, inflight, heard>>

-----------------------------------------------------------------------------
(* Bytes.                                                                  *)

Byte == 0 .. 255
Half == 0 .. 65535
Word == Half \X Half

W16(v) == <<v \div 256, v % 256>>
W32(v) == W16(v[1]) \o W16(v[2])
R16(b, off) == b[off + 1] * 256 + b[off + 2]
R32(b, off) == IF Len(b) < off + 4 THEN NaN ELSE <<R16(b, off), R16(b, off + 2)>>
Bytes(b, off, n) == SubSeq(b, off + 1, off + n)
Zeros(n) == [i \in 1 .. n |-> 0]

-----------------------------------------------------------------------------
(* Addresses.                                                              *)

V4(quad)             == [quad |-> quad, head |-> <<>>, gap |-> FALSE, tail |-> <<>>]
V6(head, gap, tail)  == [quad |-> <<>>, head |-> head, gap |-> gap, tail |-> tail]
Unspecified          == V6(<<>>, TRUE, <<>>)

FlatGroups(groups) == [i \in 1 .. 2 * Len(groups) |-> W16(groups[(i + 1) \div 2])[2 - (i % 2)]]
Groups(text)       == text.head \o Zeros(8 - Len(text.head) - Len(text.tail)) \o text.tail

\* encode_ip(): the gap stands for the groups that are missing.
EncodeIp(text) ==
  IF text.quad # <<>> THEN Zeros(10) \o <<255, 255>> \o text.quad
  ELSE FlatGroups(Groups(text))

\* The runs of zero groups, as pairs of the first and the last.
ZeroRuns(groups) == {r \in (1 .. 8) \X (1 .. 8) : r[1] < r[2] /\ \A i \in r[1] .. r[2] : groups[i] = 0}

\* The first of the longest ones.
IsGap(groups, r) ==
  /\ r \in ZeroRuns(groups)
  /\ \A q \in ZeroRuns(groups) :
       \/ q[2] - q[1] < r[2] - r[1]
       \/ q[2] - q[1] = r[2] - r[1] /\ r[1] <= q[1]

\* An IPv4 address in the form of an IPv6 one.
Mapped(groups) == groups[6] = 65535 /\ \A i \in 1 .. 5 : groups[i] = 0

DecodeIpFaulty(b, off) ==   \* the last of the longest runs becomes the gap
  LET groups == [i \in 1 .. 8 |-> R16(b, off + 2 * (i - 1))]
      gap    == CHOOSE r \in ZeroRuns(groups) : \A q \in ZeroRuns(groups) :
                  \/ q[2] - q[1] < r[2] - r[1]
                  \/ q[2] - q[1] = r[2] - r[1] /\ q[1] <= r[1] IN
  IF Mapped(groups) THEN V4(Bytes(b, off + 12, 4))
  ELSE IF ZeroRuns(groups) = {} THEN V6(groups, FALSE, <<>>)
  ELSE V6(SubSeq(groups, 1, gap[1] - 1), TRUE, SubSeq(groups, gap[2] + 1, 8))

\* decode_ip(): the first of the longest runs of zero groups becomes the gap.
DecodeIp(b, off) ==
  LET groups == [i \in 1 .. 8 |-> R16(b, off + 2 * (i - 1))]
      gap    == CHOOSE r \in ZeroRuns(groups) : IsGap(groups, r) IN
  IF Mapped(groups) THEN V4(Bytes(b, off + 12, 4))
  ELSE IF ZeroRuns(groups) = {} THEN V6(groups, FALSE, <<>>)
  ELSE V6(SubSeq(groups, 1, gap[1] - 1), TRUE, SubSeq(groups, gap[2] + 1, 8))

\* The texts there are: the operating system gives IPv6 in the form of RFC 5952,
\* and an IPv4 address never as an IPv6 one.
IsAddress(text) ==
  \/ text = V4(text.quad) /\ text.quad \in [1 .. 4 -> Byte]
  \/ /\ text = V6(text.head, TRUE, text.tail)
     /\ text.head \in Seq(Half) /\ text.tail \in Seq(Half)
     /\ Len(text.head) + Len(text.tail) <= 6
     /\ IsGap(Groups(text), <<Len(text.head) + 1, 8 - Len(text.tail)>>)
     /\ ~Mapped(Groups(text))
  \/ /\ text = V6(text.head, FALSE, <<>>) /\ text.head \in [1 .. 8 -> Half]
     /\ ZeroRuns(text.head) = {} /\ ~Mapped(text.head)

\* A request the client may make: only NAT-PMP asks for the address alone.
IsRequest(tx) ==
  /\ tx.kind \in {"map", "probe", "address"} /\ tx.dialect \in {"pcp", "natpmp"}
  /\ tx.kind = "address" => tx.dialect = "natpmp"
  /\ IsAddress(tx.client)
  /\ tx.kind = "map" =>
       /\ tx.protocol \in {"tcp", "udp"} /\ tx.internal \in Half /\ tx.external \in Half
       /\ tx.lifetime \in Word /\ tx.exact \in BOOLEAN /\ tx.nonce \in [1 .. 12 -> Byte]

\* What a gateway may make of a packet: see GatewayReads.
Reading ==
  [kind : {"version", "address", "announce", "malformed", "ignored", "opcode"}]
    \cup [kind : {"map"}, dialect : {"natpmp"}, protocol : {"tcp", "udp"},
          internal : Half, external : Half, lifetime : Word]
    \cup [kind : {"map", "mismatch"}, dialect : {"pcp"}, protocol : {"tcp", "udp", "other"},
          internal : Half, external : Half, lifetime : Word, nonce : Seq(Byte)]

\* A mapping keeps its nonce and no other has it; a MAP request of another
\* program is answered to that program (pmp_server_session.js:544).
ASSUME WireAssumption ==
  /\ \A tx \in Asked \cup InFlight : IsRequest(tx)
  /\ \A tx, ty \in {t \in Asked \cup InFlight : t.kind = "map" /\ t.dialect = "pcp"} :
       tx.nonce = ty.nonce => tx.protocol = ty.protocol /\ tx.internal = ty.internal
  /\ Foreign \subseteq Seq(Byte)
  /\ \A b \in Foreign : Len(b) >= 2 => ~(b[1] = 2 /\ b[2] = 1) /\ ~(b[1] = 0 /\ b[2] \in 1 .. 2)
  /\ Decision \subseteq [result : Byte \ {1}, external : Half, lifetime : Word]
  /\ \A ip \in ExternalIp \ {None} : ip = V4(ip.quad) /\ ip.quad \in [1 .. 4 -> Byte]
  /\ Now \in Word /\ Cut \subseteq Nat
  /\ None \notin Nat \cup Seq(Byte) \cup Reading \cup Asked \cup Decision

-----------------------------------------------------------------------------
(* Requests.                                                               *)

MaxPacketSize == 1100

ProtoNumber == [tcp |-> 6, udp |-> 17]
ProtoName(n) == IF n = 6 THEN "tcp" ELSE IF n = 17 THEN "udp" ELSE "other"

\* An option: its length counts the data without the padding.
Padding(n) == (4 - (n % 4)) % 4
EncodeOption(option) ==
  <<option.code, 0>> \o W16(Len(option.data)) \o option.data \o Zeros(Padding(Len(option.data)))

PreferFailure == [code |-> 2, data |-> <<>>]

\* decode_pcp_options(): whether the options from an offset to the end parse.
OptionsParse(b, off) ==
  LET parse[o \in off .. Len(b) + 3] ==
        o + 4 > Len(b) \/ LET n == R16(b, o + 2) IN
                          o + 4 + n <= Len(b) /\ parse[o + 4 + n + Padding(n)]
  IN  parse[off]

NatpmpMapRequest(tx) ==
  <<0, IF tx.protocol = "udp" THEN 1 ELSE 2>> \o W16(0) \o W16(tx.internal)
    \o W16(IF tx.lifetime = <<0, 0>> THEN 0 ELSE tx.external) \o W32(tx.lifetime)

PcpHeader(opcode, lifetime, client) ==
  <<2, opcode, 0, 0>> \o W32(lifetime) \o EncodeIp(client)

PcpMapRequest(tx) ==
  PcpHeader(1, tx.lifetime, tx.client) \o tx.nonce \o <<ProtoNumber[tx.protocol], 0, 0, 0>>
    \o W16(tx.internal) \o W16(tx.external) \o EncodeIp(Unspecified)
    \o (IF tx.exact THEN EncodeOption(PreferFailure) ELSE <<>>)

\* What send() encodes, in the dialect of the transaction.
Encode(tx) ==
  CASE tx.kind = "map" /\ tx.dialect = "pcp"    -> PcpMapRequest(tx)
    [] tx.kind = "map" /\ tx.dialect = "natpmp" -> NatpmpMapRequest(tx)
    [] tx.kind = "probe" /\ tx.dialect = "pcp"  -> PcpHeader(0, <<0, 0>>, tx.client)
    [] OTHER                                    -> <<0, 0>>

-----------------------------------------------------------------------------
(* The gateway.                                                            *)

Kind(k) == [kind |-> k]

\* decode_natpmp_request() and handle_natpmp().
ReadNatpmp(b) ==
  LET op == b[2] IN
  CASE op >= 128                   -> Kind("ignored")
    [] op = 0                      -> Kind("address")
    [] op \in 1 .. 2 /\ Len(b) < 12 -> Kind("malformed")
    [] op \in 1 .. 2 /\ Len(b) >= 12 ->
         [kind |-> "map", dialect |-> "natpmp", protocol |-> IF op = 1 THEN "udp" ELSE "tcp",
          internal |-> R16(b, 4), external |-> R16(b, 6), lifetime |-> R32(b, 8)]
    [] OTHER                       -> Kind("opcode")

\* decode_pcp_request() and handle_pcp(): a request that names another address
\* than it comes from was translated on its way.
ReadPcp(b, from) ==
  LET op == b[2] IN
  IF Len(b) < 24 \/ Len(b) > MaxPacketSize THEN Kind("malformed")
  ELSE IF op >= 128 THEN Kind("ignored")
  ELSE IF op = 0 THEN Kind(IF OptionsParse(b, 24) THEN "announce" ELSE "malformed")
  ELSE IF op # 1 THEN Kind("opcode")
  ELSE IF Len(b) < 60 \/ ~OptionsParse(b, 60) THEN Kind("malformed")
  ELSE [kind |-> IF DecodeIp(b, 8) = from THEN "map" ELSE "mismatch",
        dialect |-> "pcp", protocol |-> ProtoName(b[37]),
        internal |-> R16(b, 40), external |-> R16(b, 42), lifetime |-> R32(b, 4),
        nonce |-> Bytes(b, 24, 12)]

\* detect_protocol() and process_packet(): what is neither is answered as
\* NAT-PMP answers a version it does not know.
GatewayReads(b, from) ==
  IF Len(b) < 2 THEN Kind("version")
  ELSE IF b[1] = 2 THEN IF gateway = "natpmp" THEN Kind("version") ELSE ReadPcp(b, from)
  ELSE IF b[1] = 0 THEN ReadNatpmp(b) ELSE Kind("version")

UnsupportedVersion == <<0, 0, 0, 1>> \o W32(Now)

\* The request comes back with the response bit and result 5.
UnsupportedOpcode(b) ==
  LET size == IF Len(b) < 8 THEN 8 ELSE Len(b)
      back == b \o Zeros(size - Len(b))
  IN  <<back[1], 128 + b[2], 0, 5>> \o W32(Now) \o SubSeq(back, 9, size)

\* Result 3 (NETWORK_FAILURE) and zeros while there is no external address.
NatpmpAddressResponse(ip) ==
  <<0, 128, 0, IF ip = None THEN 3 ELSE 0>> \o W32(Now) \o (IF ip = None THEN Zeros(4) ELSE ip.quad)

NatpmpMapResponse(r, d) ==
  <<0, 128 + (IF r.protocol = "udp" THEN 1 ELSE 2)>> \o W16(d.result) \o W32(Now)
    \o W16(r.internal) \o W16(d.external) \o W32(d.lifetime)

PcpResponse(opcode, result, lifetime, body) ==
  <<2, 128 + opcode, 0, result>> \o W32(lifetime) \o W32(Now) \o Zeros(12) \o body

PcpMapResponse(r, d, ip) ==
  PcpResponse(1, d.result, d.lifetime,
    r.nonce \o <<ProtoNumber[r.protocol], 0, 0, 0>> \o W16(r.internal) \o W16(d.external)
      \o EncodeIp(ip))

\* A mapping may be granted before the address it is reached at is known.
Told(ip) == IF ip = None THEN Unspecified ELSE ip

AddressMismatch == [result |-> 12, external |-> 0, lifetime |-> <<0, 0>>]

\* A PEER response carries zeros for all it was not given.
Reply(b, r, d, ip) ==
  CASE r.kind = "version"  -> UnsupportedVersion
    [] r.kind = "address"  -> NatpmpAddressResponse(ip)
    [] r.kind = "announce" -> PcpResponse(0, 0, <<0, 0>>, <<>>)
    [] r.kind = "opcode" /\ b[1] = 0 -> UnsupportedOpcode(b)
    [] r.kind = "opcode" /\ b[1] = 2 ->
         PcpResponse(b[2], 4, <<0, 0>>,
                     IF b[2] = 2 THEN Zeros(12) \o <<6>> \o Zeros(43) ELSE <<>>)
    [] r.kind = "mismatch" -> PcpMapResponse(r, AddressMismatch, Unspecified)
    [] r.kind = "map" /\ r.dialect = "natpmp" -> NatpmpMapResponse(r, d)
    [] OTHER               -> PcpMapResponse(r, d, Told(ip))

-----------------------------------------------------------------------------
(* The client.                                                             *)

Bad == Kind("malformed")

Response(kind, opcode, result, epoch) ==
  [kind |-> kind, result |-> result, epoch |-> epoch, protocol |-> None, internal |-> None,
   external |-> None, lifetime |-> None, nonce |-> None, ip |-> None]

\* decode_natpmp_response(): the reply to a version that is not spoken may lack
\* the response bit, an error may lack all that follows its result.
DecodeNatpmp(b) ==
  LET op     == IF b[2] >= 128 THEN b[2] - 128 ELSE b[2]
      result == R16(b, 2) IN
  IF Len(b) < 4 THEN Bad
  ELSE IF b[2] < 128 /\ result # 1 THEN Bad
  ELSE IF op = 0
  THEN IF result = 0 /\ Len(b) < 12 THEN Bad
       ELSE [Response("address", op, result, R32(b, 4)) EXCEPT
               !.ip = IF result = 0 THEN V4(Bytes(b, 8, 4)) ELSE None]
  ELSE IF op > 2 \/ (result = 0 /\ Len(b) < 16) THEN Bad
  ELSE LET msg == [Response("map", op, result, R32(b, 4)) EXCEPT
                     !.protocol = IF op = 1 THEN "udp" ELSE "tcp"]
       IN  IF Len(b) < 16 THEN msg
           ELSE [msg EXCEPT !.internal = R16(b, 8), !.external = R16(b, 10),
                            !.lifetime = R32(b, 12)]

\* decode_pcp_response().
DecodePcp(b) ==
  LET op  == b[2] - 128
      msg == [Response(IF op = 0 THEN "announce" ELSE IF op = 1 THEN "map" ELSE "other",
                       op, b[4], R32(b, 8)) EXCEPT !.lifetime = R32(b, 4)]
      size == IF op = 1 THEN 60 ELSE IF op = 2 THEN 80 ELSE 24 IN
  IF Len(b) < 24 \/ Len(b) > MaxPacketSize THEN Bad
  ELSE IF b[2] < 128 THEN Bad
  ELSE IF Len(b) < size THEN IF msg.result = 0 THEN Bad ELSE msg
  ELSE IF op \in 0 .. 2 /\ ~OptionsParse(b, size) THEN Bad
  ELSE IF op # 1 THEN msg
  ELSE [msg EXCEPT !.nonce = Bytes(b, 24, 12), !.protocol = ProtoName(b[37]),
                   !.internal = R16(b, 40), !.external = R16(b, 42), !.ip = DecodeIp(b, 44)]

MatchesFaulty(tx, m) ==   \* by the kind alone
  IF tx.dialect = "pcp"
  THEN (tx.kind = "probe" /\ m.kind = "announce") \/ (tx.kind = "map" /\ m.kind = "map")
  ELSE (tx.kind # "map" /\ m.kind = "address") \/ (tx.kind = "map" /\ m.kind = "map")

\* DIALECT[...].matches(): an error cut too short to say whose it is belongs to
\* whatever is in flight.
Matches(tx, m) ==
  IF tx.dialect = "pcp"
  THEN \/ tx.kind = "probe" /\ m.kind = "announce"
       \/ tx.kind = "map" /\ m.kind = "map" /\ m.nonce \in {None, tx.nonce}
  ELSE \/ tx.kind # "map" /\ m.kind = "address"
       \/ /\ tx.kind = "map" /\ m.kind = "map"
          /\ m.internal = None \/ (m.internal = tx.internal /\ m.protocol = tx.protocol)

Verdict(v, m) == [verdict |-> v, msg |-> m]

\* process_packet() of the client.
ClientReads(b, tx) ==
  LET dialect == IF b[1] = 2 THEN "pcp" ELSE "natpmp"
      m == IF dialect = "pcp" THEN DecodePcp(b) ELSE DecodeNatpmp(b) IN
  IF Len(b) < 2 \/ b[1] \notin {0, 2} \/ m = Bad THEN Verdict("malformed", None)
  ELSE IF dialect # tx.dialect
  THEN Verdict(IF dialect = "natpmp" /\ m.result = 1 THEN "version" ELSE "ignored", m)
  ELSE IF ~Matches(tx, m) THEN Verdict("ignored", m)
  ELSE Verdict(IF m.result = 1 THEN "version" ELSE IF m.result = 0 THEN "success" ELSE "error", m)

-----------------------------------------------------------------------------
\* A packet arrives whole or cut.
Arrives(b) ==
  \/ packet' = b /\ whole' = TRUE
  \/ \E n \in Cut : n < Len(b) /\ packet' = SubSeq(b, 1, n) /\ whole' = FALSE

Init ==
  /\ gateway \in {"both", "natpmp"}
  /\ asked = None /\ source = None
  /\ packet = None /\ whole = TRUE
  /\ read = None /\ decided = None /\ externalIp = None /\ inflight = None /\ heard = None

Ask(tx) ==
  /\ asked = None /\ packet = None
  /\ asked' = tx
  /\ source' \in {tx.client, Elsewhere}
  /\ Arrives(Encode(tx))
  /\ UNCHANGED <<gateway, read, decided, externalIp, inflight, heard>>

ForeignAsks(b) ==
  /\ asked = None /\ packet = None
  /\ packet' = b
  /\ source' = Elsewhere
  /\ UNCHANGED <<asked, gateway, whole, read, decided, externalIp, inflight, heard>>

\* The gateway reads the request and, unless it drops it, replies with the
\* external address it has by then.
Serve(d, ip) ==
  /\ packet # None /\ read = None
  /\ read' = GatewayReads(packet, source)
  /\ decided' = IF read'.kind = "map" THEN d ELSE None
  /\ externalIp' = ip
  /\ IF read'.kind \in {"malformed", "ignored"} THEN UNCHANGED <<packet, whole>>
     ELSE IF whole THEN Arrives(Reply(packet, read', d, ip))
     ELSE packet' = Reply(packet, read', d, ip) /\ UNCHANGED whole
  /\ UNCHANGED <<asked, gateway, source, inflight, heard>>

\* The reply reaches the client, which has this or another request in flight.
Hear(tx) ==
  /\ read # None /\ heard = None
  /\ read.kind \notin {"malformed", "ignored"}
  /\ inflight' = tx
  /\ heard' = ClientReads(packet, tx)
  /\ UNCHANGED <<asked, gateway, source, packet, whole, read, decided, externalIp>>

Next ==
  \/ \E tx \in Asked : Ask(tx)
  \/ \E tx \in InFlight \cup ({asked} \ {None}) : Hear(tx)
  \/ \E b \in Foreign : ForeignAsks(b)
  \/ \E d \in Decision, ip \in ExternalIp : Serve(d, ip)

Spec == Init /\ [][Next]_vars

-----------------------------------------------------------------------------
(* What each side makes of the other's packet.                             *)

\* What the gateway takes for a map request has the fields that were asked for,
\* wherever the packet was cut, and names a translated address only if it came
\* from another one; the port to give up is not asked for by number in NAT-PMP
\* (wire.js:488).
RequestIsRead ==
  asked # None /\ read # None /\ read.kind \in {"map", "mismatch"} =>
    /\ asked.kind = "map" /\ read.dialect = asked.dialect
    /\ read.protocol = asked.protocol /\ read.internal = asked.internal
    /\ read.lifetime = asked.lifetime
    /\ read.external = IF asked.dialect = "natpmp" /\ asked.lifetime = <<0, 0>> THEN 0
                       ELSE asked.external
    /\ asked.dialect = "pcp" => /\ read.nonce = asked.nonce
                                /\ (read.kind = "mismatch") = (source # asked.client)

\* A client takes a reply for the success of its map request only if a request
\* for that mapping was granted, and reads in it what was decided, whatever reply
\* arrives and wherever it was cut; the epoch it observes is the gateway's unless
\* the packet ends before it (pmp_session.js:113 and 163).
HeardIsSaid ==
  /\ RequestIsRead
  /\ heard # None /\ heard.msg # None /\ Len(packet) >= 8 => heard.msg.epoch = Now
  /\ heard # None /\ heard.verdict = "success" /\ inflight.kind = "map" =>
       /\ asked # None /\ decided # None /\ decided.result = 0
       /\ asked.kind = "map" /\ asked.dialect = inflight.dialect
       /\ asked.protocol = inflight.protocol /\ asked.internal = inflight.internal
       /\ asked.dialect = "pcp" => asked.nonce = inflight.nonce /\ heard.msg.ip = Told(externalIp)
       /\ heard.msg.external = decided.external /\ heard.msg.lifetime = decided.lifetime

\* Packets that arrive whole do what they were sent for: the gateway drops no
\* request of this client, a request that was translated is told so, a decision
\* arrives as what it is, a NAT-PMP client is told when there is no external
\* address (pmp_server_session.js:412), and a gateway that only speaks NAT-PMP
\* makes a client that asked in PCP change dialects at once (wire.js:517,
\* pmp_session.js:480).
AnswerFits ==
  /\ asked # None /\ read # None /\ whole => read.kind \notin {"malformed", "ignored"}
  /\ asked # None /\ heard # None /\ whole /\ inflight = asked =>
       IF asked.dialect = "pcp" /\ gateway = "natpmp" THEN heard.verdict = "version"
       ELSE IF asked.kind # "map" /\ asked.dialect = "natpmp" /\ externalIp = None
       THEN heard.verdict = "error" /\ heard.msg.result = 3
       ELSE IF asked.kind # "map" THEN heard.verdict = "success"
       ELSE IF asked.dialect = "pcp" /\ source # asked.client
       THEN heard.verdict = "error" /\ heard.msg.result = 12
       ELSE /\ decided # None
            /\ heard.verdict = IF decided.result = 0 THEN "success" ELSE "error"
            /\ heard.msg.result = decided.result
=============================================================================
