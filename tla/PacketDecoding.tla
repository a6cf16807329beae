---------------------------- MODULE PacketDecoding ----------------------------
(***************************************************************************)
(* What the program reads in a packet the radio has received: the packet    *)
(* log's entry (core/src/mesh.rs), the node behind an advertisement, the    *)
(* text of a channel (core/src/channel.rs) and the region of a transport    *)
(* code (core/src/region.rs), over the primitives of meshcore_crypto.rs.    *)
(*                                                                         *)
(* Bytes are numbers, hex strings the bytes they stand for.  An option is a *)
(* sequence of at most one element; the bytes of an optional field that is  *)
(* absent are the empty sequence.  Ciphers and hashes are constants.        *)
(***************************************************************************)
EXTENDS Integers, Sequences, SequencesExt

CONSTANTS
    PUB_KEY_SIZE,        \* bytes of a public key: 32 in the code
    ShortKeySize,        \* bytes of a key in a short discovery answer: 8
    WordSize,            \* bytes of a tag and of a time: 4
    TransportCodeSize,   \* two halves of two bytes: 4
    CIPHER_MAC_SIZE,     \* 2
    CIPHER_KEY_SIZE,     \* bytes of a cipher block: 16
    SHA256(_),           \* a name to a key of 16 bytes
    WithHash(_),         \* a name, with its leading # if it has none
    HashByte(_),         \* a key to the byte that names its channel
    HMAC(_, _),          \* key, bytes: the CIPHER_MAC_SIZE first bytes
    CodeOf(_, _, _),     \* key, payload type, payload: a code of 16 bits
    Encrypt(_, _), Decrypt(_, _)     \* key, bytes

ASSUME SizesAssumption ==
    /\ {PUB_KEY_SIZE, ShortKeySize, CIPHER_MAC_SIZE, CIPHER_KEY_SIZE} \subseteq Nat \ {0}
    /\ WordSize \in Nat \ {0, 1} /\ TransportCodeSize \in Nat
    /\ ShortKeySize < PUB_KEY_SIZE

\* Route types and payload types, by their numbers on the air.
TransportFlood == 0
TransportDirect == 3
Req == 0
Response == 1
TextMsg == 2
Advert == 4
GroupText == 5
GroupData == 6
AnonReq == 7
PathReturn == 8
Control == 11

None == <<>>
FirstBytes(bytes, n) == SubSeq(bytes, 1, n)
From(bytes, n) == SubSeq(bytes, n + 1, Len(bytes))

\* u32::from_le_bytes, and a byte read as i8.
from_le_bytes(bytes) ==
    LET value[k \in 0..Len(bytes)] ==      \* of the k last bytes
            IF k = 0 THEN 0 ELSE bytes[Len(bytes) + 1 - k] + 256 * value[k - 1]
    IN  value[Len(bytes)]
AsSigned(byte) == IF byte >= 128 THEN byte - 256 ELSE byte

-----------------------------------------------------------------------------
(* External: the firmware's packets and the library's parser.  A packet is  *)
(* what its sender means; fields it does not have are absent.  A node's     *)
(* discovery is a Control payload, [kind, ...].                             *)

NoControl == [kind |-> "none"]

\* A number without its lowest bytes, for each count of them.
Shifted(n) ==
    LET rest[k \in 0..WordSize] == IF k = 0 THEN n ELSE rest[k - 1] \div 256
    IN  rest

ToLittleEndian(n) == [i \in 1..WordSize |-> Shifted(n)[i - 1] % 256]

ControlBytes(c) ==
    CASE c.kind = "DiscoverReq" ->
           <<IF c.prefix_only THEN 129 ELSE 128, c.type_filter>> \o c.tag
             \o (IF c.since = None THEN <<>> ELSE ToLittleEndian(c.since[1]))
      [] c.kind = "DiscoverResp" ->
           <<144 + c.node_type, c.snr % 256>> \o c.tag \o c.pubkey
      [] OTHER -> <<>>

AdvertBytes(advert) ==
    IF advert = None THEN <<>>
    ELSE advert[1].key \o <<advert[1].type, advert[1].pos, advert[1].name>>

\* BaseChatMesh::sendGroupMessage: time, type, text, padded to whole blocks.
Plaintext(text) ==
    LET plain == ToLittleEndian(1) \o <<0>> \o text
        short == (CIPHER_KEY_SIZE - (Len(plain) % CIPHER_KEY_SIZE)) % CIPHER_KEY_SIZE
    IN  plain \o [i \in 1..short |-> 0]

ChannelBytes(m) ==
    IF m.text = None THEN m.channel
    ELSE LET cipher == Encrypt(m.secret, Plaintext(m.text[1]))
         IN  m.channel \o HMAC(m.secret, cipher) \o cipher

Payload(m) ==
    m.dest \o m.src \o ChannelBytes(m) \o m.sender \o AdvertBytes(m.advert)
      \o ControlBytes(m.control) \o m.body

HeaderByte(h) == (h.payload_version * 64 + (h.payload_type % 16) * 4 + (h.route_type % 4)) % 256

\* What a node can send: a header whose fields fit their bits and a path of whole
\* hashes, before the fields of the payload's type and no others.
Byte == 0..255

Framed(m) ==
    /\ m.route_type \in 0..3 /\ m.payload_type \in 0..15 /\ m.payload_version \in 0..3
    /\ m.codes \in Seq(Byte)
    /\ Len(m.codes) = IF m.route_type \in {TransportFlood, TransportDirect}
                      THEN TransportCodeSize ELSE 0
    /\ m.path_hash_size \in 1..4 /\ m.path \in Seq(Byte)
    /\ \E hops \in 0..63 : Len(m.path) = hops * m.path_hash_size

ControlOK(c) ==
    \/ /\ c \in [kind : {"DiscoverReq"}, prefix_only : BOOLEAN, type_filter : Byte,
                  tag : Seq(Byte), since : Seq(Nat)]
       /\ Len(c.tag) = WordSize
       /\ c.since = None \/ (Len(c.since) = 1 /\ Shifted(c.since[1])[WordSize] = 0)
    \/ /\ c \in [kind : {"DiscoverResp"}, node_type : 0..15, snr : -128..127,
                  tag : Seq(Byte), pubkey : Seq(Byte)]
       /\ Len(c.tag) = WordSize
       /\ Len(c.pubkey) \in {ShortKeySize, PUB_KEY_SIZE}

AdvertOK(a) ==
    /\ a \in [key : Seq(Byte), type : Byte, pos : Byte, name : Byte]
    /\ Len(a.key) = PUB_KEY_SIZE

Carries(m, types, field, size) ==
    field \in Seq(Byte) /\ Len(field) = IF m.payload_type \in types THEN size ELSE 0

WellFormed(m) ==
    /\ Carries(m, {Req, Response, TextMsg, PathReturn, AnonReq}, m.dest, 1)
    /\ Carries(m, {Req, Response, TextMsg, PathReturn}, m.src, 1)
    /\ Carries(m, {GroupText, GroupData}, m.channel, 1)
    /\ Carries(m, {AnonReq}, m.sender, PUB_KEY_SIZE)
    /\ IF m.payload_type = GroupText
       THEN /\ m.text = <<m.text[1]>> /\ m.text[1] \in Seq(Byte \ {0})
            /\ m.channel = <<HashByte(m.secret)>>
       ELSE m.text = None
    /\ IF m.payload_type = Advert THEN m.advert = <<m.advert[1]>> /\ AdvertOK(m.advert[1])
       ELSE m.advert = None
    /\ IF m.payload_type = Control THEN ControlOK(m.control) ELSE m.control = NoControl
    /\ m.body \in Seq(Byte)
    /\ m.payload_type \in {GroupText, Advert, Control} => m.body = <<>>

\* The whole packet, as the radio gives it.
Transmitted(m) ==
    <<HeaderByte(m)>> \o m.codes
      \o <<(m.path_hash_size - 1) * 64 + (Len(m.path) \div m.path_hash_size)>>
      \o m.path \o Payload(m)

\* An advertisement cut short loses the position and the name it lacks.
ParseAdvert(type, payload) ==
    IF type # Advert \/ Len(payload) <= PUB_KEY_SIZE THEN None
    ELSE LET at(n) == IF Len(payload) >= PUB_KEY_SIZE + n THEN payload[PUB_KEY_SIZE + n] ELSE 0
         IN  <<[key |-> FirstBytes(payload, PUB_KEY_SIZE), type |-> at(1),
                pos |-> at(2), name |-> at(3)]>>

\* parse_mesh_packet_header: no header when the bytes end before the payload.
Parse(raw) ==
    LET nothing == [header |-> None, payload |-> <<>>, advertisement |-> None]
        codes == IF raw[1] % 4 \in {TransportFlood, TransportDirect} THEN TransportCodeSize ELSE 0
        pathByte == raw[2 + codes]
        size == (pathByte \div 64) + 1
        start == 2 + codes + (pathByte % 64) * size
        payload == From(raw, start)
    IN  IF raw = <<>> THEN nothing
        ELSE IF Len(raw) < 2 + codes \/ Len(raw) < start THEN nothing
        ELSE [header |-> <<[route_type |-> raw[1] % 4,
                            payload_type |-> (raw[1] \div 4) % 16,
                            payload_version |-> raw[1] \div 64,
                            path_len |-> pathByte % 64,
                            path_hash_size |-> size,
                            path |-> SubSeq(raw, 3 + codes, start),
                            transport_code |-> SubSeq(raw, 2, 1 + codes)]>>,
              payload |-> payload,
              advertisement |-> ParseAdvert((raw[1] \div 4) % 16, payload)]

-----------------------------------------------------------------------------
(* The fields of the payload.  Only version 0 is understood.                *)

ExtractDestSrcHashes(type, version, payload) ==
    CASE version = 0 /\ type \in {Req, Response, TextMsg, PathReturn} /\ Len(payload) >= 2 ->
           [dest |-> <<payload[1]>>, src |-> <<payload[2]>>]
      [] version = 0 /\ type = AnonReq /\ Len(payload) >= 1 ->
           [dest |-> <<payload[1]>>, src |-> None]
      [] OTHER -> [dest |-> None, src |-> None]

ExtractAnyHash(type, version, payload) ==
    IF version = 0 /\ Len(payload) >= 1 THEN <<payload[1]>> ELSE None

ExtractChannelHash(type, version, payload) ==
    IF version = 0 /\ type \in {GroupText, GroupData} /\ Len(payload) >= 1
    THEN <<payload[1]>> ELSE None

ExtractAnonReqSender(type, version, payload) ==
    IF type = AnonReq /\ version = 0 /\ Len(payload) >= 1 + PUB_KEY_SIZE
    THEN SubSeq(payload, 2, 1 + PUB_KEY_SIZE) ELSE None

\* The key of an answer: whole, or the short one, or none.
AnsweringKey(bytes) ==
    CASE Len(bytes) >= PUB_KEY_SIZE -> FirstBytes(bytes, PUB_KEY_SIZE)
      [] Len(bytes) >= ShortKeySize /\ Len(bytes) < PUB_KEY_SIZE ->
           FirstBytes(bytes, ShortKeySize)
      [] OTHER -> None

DecodeControlPayload(type, version, payload) ==
    LET fixed == 2 + WordSize
        tag == SubSeq(payload, 3, fixed)
        rest == From(payload, fixed)
    IN  IF type # Control \/ version # 0 \/ Len(payload) < fixed THEN NoControl
        ELSE CASE payload[1] \div 16 = 8 ->
                    [kind |-> "DiscoverReq", prefix_only |-> payload[1] % 2 = 1,
                     type_filter |-> payload[2], tag |-> tag,
                     since |-> IF Len(rest) >= WordSize
                               THEN <<from_le_bytes(FirstBytes(rest, WordSize))>> ELSE None]
               [] payload[1] \div 16 = 9 /\ AnsweringKey(rest) # None ->
                    [kind |-> "DiscoverResp", node_type |-> payload[1] % 16,
                     snr |-> AsSigned(payload[2]), tag |-> tag,
                     pubkey |-> AnsweringKey(rest)]
               [] OTHER -> NoControl

\* build_packet_log_entry; the payload's length is that of its bytes.
BuildPacketLogEntry(id, at, event) ==
    LET info(h) ==
            LET t == h.payload_type  v == h.payload_version  p == event.payload
                hashes == ExtractDestSrcHashes(t, v, p)
            IN  [route_type |-> h.route_type, payload_type |-> t, payload_version |-> v,
                 hops |-> h.path_len, path_hash_size |-> h.path_hash_size,
                 path |-> h.path, transport_code |-> h.transport_code,
                 dest |-> hashes.dest, src |-> hashes.src,
                 channel |-> ExtractChannelHash(t, v, p),
                 sender |-> ExtractAnonReqSender(t, v, p),
                 advert |-> event.advertisement,
                 control |-> DecodeControlPayload(t, v, p)]
    IN  [id |-> id, at |-> at, payload |-> event.payload,
         header |-> IF event.header = None THEN None ELSE <<info(event.header[1])>>]

\* reconstruct_raw_packet_hex.
ReconstructRawPacket(entry) ==
    LET h == entry.header[1]
        below == IF h.path_hash_size = 0 THEN 0 ELSE h.path_hash_size - 1
    IN  IF entry.header = None THEN None
        ELSE <<HeaderByte(h)>> \o h.transport_code
               \o <<((below * 64) % 256) + (h.hops % 64)>> \o h.path \o entry.payload

\* extract_discovered_node, and the filter before handle_discovered_node.
ExtractDiscoveredNode(event) ==
    IF event.advertisement = None \/ event.header = None THEN None
    ELSE IF event.header[1].payload_type # Advert THEN None
    ELSE LET a == event.advertisement[1]
         IN  <<[key |-> a.key, name |-> a.name, type |-> a.type, pos |-> a.pos,
                signal |-> 1]>>

-----------------------------------------------------------------------------
(* Channels: candidate keys in order, the well-known one first.             *)

DeriveRegionKey(name) == SHA256(name)

HashtagChannelKey(name) == DeriveRegionKey(WithHash(name))

\* The secret is the key padded with zeros, which the primitives leave out.
GroupChannelSecretAndHash(psk) == [secret |-> psk, hash |-> HashByte(psk)]

ChannelKeys(names, publicName, publicPsk) ==
    LET entry(name, psk) ==
            LET channel == GroupChannelSecretAndHash(psk)
            IN  [name |-> name, secret |-> channel.secret, hash |-> channel.hash]
    IN  <<entry(publicName, publicPsk)>>
          \o [i \in DOMAIN names |-> entry(names[i], HashtagChannelKey(names[i]))]

MacThenDecrypt(secret, bytes) ==
    LET cipher == From(bytes, CIPHER_MAC_SIZE)
    IN  IF \/ Len(bytes) <= CIPHER_MAC_SIZE
           \/ Len(cipher) % CIPHER_KEY_SIZE # 0
           \/ FirstBytes(bytes, CIPHER_MAC_SIZE) # HMAC(secret, cipher)
        THEN None ELSE <<Decrypt(secret, cipher)>>

ParseGroupTextPlaintext(plain) ==
    IF Len(plain) < WordSize + 1 \/ plain[WordSize + 1] \div 4 # 0 THEN None
    ELSE LET text == From(plain, WordSize + 1)
             ends == {i \in DOMAIN text : text[i] = 0}
         IN  <<IF ends = {} THEN text ELSE FirstBytes(text, Min(ends) - 1)>>

\* What one candidate channel makes of a payload.
DecodedBy(k, payload) ==
    IF payload[1] # k.hash THEN None
    ELSE LET plain == MacThenDecrypt(k.secret, Tail(payload))
         IN  IF plain = None THEN None ELSE ParseGroupTextPlaintext(plain[1])

DecodeGroupText(entry, keys) ==
    LET h == entry.header[1]
        hits == {i \in DOMAIN keys : DecodedBy(keys[i], entry.payload) # None}
    IN  IF entry.header = None THEN None
        ELSE IF h.payload_type # GroupText \/ h.payload_version # 0 THEN None
        ELSE IF entry.payload = <<>> \/ hits = {} THEN None
        ELSE LET k == keys[Min(hits)]
             IN  <<[channel |-> k.name, text |-> DecodedBy(k, entry.payload)[1]]>>

-----------------------------------------------------------------------------
(* Regions: the first half of the transport code, a word of two bytes.      *)

AvoidReservedCodes(code) ==
    CASE code = 0 -> 1 [] code = 65535 -> 65534 [] OTHER -> code

CalcTransportCode(key, type, payload) ==
    LET code == AvoidReservedCodes(CodeOf(key, type, payload))
    IN  <<code % 256, code \div 256>>

MatchingRegionName(entry, regions) ==
    LET h == entry.header[1]
        hits == {i \in DOMAIN regions :
                    CalcTransportCode(DeriveRegionKey(regions[i]), h.payload_type, entry.payload)
                      = FirstBytes(h.transport_code, 2)}
    IN  IF entry.header = None THEN None
        ELSE IF Len(h.transport_code) < 2 \/ hits = {} THEN None
        ELSE <<regions[Min(hits)]>>
=============================================================================
