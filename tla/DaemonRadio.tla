------------------------------ MODULE DaemonRadio ------------------------------
(***************************************************************************)
(* A daemon and what the radio gives it: packets, whole or cut short, that  *)
(* become entries of the packet log and sightings of nodes, and replies of  *)
(* remote nodes (the event branch of mesh_task::run, request_telemetry,     *)
(* request_region_hierarchy).  With the log goes what each entry was made   *)
(* of, for the properties.                                                  *)
(***************************************************************************)
EXTENDS DaemonLifecycle, PacketView, ReplyDecoding

CONSTANTS
    Messages,         \* what nodes send, see Transmitted
    Telemetries,      \* lists of sensors
    Hierarchies,      \* lists of regions of a remote node
    Paddings,         \* zero bytes found behind a telemetry payload
    PublicName, PublicPsk,    \* the channel every firmware knows
    HashtagChannels,  \* the configured channels, in order
    Regions,          \* the configured regions, in order
    Nodes,            \* what is known of the contacts: [prefix, managed]
    Times,            \* what the clock may say
    MaxPackets        \* bound: packets in a log, below packet_log_capacity

\* What may be overheard is what the packets tell, whole or cut short.
ASSUME HeardAssumption ==
    \A m \in Messages : \A n \in 0..Len(Transmitted(m)) :
        LET node == ExtractDiscoveredNode(Parse(FirstBytes(Transmitted(m), n)))
        IN  node # None /\ Kept(node[1].type) => node[1] \in Sightings

\* What is configured comes in an order.
ASSUME ConfiguredAssumption ==
    /\ HashtagChannels \in Seq(ToSet(HashtagChannels))
    /\ Regions \in Seq(ToSet(Regions))

\* Packets are what a node can send; the transport code of a scoped one is that of
\* its region.
ASSUME MessagesAssumption ==
    \A m \in Messages :
        /\ Framed(m) /\ WellFormed(m)
        /\ m.region # None =>
              /\ Len(m.codes) >= 2
              /\ FirstBytes(m.codes, 2) = CalcTransportCode(SHA256(m.region[1]), m.payload_type, Payload(m))

Cipher(m) == Encrypt(m.secret, Plaintext(m.text[1]))

\* The cipher keeps the length of whole blocks, and decrypting undoes it.
ASSUME CipherAssumption ==
    \A m \in Messages : m.text # None =>
        /\ Cipher(m) \in Seq(Byte) /\ Len(Cipher(m)) = Len(Plaintext(m.text[1]))
        /\ Decrypt(m.secret, Cipher(m)) = Plaintext(m.text[1])
        /\ HMAC(m.secret, Cipher(m)) \in Seq(Byte)
        /\ Len(HMAC(m.secret, Cipher(m))) = CIPHER_MAC_SIZE

\* The code of a message tells its key and its end: no configured channel on the same
\* byte makes it of the first blocks.
ASSUME MacAssumption ==
    \A m \in Messages : m.text # None =>
        \A k \in ToSet(ChannelKeys(HashtagChannels, PublicName, PublicPsk)) :
            \A n \in 1..Len(Cipher(m)) :
                /\ k.hash = HashByte(m.secret) /\ n % CIPHER_KEY_SIZE = 0
                /\ HMAC(k.secret, FirstBytes(Cipher(m), n)) = HMAC(m.secret, Cipher(m))
                => k.secret = m.secret /\ n = Len(Cipher(m))

VARIABLES
    received,     \* the last reply read, and what was sent; or "packet"
    packets       \* AppState.packet_log of each process, newest first

radioVars == <<vars, received, packets>>

Nothing == [kind |-> "nothing"]

Listening(p) == phase[p] \in Working /\ pending[p] = NoSighting

\* The event branch: the node behind an advertisement, then the entry, with the
\* next packet ID of the process.  (A quantifier over one value names it, as a
\* binding of the code does.)
ReceivePacket(p, m, raw, whole, at) ==
    \E event \in {Parse(raw)} : \E node \in {ExtractDiscoveredNode(event)} :
        LET repeater == IF node = None THEN FALSE ELSE Kept(node[1].type)
            entry == Keyed(BuildPacketLogEntry(Len(packets[p]) + 1, at, event))
        IN  /\ Listening(p)
            /\ Len(packets[p]) < MaxPackets
            /\ IF repeater THEN WriteSighting(p, node[1]) ELSE UNCHANGED vars
            /\ received' = [kind |-> "packet"]
            /\ packets' = [packets EXCEPT ![p] =
                    <<[sent |-> m, raw |-> raw, whole |-> whole, entry |-> entry]>> \o @]

ReceiveTelemetry(p, sensors, bytes, whole) ==
    /\ Listening(p)
    /\ received' = [kind |-> "telemetry", sent |-> sensors, whole |-> whole,
                    readings |-> decode(bytes)]
    /\ UNCHANGED <<vars, packets>>

ReceiveRegions(p, rs, text, whole) ==
    /\ Listening(p)
    /\ received' = [kind |-> "regions", sent |-> rs, whole |-> whole,
                    entries |-> parse_region_hierarchy(text)]
    /\ UNCHANGED <<vars, packets>>

\* Everything sent, cut at every byte; zeros only follow a whole payload.
Receive(p) ==
    \/ \E m \in Messages, at \in Times : \E bytes \in {Transmitted(m)} : \E n \in 0..Len(bytes) :
          \E raw \in {FirstBytes(bytes, n)} : ReceivePacket(p, m, raw, n = Len(bytes), at)
    \/ \E sensors \in Telemetries :
          \E bytes \in {FlattenSeq([i \in DOMAIN sensors |-> Encoded(sensors[i])])} :
          \/ \E n \in 0..Len(bytes) : \E raw \in {FirstBytes(bytes, n)} :
                ReceiveTelemetry(p, sensors, raw, n = Len(bytes))
          \/ \E padding \in Paddings : \E raw \in {bytes \o [i \in 1..padding |-> 0]} :
                ReceiveTelemetry(p, sensors, raw, TRUE)
    \/ \E rs \in Hierarchies, eol \in {<<NL>>, <<CR, NL>>} :
          \E text \in {RegionText(rs, eol)} : \E n \in 0..Len(text) :
              \E cut \in {FirstBytes(text, n)} : ReceiveRegions(p, rs, cut, n = Len(text))

RadioInit ==
    /\ Init
    /\ received = Nothing
    /\ packets = [p \in Pids |-> <<>>]

\* The log is in memory: it is gone with its process.
Proceed(p) ==
    /\ Live(p) \/ MirrorSighting(p)
    /\ received' = Nothing
    /\ packets' = [packets EXCEPT ![p] = IF phase'[p] = "none" THEN <<>> ELSE @]

RadioNext == \E p \in Pids : Receive(p) \/ Proceed(p)

RadioSpec == RadioInit /\ [][RadioNext]_radioVars

-----------------------------------------------------------------------------
(* A field read is the field sent; only a packet cut short, or of a version *)
(* that is not understood, may leave it out.                                *)
Read(field, sent, whole) == field = sent \/ (field = None /\ ~ whole)

SameControl(read, sent, whole) ==
    CASE read.kind = "none" -> sent.kind = "none" \/ ~ whole
      [] read.kind = "DiscoverReq" ->
           /\ read = [sent EXCEPT !.since = read.since]
           /\ Read(read.since, sent.since, whole)
      [] OTHER ->
           /\ read = [sent EXCEPT !.pubkey = read.pubkey]
           /\ IsPrefix(read.pubkey, sent.pubkey)
           /\ whole => read.pubkey = sent.pubkey

SameAdvert(read, sent, whole) ==
    IF read = None THEN sent = None \/ ~ whole
    ELSE /\ read[1].key = sent[1].key
         /\ whole => read = sent
         /\ read[1].pos \in {NoPosition, sent[1].pos}

\* The channel a text was sent on, if its key is configured.
SameText(read, m, whole, keys) ==
    LET channels == {k \in ToSet(keys) : k.secret = m.secret}
        sent == {<<[channel |-> k.name, text |-> m.text[1]]>> : k \in channels}
    IN  IF m.text = None \/ channels = {} THEN read = None
        ELSE read \in sent \/ (read = None /\ ~ whole)

\* What is published tells the packet's own length, bytes and route.
PublishedAsHeard(e, m, raw) ==
    LET capture == PacketTraficJson(e)[1]
    IN  /\ capture.len = Len(raw)
        /\ capture.raw = UpTo(raw, PublishedSize)
        /\ capture.route = IF m.route_type \in {Direct, TransportDirect} THEN None
                           ELSE <<Len(m.path) \div m.path_hash_size>>
        /\ RawJson(e) = raw

(* Every packet, cut short anywhere: the entry gives the packet's bytes     *)
(* back exactly, so that what is published is the packet, and what it says  *)
(* of addresses, channel, sender, node, discovery, channel text and region  *)
(* is what the sender meant, or nothing (build_packet_log_entry and the     *)
(* functions it calls, reconstruct_raw_packet_hex, packet_trafic_json,      *)
(* decode_group_text, matching_region_name).  Of two regions whose codes    *)
(* collide the first configured one is named.                               *)
ReadsWhatWasSent ==
    received.kind = "packet" => \A p \in Running : packets[p] # <<>> =>
        LET r == packets[p][1]
            m == r.sent
            e == r.entry
            h == e.header[1]
            whole == r.whole /\ m.payload_version = 0
            keys == ChannelKeys(HashtagChannels, PublicName, PublicPsk)
            region == MatchingRegionName(e, Regions)
        IN  IF e.header = None THEN ~ r.whole
            ELSE /\ PublishedAsHeard(e, m, r.raw)
                 /\ Read(h.dest, m.dest, whole)
                 /\ Read(h.src, m.src, whole)
                 /\ Read(h.channel, m.channel, whole)
                 /\ Read(h.sender, m.sender, whole)
                 /\ SameControl(h.control, m.control, whole)
                 /\ SameAdvert(h.advert, m.advert, r.whole)
                 /\ SameText(DecodeGroupText(e, keys), m, whole, keys)
                 /\ r.whole /\ m.region # None /\ m.region[1] \in ToSet(Regions) =>
                       /\ region # None
                       /\ CalcTransportCode(SHA256(region[1]), m.payload_type, Payload(m))
                            = FirstBytes(m.codes, 2)

\* Of a transmission, by what was sent: does a managed repeater stand at one of
\* its ends, or did one relay one of its receptions.
Stands(m) == \E end \in {m.dest, m.src} \ {None} : IsManaged(end, Nodes)
Relayed(m) ==
    \E i \in 1..(Len(m.path) \div m.path_hash_size) :
        IsManaged(SubSeq(m.path, (i - 1) * m.path_hash_size + 1, i * m.path_hash_size), Nodes)

\* What the row and the popup have to tell of a packet's content.
Readable(m, keys) == m.text # None /\ \E k \in ToSet(keys) : k.secret = m.secret

SummaryTells(summary, m, keys) ==
    CASE m.advert # None ->
           \A f \in {"type", "name", "pos"} : summary[f] = m.advert[1][f]
      [] Readable(m, keys) -> summary.text = m.text[1]
      [] m.sender # None -> IsPrefix(summary.sender, m.sender)
      [] m.control # NoControl -> \A f \in DOMAIN summary : summary[f] = m.control[f]
      [] OTHER -> summary = [size |-> Len(Payload(m))]

ContentTells(content, m, keys) ==
    CASE m.advert # None -> content = m.advert[1]
      [] Readable(m, keys) -> content.text = m.text[1]
      [] m.control # NoControl -> content = m.control
      [] OTHER -> content.sender = m.sender /\ IsPrefix(content.raw, Payload(m))

(* The rows and popups of the packet log page.  Every reception is behind   *)
(* one row; the row counts them all, spans the fewest to the most hops any  *)
(* of them took, points to the node or the channel it was sent to, and is   *)
(* coloured for a managed repeater at either end of the transmission before *)
(* one on any of its paths.  The popup lists each reception with its own    *)
(* path or counts it, and says that nobody repeats the packet only when its *)
(* sender has asked for that (packet_group_row, draw_packet_detail_popup,   *)
(* endpoint_is_managed_repeater, relayed_by_managed_repeater).              *)
ShownAsHeard ==
    received.kind = "packet" => \A p \in Running : packets[p] # <<>> =>
        LET entries == [i \in DOMAIN packets[p] |-> packets[p][i].entry]
            keys == ChannelKeys(HashtagChannels, PublicName, PublicPsk)
            page == PacketLogPage(entries, Nodes, keys)
            groups == GroupPackets(entries)
            receptions(group) ==
                {r \in ToSet(packets[p]) : r.entry \in ToSet(group) /\ r.entry.header # None}
            right(group, row, popup, ms, m) ==
                LET hops == {Len(x.path) \div x.path_hash_size : x \in ms}
                IN  /\ row.hops = <<Min(hops), Max(hops)>>
                    /\ m.payload_version = 0 =>
                          /\ row.dest = IF m.channel # None THEN [channel |-> m.channel]
                                        ELSE [node |-> m.dest]
                          /\ row.highlight =
                                CASE \E x \in ms : Stands(x) -> "endpoint"
                                  [] \A x \in ms : ~ Stands(x) /\ ~ Relayed(x) -> "none"
                                  [] OTHER -> "relayed"
                          /\ SummaryTells(row.summary, m, keys)
                          /\ ContentTells(popup.content, m, keys)
                    /\ (popup.header[1].transport = <<[shared |-> TRUE]>>)
                          <=> (m.codes # <<>> /\ ToSet(m.codes) = {0})
        IN  /\ FoldLeft(LAMBDA n, row : n + row.count, 0, page.rows) = Len(entries)
            /\ \A g \in DOMAIN groups :
                  \E rs \in {receptions(groups[g])}, row \in {page.rows[g]},
                     popup \in {PacketDetailPopup(groups[g], Regions, keys)} :
                      /\ Len(popup.lines) + popup.more = row.count
                      /\ \A i \in DOMAIN popup.lines : \A r \in rs :
                            r.entry = groups[g][i] => FlattenSeq(popup.lines[i].path) = r.sent.path
                      /\ rs # {} /\ (\A r \in rs : r.whole) =>
                            \A latest \in {r \in rs : r.entry = groups[g][1]} :
                                right(groups[g], row, popup, {r.sent : r \in rs}, latest.sent)

(* A telemetry payload, cut short, padded with zeros or holding a sensor    *)
(* the program does not know: the readings are the first ones sent, all of  *)
(* them up to that sensor when nothing is cut.  A list of regions cut short *)
(* is read right in every line but the last                                 *)
(* (telemetry::decode, parse_region_hierarchy).                             *)
RepliesRead ==
    /\ received.kind = "telemetry" =>
          LET known(s) == s.type = LPP_GPS \/ \E t \in TYPES : t.code = s.type
              sensors == received.sent
              strange == {i \in DOMAIN sensors : ~ known(sensors[i])}
              understood == IF strange = {} THEN sensors
                            ELSE SubSeq(sensors, 1, Min(strange) - 1)
              meant == FlattenSeq([i \in DOMAIN understood |-> Meant(understood[i])])
          IN  /\ IsPrefix(received.readings, meant)
              /\ received.whole => received.readings = meant
    /\ received.kind = "regions" =>
          LET meant == [i \in DOMAIN received.sent |-> RegionMeant(received.sent[i])]
              read == received.entries
          IN  /\ Len(read) <= Len(meant)
              /\ \A i \in DOMAIN read : i < Len(read) => read[i] = meant[i]
              /\ received.whole => read = meant
=============================================================================
