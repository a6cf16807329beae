------------------------------ MODULE PacketView ------------------------------
(***************************************************************************)
(* What is made of the packet log's entries: a row for each transmission on *)
(* the packet log page and the popup behind it (cli/src/tui/ui.rs,          *)
(* packet_group.rs), and the messages published for each packet             *)
(* (daemon/src/mqtt.rs).  A cell is the value it spells; styles, headings,  *)
(* units and dates are left out.                                            *)
(***************************************************************************)
EXTENDS PacketDecoding, PacketGroups, FiniteSetsExt

CONSTANTS
    ShownKeySize,         \* bytes of a sender's key in a summary: 6
    ShownPayloadSize,     \* bytes of a payload shown raw: 48
    MAX_SHOWN_RECEPTIONS, \* 12
    PublishedSize         \* bytes of a packet published: 1024

Direct == 2

UpTo(bytes, n) == FirstBytes(bytes, Min({n, Len(bytes)}))

\* group_key.
GroupKey(entry) ==
    IF entry.header = None THEN Undecoded
    ELSE <<entry.header[1].payload_type, entry.payload>>

Keyed(entry) == [id |-> entry.id, at |-> entry.at, key |-> GroupKey(entry),
                 header |-> entry.header, payload |-> entry.payload]

-----------------------------------------------------------------------------
(* A group of entries (newest first) and the managed repeaters.             *)

\* hash_matches_a_managed_repeater.
IsManaged(hash, contacts) == \E c \in contacts : c.managed /\ IsPrefix(hash, c.prefix)

\* No hops when the path is not made of whole hashes.
PathHopHashes(path, size) ==
    IF size = 0 \/ Len(path) % size # 0 THEN None
    ELSE [i \in 1..(Len(path) \div size) |-> SubSeq(path, (i - 1) * size + 1, i * size)]

Headers(group) == {group[i].header[1] : i \in {i \in DOMAIN group : group[i].header # None}}

EndpointIsManaged(group, contacts) ==
    /\ group[1].header # None
    /\ LET h == group[1].header[1]
       IN  \E end \in {h.dest, h.src} \ {None} : IsManaged(end, contacts)

RelayedByManaged(group, contacts) ==
    \E h \in Headers(group) :
        \E hop \in ToSet(PathHopHashes(h.path, h.path_hash_size)) : IsManaged(hop, contacts)

\* (Faulty variant: having relayed a packet comes before being its end.)
RelayFirst(group, contacts) ==
    CASE RelayedByManaged(group, contacts) -> "relayed"
      [] ~ RelayedByManaged(group, contacts) /\ EndpointIsManaged(group, contacts) -> "endpoint"
      [] OTHER -> "none"

PacketRowHighlight(group, contacts) ==
    CASE EndpointIsManaged(group, contacts) -> "endpoint"
      [] ~ EndpointIsManaged(group, contacts) /\ RelayedByManaged(group, contacts) -> "relayed"
      [] OTHER -> "none"

\* The fewest and the most hops of the receptions.
HopsRange(group) ==
    LET hops == {h.hops : h \in Headers(group)}
    IN  IF hops = {} THEN None ELSE <<Min(hops), Max(hops)>>

DestinationCell(header) ==
    IF header = None THEN [node |-> None]
    ELSE IF header[1].dest = None /\ header[1].channel # None
         THEN [channel |-> header[1].channel] ELSE [node |-> header[1].dest]

-----------------------------------------------------------------------------
(* The first of several things an entry may tell is the one that is shown.  *)

\* Applied to what an option holds.
OptionMap(F(_), option) == [i \in DOMAIN option |-> F(option[i])]

ControlSummary(c) ==
    IF c.kind = "DiscoverReq" THEN [type_filter |-> c.type_filter]
    ELSE [node_type |-> c.node_type, snr |-> c.snr]

ControlOf(h) == IF h.control = NoControl THEN None ELSE <<h.control>>

PacketSummary(entry, keys) ==
    LET h == entry.header[1]
        advert(a) == [type |-> a.type, name |-> a.name, pos |-> a.pos]
        sender == IF h.sender = None THEN None ELSE <<[sender |-> UpTo(h.sender, ShownKeySize)]>>
    IN  IF entry.header = None THEN [undecodable |-> Len(entry.payload)]
        ELSE Head(OptionMap(advert, h.advert) \o DecodeGroupText(entry, keys) \o sender
                    \o OptionMap(ControlSummary, ControlOf(h))
                    \o <<[size |-> Len(entry.payload)]>>)

\* packet_group_row: what the receptions share is read in the latest.
PacketGroupRow(group, contacts, keys) ==
    LET latest == group[1]
        h == latest.header
    IN  [at |-> latest.at,
         route |-> IF h = None THEN None ELSE <<h[1].route_type>>,
         type |-> IF h = None THEN None ELSE <<h[1].payload_type>>,
         src |-> IF h = None THEN None ELSE h[1].src,
         dest |-> DestinationCell(h),
         hops |-> HopsRange(group),
         count |-> Len(group),
         summary |-> PacketSummary(latest, keys),
         highlight |-> PacketRowHighlight(group, contacts)]

\* draw_packet_log_page: the receptions are counted in the title when a row
\* stands for several.
PacketLogPage(packets, contacts, keys) ==
    LET groups == GroupPackets(packets)
        receptions == FoldLeft(LAMBDA n, g : n + Len(g), 0, groups)
    IN  [rows |-> [g \in DOMAIN groups |-> PacketGroupRow(groups[g], contacts, keys)],
         title |-> IF receptions > Len(groups) THEN <<Len(groups), receptions>>
                   ELSE <<Len(groups)>>]

-----------------------------------------------------------------------------
(* The popup.                                                               *)

\* The empty path is a flood, one that is not made of whole hashes is raw.
FormatPath(path, size) ==
    IF PathHopHashes(path, size) = None /\ path # <<>> THEN <<path>>
    ELSE PathHopHashes(path, size)

ReceptionLine(entry) ==
    LET h == entry.header[1]
    IN  IF entry.header = None THEN [at |-> entry.at, path |-> None]
        ELSE [at |-> entry.at, route |-> h.route_type, hops |-> h.hops,
              path |-> FormatPath(h.path, h.path_hash_size)]

\* transport_code_line: both halves zero mean that nobody repeats the packet;
\* of any other code the first half is shown, marked when a region has it.
TransportCodeLine(entry, regions) ==
    LET code == entry.header[1].transport_code
    IN  IF entry.header = None THEN None
        ELSE IF Len(code) < TransportCodeSize THEN None
        ELSE IF ToSet(code) = {0} THEN <<[shared |-> TRUE]>>
        ELSE <<[half |-> FirstBytes(code, 2),
                known |-> MatchingRegionName(entry, regions) # None]>>

\* truncate_hex.
RawContent(entry, sender) ==
    [sender |-> sender, size |-> Len(entry.payload),
     raw |-> UpTo(entry.payload, ShownPayloadSize)]

PopupContent(entry, keys) ==
    IF entry.header = None THEN RawContent(entry, None)
    ELSE LET h == entry.header[1]
         IN  Head(h.advert \o DecodeGroupText(entry, keys) \o ControlOf(h)
                    \o <<RawContent(entry, h.sender)>>)

PopupHeader(entry, regions) ==
    LET h == entry.header[1]
    IN  IF entry.header = None THEN None
        ELSE <<[type |-> h.payload_type, version |-> h.payload_version,
                transport |-> TransportCodeLine(entry, regions),
                dest |-> DestinationCell(entry.header), src |-> h.src]>>

PacketDetailPopup(group, regions, keys) ==
    LET shown == Min({MAX_SHOWN_RECEPTIONS, Len(group)})
    IN  [last |-> group[1].at,
         first |-> IF Len(group) > 1 THEN <<Last(group).at>> ELSE None,
         header |-> PopupHeader(group[1], regions),
         content |-> PopupContent(group[1], keys),
         lines |-> [i \in 1..shown |-> ReceptionLine(group[i])],
         more |-> Len(group) - shown]

-----------------------------------------------------------------------------
(* Published for each packet, to the brokers that ask for it.               *)

PacketTraficJson(entry) ==
    LET h == entry.header[1]
        raw == ReconstructRawPacket(entry)
        codes == IF h.transport_code = None THEN 0 ELSE TransportCodeSize
    IN  IF entry.header = None THEN None
        ELSE <<[len |-> 1 + codes + 1 + Len(h.path) + Len(entry.payload),
                packet_type |-> h.payload_type,
                route |-> IF h.route_type \in {Direct, TransportDirect} THEN None ELSE <<h.hops>>,
                payload_len |-> Len(entry.payload),
                raw |-> UpTo(raw, PublishedSize)]>>

RawJson(entry) == ReconstructRawPacket(entry)
=============================================================================
