----------------------------- MODULE ReplyDecoding -----------------------------
(***************************************************************************)
(* What the daemon reads in the replies of a remote node: the readings of a *)
(* telemetry payload (core/src/telemetry.rs), the regions of a text         *)
(* (parse_region_hierarchy, core/src/mesh.rs).                              *)
(***************************************************************************)
EXTENDS Integers, Sequences, SequencesExt

\* Divisors are powers of ten and two: a value is kept as the integer sent,
\* with the multiplier it is divided by.
Type(code, size, signed, mult) ==
    [code |-> code, size |-> size, signed |-> signed, mult |-> mult]

TYPES ==
    {Type(2, 2, TRUE, 100), Type(100, 4, FALSE, 1), Type(101, 2, FALSE, 1),
     Type(103, 2, TRUE, 10), Type(104, 1, FALSE, 2), Type(115, 2, FALSE, 10),
     Type(116, 2, TRUE, 100), Type(117, 2, TRUE, 1000), Type(118, 4, FALSE, 1),
     Type(120, 1, FALSE, 1), Type(121, 2, TRUE, 1), Type(128, 2, FALSE, 1),
     Type(130, 4, FALSE, 1000)}

LPP_GPS == 136
GPS_COMPONENT_SIZE == 3
\* Latitude, longitude, altitude: what each is divided by.
GpsMults == <<10000, 10000, 100>>

read_unsigned(bytes) == FoldLeft(LAMBDA acc, b : acc * 256 + b, 0, bytes)

read_signed(bytes) ==
    LET raw == read_unsigned(bytes)
        bits == 8 * Len(bytes)
    IN  IF raw >= 2 ^ (bits - 1) THEN raw - 2 ^ bits ELSE raw

Reading(channel, code, value, mult) ==
    [channel |-> channel, type |-> code, value |-> value, mult |-> mult]

decode_gps(channel, data) ==
    LET part(n) == SubSeq(data, (n - 1) * GPS_COMPONENT_SIZE + 1, n * GPS_COMPONENT_SIZE)
    IN  [n \in 1..3 |-> Reading(channel, LPP_GPS, read_signed(part(n)), GpsMults[n])]

ReadValue(t, bytes) == IF t.signed THEN read_signed(bytes) ELSE read_unsigned(bytes)

\* The readings from byte i on: one of a known type that the bytes suffice
\* for, then the rest; nothing of what follows the first that is neither.
decode(raw) ==
    LET size(code) == IF code = LPP_GPS THEN 3 * GPS_COMPONENT_SIZE
                      ELSE (CHOOSE t \in TYPES : t.code = code).size
        known(code) == code = LPP_GPS \/ \E t \in TYPES : t.code = code
        one(channel, code, data) ==
            IF code = LPP_GPS THEN decode_gps(channel, data)
            ELSE LET t == CHOOSE u \in TYPES : u.code = code
                 IN  <<Reading(channel, code, ReadValue(t, data), t.mult)>>
        from[i \in 1..Len(raw) + 1] ==
            LET code == raw[i + 1]
                next == i + 2 + size(code)
            IN  IF i + 1 > Len(raw) THEN <<>>
                ELSE IF ~ known(code) \/ next > Len(raw) + 1 THEN <<>>
                ELSE one(raw[i], code, SubSeq(raw, i + 2, next - 1)) \o from[next]
    IN  from[1]

-----------------------------------------------------------------------------
(* External: the firmware's encoder (addField, addGPS).  A negative number  *)
(* is its two's complement, the high byte comes first.                      *)

BigEndian(value, size) ==
    LET raw == IF value < 0 THEN value + 2 ^ (8 * size) ELSE value
    IN  [i \in 1..size |-> (raw \div (256 ^ (size - i))) % 256]

SizeOf(code) ==
    CASE code = LPP_GPS -> GPS_COMPONENT_SIZE
      [] \E t \in TYPES : t.code = code -> (CHOOSE t \in TYPES : t.code = code).size
      [] OTHER -> 1

\* A sensor: its channel, its type and its values, three for a GPS.
Encoded(sensor) ==
    <<sensor.channel, sensor.type>>
      \o FlattenSeq([n \in DOMAIN sensor.values |->
                        BigEndian(sensor.values[n], SizeOf(sensor.type))])

\* The readings a sensor should give.
Meant(sensor) ==
    [n \in DOMAIN sensor.values |->
        Reading(sensor.channel, sensor.type, sensor.values[n],
                IF sensor.type = LPP_GPS THEN GpsMults[n]
                ELSE (CHOOSE t \in TYPES : t.code = sensor.type).mult)]

-----------------------------------------------------------------------------
(* Region texts.  A character or a name is a token; the tokens that matter  *)
(* are the blank, the ends of line, the two marks, and the letter of the    *)
(* flood mark, which may be a region's name as well.                        *)

SP == "blank"
NL == "newline"
CR == "return"
HOME == "^"
F == "F"

\* External: one line of RegionMap::printChildRegions.
RegionLine(r) ==
    [i \in 1..r.depth |-> SP] \o <<r.name>> \o (IF r.is_home THEN <<HOME>> ELSE <<>>)
      \o (IF r.flood_allowed THEN <<SP, F>> ELSE <<>>)

RegionText(rs, eol) == FlattenSeq([i \in DOMAIN rs |-> RegionLine(rs[i]) \o eol])

StripSuffix(s, t) == IF IsSuffix(t, s) THEN SubSeq(s, 1, Len(s) - Len(t)) ELSE s

\* str::lines: the pieces between newlines, without an empty last one.
Lines(text) ==
    LET breaks == SetToSortSeq({i \in DOMAIN text : text[i] = NL}, <)
        starts == <<1>> \o [n \in DOMAIN breaks |-> breaks[n] + 1]
        ends == breaks \o <<Len(text) + 1>>
        all == [n \in DOMAIN starts |-> SubSeq(text, starts[n], ends[n] - 1)]
    IN  IF all[Len(all)] = <<>> THEN Front(all) ELSE all

TrimStart(line) ==
    LET kept == {i \in DOMAIN line : line[i] # SP}
    IN  IF kept = {} THEN <<>> ELSE SubSeq(line, Min(kept), Len(line))

\* One line: its blanks in front, a return at its end, the flood mark, the
\* home mark, the name.
RegionEntry(line) ==
    LET trimmed == StripSuffix(TrimStart(line), <<CR>>)
        without_flood == StripSuffix(trimmed, <<SP, F>>)
    IN  [name |-> StripSuffix(without_flood, <<HOME>>),
         depth |-> Len(line) - Len(TrimStart(line)),
         is_home |-> IsSuffix(<<HOME>>, without_flood),
         flood_allowed |-> IsSuffix(<<SP, F>>, trimmed)]

Blank(line) == StripSuffix(TrimStart(line), <<CR>>) = <<>>

parse_region_hierarchy(text) ==
    LET lines == SelectSeq(Lines(text), LAMBDA line : ~ Blank(line))
    IN  [i \in DOMAIN lines |-> RegionEntry(lines[i])]

RegionMeant(r) ==
    [name |-> <<r.name>>, depth |-> r.depth, is_home |-> r.is_home,
     flood_allowed |-> r.flood_allowed]

=============================================================================
