----------------------------- MODULE MCDaemonRadio -----------------------------
(* Three scenarios in one run.  "processes": three process IDs, starts,      *)
(* crashes, and advertisements of five kinds.  "air": one daemon that       *)
(* serves, and every packet and reply cut at every byte.  "log": one that   *)
(* serves and hears a packet up to three times, by several ways, with       *)
(* another one or one it cannot read in between.                            *)
EXTENDS DaemonRadio, TLC

VARIABLE scenario

Symmetry == Permutations(Pids)

\* Stand-ins for the primitives: a key is two bytes, a hash byte is shared by
\* two channels, a code is shared by several regions and reaches both ends.
MCSHA256(name) == <<name, name + 3>>
MCHashByte(key) == key[1] % 2
Sum(bytes) == FoldLeft(LAMBDA acc, b : (acc * 3 + b) % 251, 7, bytes)
MCHMAC(key, bytes) == <<(Sum(bytes) + 31 * key[1]) % 251>>
MCCodeOf(key, type, payload) ==
    <<0, 1, 65535, 770>>[1 + ((key[1] + type + Sum(payload)) % 4)]
MCEncrypt(key, bytes) == [i \in DOMAIN bytes |-> (bytes[i] + key[2]) % 256]
MCDecrypt(key, bytes) == [i \in DOMAIN bytes |-> (bytes[i] + 256 - key[2]) % 256]

MCPublicPsk == <<4, 9>>
\* A name above 100 is written without its #.
MCWithHash(name) == IF name > 100 THEN name - 100 ELSE name
MCHashtagChannels == <<6, 105>>
MCRegions == <<1, 2>>

Plain == [route_type |-> 1, payload_type |-> TextMsg, payload_version |-> 0,
          codes |-> <<>>, region |-> None, path_hash_size |-> 1, path |-> <<>>,
          dest |-> <<>>, src |-> <<>>, channel |-> <<>>, text |-> None,
          secret |-> <<0, 0>>, sender |-> <<>>, advert |-> None,
          control |-> NoControl, body |-> <<>>]

Addressed == {[Plain EXCEPT !.payload_type = t, !.dest = <<4>>, !.src = <<5>>, !.body = b] :
                 t \in {Req, Response, TextMsg, PathReturn}, b \in {<<>>, <<9, 8>>}}
Anonymous == {[Plain EXCEPT !.payload_type = AnonReq, !.dest = <<4>>, !.sender = <<6, 1>>,
                            !.body = b] : b \in {<<>>, <<7>>}}
Texts == {[Plain EXCEPT !.payload_type = GroupText, !.secret = s, !.text = <<x>>,
                        !.channel = <<MCHashByte(s)>>] :
             s \in {MCPublicPsk, MCSHA256(6), MCSHA256(5), MCSHA256(8)},
             x \in {<<65>>, <<65, 66>>, <<>>, <<65, 66, 67, 68, 69>>}}
Data == {[Plain EXCEPT !.payload_type = GroupData, !.channel = <<3>>, !.body = <<1>>]}
Others == {[Plain EXCEPT !.payload_type = t, !.body = <<4, 5, 6>>] : t \in {3, 9, 15}}
Controls == {[Plain EXCEPT !.payload_type = Control, !.control = c] : c \in
    [kind : {"DiscoverReq"}, prefix_only : BOOLEAN, type_filter : {4}, tag : {<<1, 2>>},
     since : {None, <<3>>, <<300>>}]
    \cup [kind : {"DiscoverResp"}, node_type : {2}, snr : {-128, -3, 127}, tag : {<<1, 2>>},
          pubkey : {<<3>>, <<3, 4>>}]}
Adverts == {[Plain EXCEPT !.payload_type = Advert, !.advert =
                <<[key |-> a[1], type |-> a[2], pos |-> a[3], name |-> a[4]]>>] :
               a \in {<<<<1, 1>>, 2, 0, 1>>, <<<<1, 1>>, 2, 5, 2>>, <<<<2, 1>>, 3, 7, 1>>,
                      <<<<2, 2>>, 2, 0, 1>>, <<<<4, 1>>, 1, 6, 1>>}}

\* A path of two hashes; a version that is not understood; a scope.
Routed(m) == {m, [m EXCEPT !.route_type = 2, !.path = <<1, 2, 3, 4>>, !.path_hash_size = 2],
              [m EXCEPT !.payload_version = 1]}
Scoped(m, region) ==
    [m EXCEPT !.route_type = 0, !.region = <<region>>,
              !.codes = CalcTransportCode(MCSHA256(region), m.payload_type, Payload(m))
                          \o <<0, 0>>]
Shared(m) == [m EXCEPT !.route_type = 3, !.codes = <<0, 0, 0, 0>>]
HalfZero(m) == [m EXCEPT !.route_type = 0, !.codes = <<0, 0, 5, 0>>]
Unscoped == Addressed \cup Anonymous \cup Texts \cup Data \cup Others \cup Controls \cup Adverts
MCMessages == UNION {Routed(m) : m \in Unscoped}
                \cup {Scoped(m, r) : m \in Unscoped, r \in {1, 2, 3}}
                \cup {Shared(m) : m \in Adverts}

AnAdvert(raw) == ExtractDiscoveredNode(Parse(raw))
MCSightings ==
    {s \in {node[1] : node \in {AnAdvert(FirstBytes(Transmitted(m), n)) :
                                  m \in Adverts, n \in 5..7} \ {None}} : Kept(s.type)}
MCContacts == {<<2, 2>>}

\* The families of receptions of scenario "log": one transmission by four ways
\* (a path of a managed repeater's hashes, of others', two hops, a scope), another
\* transmission, and one cut in its header.
Ways(m) ==
    {m, [m EXCEPT !.path = <<7>>], [m EXCEPT !.path = <<3, 4>>],
     [m EXCEPT !.path = <<4, 1, 9, 9>>, !.path_hash_size = 2]}
MCNodes == {[prefix |-> <<4, 1>>, managed |-> TRUE], [prefix |-> <<3, 1>>, managed |-> TRUE],
            [prefix |-> <<5, 2>>, managed |-> FALSE], [prefix |-> <<7, 2>>, managed |-> FALSE]}
Base == {[Plain EXCEPT !.dest = <<5>>, !.src = <<7>>, !.body = <<1>>],
         [Plain EXCEPT !.dest = <<7>>, !.src = <<4>>],
         [Plain EXCEPT !.payload_type = AnonReq, !.dest = <<7>>, !.sender = <<3, 1>>],
         [Plain EXCEPT !.payload_type = GroupText, !.secret = MCPublicPsk, !.text = <<<<65>>>>,
                       !.channel = <<MCHashByte(MCPublicPsk)>>],
         [Plain EXCEPT !.payload_type = GroupData, !.channel = <<3>>, !.body = <<1>>],
         [Plain EXCEPT !.payload_type = 9, !.payload_version = 1, !.body = <<4, 5>>]}
Other == [Plain EXCEPT !.payload_type = 3, !.body = <<1>>]
Whole(m) == [sent |-> m, raw |-> Transmitted(m), whole |-> TRUE]
Families == {{Whole(w) : w \in Ways(m) \cup {Scoped(m, 1), HalfZero(m), Shared(m), Other}}
               \cup {[sent |-> m, raw |-> <<HeaderByte(m)>>, whole |-> FALSE]} : m \in Base}

Sensor(c, t, vs) == [channel |-> c, type |-> t, values |-> vs]
MCTelemetries ==
    {<<Sensor(1, 116, <<412>>), Sensor(2, 103, <<-55>>), Sensor(1, 104, <<200>>)>>,
     <<Sensor(0, 136, <<-1, 8388607, -8388608>>), Sensor(1, 121, <<-32768>>)>>,
     <<Sensor(3, 118, <<868000000>>), Sensor(3, 128, <<65535>>), Sensor(3, 0, <<1>>)>>,
     <<Sensor(1, 115, <<10132>>), Sensor(1, 133, <<5>>), Sensor(1, 120, <<90>>)>>}

Line(n, d, h, f) == [name |-> n, depth |-> d, is_home |-> h, flood_allowed |-> f]
MCHierarchies ==
    {<<Line(a, 0, FALSE, f), Line(b, 1, h, g), Line("F", 2, TRUE, FALSE)>> :
        a \in {"world", "F"}, b \in {"F", "paris"},
        f \in BOOLEAN, g \in BOOLEAN, h \in BOOLEAN}

MCInit == RadioInit /\ scenario \in {"processes", "air", "log"}

\* In the air one process starts and the first thing it hears ends the run.
InTheAir ==
    /\ received = Nothing
    /\ log = <<>>
    /\ RadioNext
    /\ starts' <= 1
    /\ background' = {}

Processes ==
    \E p \in Pids :
        \/ Proceed(p)
        \/ \E m \in Adverts : \E bytes \in {Transmitted(m)} :
              ReceivePacket(p, m, bytes, TRUE, 0) /\ log' # log

\* One process, and nothing but packets once it serves.
TheLog ==
    \E p \in Pids :
        \/ Proceed(p) /\ starts' <= 1 /\ background' = {} /\ phase'[p] \notin Working \ {"open", "serving"}
           /\ phase[p] # "serving"
        \/ /\ phase[p] = "serving"
           /\ \E family \in Families :
                 /\ packets[p] # <<>> => Last(packets[p]).sent \in {r.sent : r \in family}
                 /\ \E r \in family, at \in Times : ReceivePacket(p, r.sent, r.raw, r.whole, at)

MCNext ==
    /\ scenario = "air" => InTheAir
    /\ scenario = "processes" => Processes
    /\ scenario = "log" => TheLog
    /\ scenario' = scenario

MCSpec == MCInit /\ [][MCNext]_<<radioVars, scenario>>
=============================================================================
