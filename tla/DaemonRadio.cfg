SPECIFICATION MCSpec
CONSTANTS
  PrefixSize = 1
  Pids = {p1, p2, p3}
  NoPid = NoPid
  Contacts <- MCContacts
  Sightings <- MCSightings
  MaxStarts = 3
  MaxSightings = 3
  PUB_KEY_SIZE = 2
  ShortKeySize = 1
  WordSize = 2
  TransportCodeSize = 4
  CIPHER_MAC_SIZE = 1
  CIPHER_KEY_SIZE = 4
  SHA256 <- MCSHA256
  WithHash <- MCWithHash
  HashByte <- MCHashByte
  HMAC <- MCHMAC
  CodeOf <- MCCodeOf
  Encrypt <- MCEncrypt
  Decrypt <- MCDecrypt
  Messages <- MCMessages
  Telemetries <- MCTelemetries
  Hierarchies <- MCHierarchies
  Paddings = {0, 1, 3}
  PublicName = 200
  PublicPsk <- MCPublicPsk
  HashtagChannels <- MCHashtagChannels
  Regions <- MCRegions
  Nodes <- MCNodes
  Times = {0, 1}
  MaxPackets = 3
  Undecoded = Undecoded
  Window = 0
  ShownKeySize = 1
  ShownPayloadSize = 2
  MAX_SHOWN_RECEPTIONS = 2
  PublishedSize = 6
INVARIANTS OneDaemon RestartShowsTheSame ReadsWhatWasSent ShownAsHeard RepliesRead
SYMMETRY Symmetry
CHECK_DEADLOCK FALSE
