\* vlink_token_bridge_v1: administration, publish and consume
SPECIFICATION BridgeSpec
CONSTANTS
    Chain <- MCChain
    Service = {"ts"}
    Token = {"t"}
    Account = {"u"}
    Address <- MCAddress
    ALEO_CHAIN_ID = "aleo"
    Owner = {"o1", "o2"}
    NoOwner = NoOwner
    SUPPORTED_THRESHOLD = 2
    U8_MAX = 4
    InPackets <- MCInPackets
    MaxSequence = 2
    MaxHeight = 2
INVARIANTS
    BridgeTypeOK
    AttestorSetSound
    ConsumedOnce
    OutSequencesContiguous
PROPERTIES
    QuorumOnConsume
    OutPacketsKept
