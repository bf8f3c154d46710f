\* Bridge.sol: administration, sendMessage and consume
SPECIFICATION EthBridgeSpec
CONSTANTS
    Chain <- MCChain
    Service = {"ts"}
    Token = {"t"}
    Account = {"u"}
    Address <- MCAddress
    SUPPORTED_THRESHOLD = 1
    ETH_CHAIN_ID = "eth"
    InPackets <- MCInPackets
    MaxQuorum = 3
    MaxSequence = 2
    MaxHeight = 2
INVARIANTS
    ConsumedOnceEth
    OutgoingContiguous
PROPERTIES
    VerdictNeedsQuorum
