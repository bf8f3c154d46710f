\* vlink_token_service_v1 and vlink_holding_v1 over a configured bridge
SPECIFICATION Spec
CONSTANTS
    Chain <- MCChain
    Service = {"ts"}
    Token = {"t"}
    Account = {"u", "h"}
    Address <- MCAddress
    Owner = {"o"}
    ALEO_CHAIN_ID = "aleo"
    NoOwner = NoOwner
    SUPPORTED_THRESHOLD = 1
    U8_MAX = 1
    InPackets <- MCInPackets
    MaxSequence = 2
    MaxHeight = 4
    TS = "ts"
    HOLDING_ADDRESS = "h"
    HUNDRED_PERCENTAGE = 10000
    Amounts = {1}
    Limits <- MCLimits
    InitialThreshold = 1
    MaxHeld = 1
INVARIANTS
    ServiceTypeOK
    SupplyMatchesRegistry
    HeldFundsBacked
    WindowLimitHolds
