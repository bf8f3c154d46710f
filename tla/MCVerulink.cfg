\* Both chains, the attestors and the collector
SPECIFICATION Spec
CONSTANTS
    Chain <- MCChain
    Service = {"ats", "ets"}
    Token = {"t"}
    Account = {"u", "h"}
    SUPPORTED_THRESHOLD = 2
    Address <- MCAddress
    Owner = {"o"}
    ALEO_CHAIN_ID = "aleo"
    ETH_CHAIN_ID = "eth"
    NoOwner = NoOwner
    U8_MAX = 2
    HUNDRED_PERCENTAGE = 10000
    AleoTS = "ats"
    EthTS = "ets"
    HOLDING_ADDRESS = "h"
    ETH_TOKEN = "ether"
    User = {"u"}
    TSAccount = "TS"
    HOLDING = "HOLDING"
    VAULT = "VAULT"
    OWNER = "OWNER"
    NoVault = NoVault
    Amounts = {1}
    Limits <- MCLimits
    InitialFunds = 2
    Threshold = 2
    Faulty = {2}
    Forged <- MCForged
    MaxSequence = 1
    MaxSent = 2
    MaxHeight = 2
INVARIANTS
    OnlySentConsumed
    FullyBacked
PROPERTIES
    ImplementsIdealBridge
