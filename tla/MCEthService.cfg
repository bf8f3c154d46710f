\* TokenService.sol, Holding.sol, BlackListService.sol and the vaults
SPECIFICATION EthSpec
CONSTANTS
    Chain <- MCChain
    Service = {"ts"}
    Token = {"t"}
    Account = {"u", "TS"}
    Address <- MCAddress
    SUPPORTED_THRESHOLD = 1
    ETH_CHAIN_ID = "eth"
    InPackets <- MCInPackets
    MaxQuorum = 1
    MaxSequence = 1
    MaxHeight = 2
    TokenServiceAddr = "ts"
    AleoService = "ts"
    ALEO = "aleo"
    ETH_TOKEN = "ether"
    User = {"u"}
    TS = "TS"
    HOLDING = "HOLDING"
    VAULT = "VAULT"
    OWNER = "OWNER"
    NoVault = NoVault
    Amounts = {1}
    InitialFunds = 2
    InitialQuorum = 1
INVARIANTS
    EthServiceTypeOK
    ReserveAccounted
    HoldingSolvent
PROPERTIES
    NayGoesToHolding
