\* The council and its wrappers over the bridge and the token service
SPECIFICATION GovernanceSpec
CONSTANTS
    Chain <- MCChain
    Service = {"ts"}
    Token = {"t"}
    Account = {"u", "h"}
    Address <- MCAddress
    Owner = {"bridgeCouncil", "serviceCouncil", "wallet"}
    ALEO_CHAIN_ID = "aleo"
    NoOwner = NoOwner
    SUPPORTED_THRESHOLD = 2
    U8_MAX = 2
    InPackets <- MCInPackets
    MaxSequence = 0
    MaxHeight = 1
    TS = "ts"
    HOLDING_ADDRESS = "h"
    HUNDRED_PERCENTAGE = 10000
    Amounts = {1}
    Limits <- MCLimits
    InitialThreshold = 2
    MaxHeld = 0
    Member <- MCMember
    Proposals <- MCProposals
    Founders <- MCFounders
    Agenda <- MCAgenda
    BRIDGE_COUNCIL = "bridgeCouncil"
    SERVICE_COUNCIL = "serviceCouncil"
    InitialLimit <- MCLimit
INVARIANTS
    CouncilSound
    VoterListSound
PROPERTIES
    GovernedByQuorum
