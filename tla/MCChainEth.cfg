\* The Ethereum client: a failed call, a crash or a packet reported missed
SPECIFICATION FairSpec
CONSTANTS
    Client = "ethereum"
    DestChains <- MCDestChains
    Workers = {w1, w2}
    RetrievePacketNum = 2
    PruneNum = 3
    HeightDifference = 1
    WaitHeight = 1
    StartHeight = 1
    HeightModulus = 8
    Before <- MCTwoBefore
    MaxPackets = 3
    MaxHeight = 3
    MaxFailures = 1
    MaxCrashes = 1
    MaxMissed = 1
    MaxFaults = 1
INVARIANTS
    TypeOK
    ForgottenOnlyByCrash
    CompletedDelivered
    OnlyMaturedSigned
PROPERTIES
    EventuallyCollected
    ResumePointKept
    GapKeptUntilDelivered
    GapsAreFilled
