\* The Aleo client with two destinations: a failed call or a crash
SPECIFICATION FairSpec
CONSTANTS
    Client = "aleo"
    DestChains <- MCTwoDestChains
    Workers = {w1, w2}
    RetrievePacketNum = 2
    PruneNum = 3
    HeightDifference = 1
    WaitHeight = 0
    StartHeight = 2
    HeightModulus = 8
    Before <- MCSomeBefore
    MaxPackets = 3
    MaxHeight = 2
    MaxFailures = 1
    MaxCrashes = 1
    MaxMissed = 0
    MaxFaults = 1
PROPERTIES
    EventuallyCollected
    GapsAreFilled
