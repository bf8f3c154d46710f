\* The Ethereum client with two destinations
SPECIFICATION FairSpec
CONSTANTS
    Client = "ethereum"
    DestChains <- MCTwoDestChains
    Workers = {w1}
    RetrievePacketNum = 2
    PruneNum = 3
    HeightDifference = 1
    WaitHeight = 1
    StartHeight = 2
    HeightModulus = 8
    Before <- MCNoneBefore
    MaxPackets = 2
    MaxHeight = 3
    MaxFailures = 0
    MaxCrashes = 0
    MaxMissed = 0
    MaxFaults = 1
PROPERTIES
    EveryNamespacePruned
