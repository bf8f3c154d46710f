\* A crash before the first packet is completed
SPECIFICATION Spec
CONSTANTS
    Client = "aleo"
    DestChains <- MCDestChains
    Workers = {w1, w2}
    RetrievePacketNum = 2
    PruneNum = 3
    HeightDifference = 1
    WaitHeight = 0
    StartHeight = 2
    HeightModulus = 8
    Before <- MCNoneBefore
    MaxPackets = 2
    MaxHeight = 2
    MaxFailures = 0
    MaxCrashes = 1
    MaxMissed = 0
    MaxFaults = 1
INVARIANTS
    NoPacketForgotten
