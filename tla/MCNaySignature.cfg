SPECIFICATION Spec
CONSTANTS
    Chains <- MCChains
    Packets = {"e1", "e2", "e3", "a1"}
    Source <- MCSource
    Dest <- MCDest
    Position <- MCPosition
    DestChains <- MCDestChains
    StartSeq <- MCStartSeq
    Starts <- MCStarts
    Limit = 1
    Workers = {w1, w2}
    AddrLen = 3
    EthLen = 2
    U8Modulus = 4
    U64Modulus = 8
    Powers = {1, 2, 4}
    U128 = {0, 1, 2, 3}
    Attestors = {att1, att2}
    ToEthereum <- MCToEthereum
    ToAleo <- MCToAleo
    ServiceChains <- MCServiceChains
    AleoA = AleoA
    AleoB = AleoB
    Token = Token
    None = ""
    Ambiguous <- MCAmbiguous
    DefaultTimes <- MCDefaultTimes
    Files <- MCFiles
    Flags <- MCFlags
    Disk <- MCDisk
INVARIANTS
    VerdictsCheckOut
