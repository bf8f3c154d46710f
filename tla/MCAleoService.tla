---- MODULE MCAleoService ----
(* Instance of AleoTokenService: one token, one user, one foreign chain,    *)
(* two incoming packets, one attestor, a limit of half the supply.          *)
EXTENDS AleoTokenService

MCChain == {"aleo", "eth"}
MCAddress == 0 .. 1
MCPacket(n, amt) ==
    [src |-> "eth", dst |-> "aleo", srcService |-> "ts", dstService |-> "ts",
     sequence |-> n, token |-> "t", amount |-> amt, sender |-> "u", receiver |-> "u",
     height |-> 1]
MCInPackets == {MCPacket(1, 3), MCPacket(2, 1)}
MCLimits == {[percentage |-> 5000, duration |-> 1, threshold_no_limit |-> 2]}
====
