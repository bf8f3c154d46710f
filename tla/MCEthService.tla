---- MODULE MCEthService ----
(* Instance of EthTokenService: one ERC20 token, one user, one attestor,    *)
(* two incoming packets, one of them for the user and one whose receiver is *)
(* the token service itself.                                                *)
EXTENDS EthTokenService

MCChain == {"aleo", "eth"}
MCAddress == 0 .. 1
MCPacket(n, to) ==
    [src |-> "aleo", dst |-> "eth", srcService |-> "ts", dstService |-> "ts",
     sequence |-> n, token |-> "t", amount |-> 1, sender |-> "u", receiver |-> to,
     height |-> 1]
MCInPackets == {MCPacket(1, "u"), MCPacket(2, "TS")}
====
