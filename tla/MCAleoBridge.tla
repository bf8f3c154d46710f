---- MODULE MCAleoBridge ----
(* Instance of AleoTokenBridge: one foreign chain beside Aleo, one service, *)
(* three attestor addresses, signer arrays of two slots.                    *)
EXTENDS AleoTokenBridge

MCChain == {"aleo", "eth"}
MCAddress == 0 .. 3
MCPacket(c, n) ==
    [src |-> c, dst |-> "aleo", srcService |-> "ts", dstService |-> "ts",
     sequence |-> n, token |-> "t", amount |-> 1, sender |-> "u", receiver |-> "u",
     height |-> 1]
MCInPackets == {MCPacket("eth", 1)}
====
