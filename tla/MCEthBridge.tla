---- MODULE MCEthBridge ----
(* Instance of EthBridge: two attestor addresses beside the zero address,   *)
(* one token service, two packets that claim the same sequence number.      *)
EXTENDS EthBridge

MCChain == {"aleo", "eth"}
MCAddress == 0 .. 2
MCInPackets ==
    {[src |-> "aleo", dst |-> "eth", srcService |-> "ts", dstService |-> "ts",
      sequence |-> 1, token |-> "t", amount |-> 1, sender |-> "u", receiver |-> "u",
      height |-> h] : h \in 1 .. 2}
====
