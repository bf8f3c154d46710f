---- MODULE MCVerulink ----
(* Instance of Verulink: one token, one user, two attestors of which one    *)
(* misbehaves, threshold two.                                               *)
EXTENDS Verulink

MCChain == {"aleo", "eth"}
MCAddress == 0 .. 2
MCLimits == {[percentage |-> 10000, duration |-> 0, threshold_no_limit |-> 2]}
MCPacket(from, to, s, d, n) ==
    [src |-> from, dst |-> to, srcService |-> s, dstService |-> d,
     sequence |-> n, token |-> "t", amount |-> 2, sender |-> "u", receiver |-> "u",
     height |-> 1]
MCForged == {MCPacket("eth", "aleo", "ets", "ats", 1), MCPacket("aleo", "eth", "ats", "ets", 1)}
====
