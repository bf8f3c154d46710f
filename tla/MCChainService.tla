---- MODULE MCChainService ----
(* Instances of ChainService with one and with two destination chains, and  *)
(* the packets there are when the attestor is first started.                *)
EXTENDS ChainService
MCDestChains == <<"d">>
MCTwoDestChains == <<"d", "e">>
MCNoneBefore == {<<>>}
MCTwoBefore == {<<"d", "d">>}
MCSomeBefore == {<<"e", "e", "e">>, <<"e", "d", "e">>}
====
