---------------------------- MODULE IdealBridge ----------------------------
(***************************************************************************)
(* What the bridge promises: a token that enters the reserve on one chain  *)
(* appears on the other one exactly once, and nothing else does.           *)
(*                                                                         *)
(* There are no attestors, signatures, holding contracts or vaults here: a *)
(* packet is in flight from the moment it is sent until the moment the     *)
(* other chain acts on it.  Verulink is shown to implement this module.    *)
(***************************************************************************)
EXTENDS Packets

VARIABLES
    reserve,   \* token -> amount kept on Ethereum for the bridge
    supply,    \* token -> amount that exists on Aleo
    toAleo,    \* packets in flight to Aleo
    toEth,     \* packets in flight to Ethereum
    used       \* every packet ever sent

idealVars == <<reserve, supply, toAleo, toEth, used>>

IdealInit ==
    /\ reserve = [t \in Token |-> 0]
    /\ supply = [t \in Token |-> 0]
    /\ toAleo = {} /\ toEth = {} /\ used = {}

Deposit(p) ==
    /\ p \in Packet \ used
    /\ reserve' = [reserve EXCEPT ![p.token] = @ + p.amount]
    /\ toAleo' = toAleo \cup {p} /\ used' = used \cup {p}
    /\ UNCHANGED <<supply, toEth>>

Mint(p) ==
    /\ p \in toAleo
    /\ supply' = [supply EXCEPT ![p.token] = @ + p.amount]
    /\ toAleo' = toAleo \ {p}
    /\ UNCHANGED <<reserve, toEth, used>>

Burn(p) ==
    /\ p \in Packet \ used
    /\ supply[p.token] >= p.amount
    /\ supply' = [supply EXCEPT ![p.token] = @ - p.amount]
    /\ toEth' = toEth \cup {p} /\ used' = used \cup {p}
    /\ UNCHANGED <<reserve, toAleo>>

Payout(p) ==
    /\ p \in toEth
    /\ reserve' = [reserve EXCEPT ![p.token] = @ - p.amount]
    /\ toEth' = toEth \ {p}
    /\ UNCHANGED <<supply, toAleo, used>>

(* Whatever packet a step is about has been sent once the step is taken.  *)
IdealNext == \E p \in used' : Deposit(p) \/ Mint(p) \/ Burn(p) \/ Payout(p)

IdealSpec == IdealInit /\ [][IdealNext]_idealVars

-----------------------------------------------------------------------------
(* The reserve is exactly the supply and what is in flight, in each token. *)
Backed ==
    \A t \in Token : reserve[t] = supply[t] + Total(toAleo, t) + Total(toEth, t)
=============================================================================
