------------------------- MODULE IdealBridgeProofs -------------------------
(***************************************************************************)
(* The ideal bridge is fully backed, for every set of tokens and any       *)
(* number of packets of any amounts.                                       *)
(***************************************************************************)
EXTENDS IdealBridge, PacketTotals

(* Types; finiteness of what is in flight is part of them, because the     *)
(* totals count units.                                                     *)
IdealTypeOK ==
    /\ reserve \in [Token -> Int]
    /\ supply \in [Token -> Nat]
    /\ toAleo \subseteq Packet /\ toEth \subseteq Packet
    /\ toAleo \subseteq used /\ toEth \subseteq used
    /\ FiniteUnits(toAleo) /\ FiniteUnits(toEth)

IdealInv == IdealTypeOK /\ Backed

LEMMA IdealInitInv == IdealInit => IdealInv
  BY TotalEmpty DEF IdealInit, IdealInv, IdealTypeOK, Backed

(* A packet that enters the bridge on Ethereum.                            *)
LEMMA DepositInv ==
    ASSUME IdealInv, NEW p, Deposit(p)
    PROVE  IdealInv'
  <1> USE DEF IdealInv, IdealTypeOK, Deposit
  <1>1. p \in Packet /\ p \notin toAleo /\ p.token \in Token /\ p.amount \in Nat
    BY DEF Packet
  <1>2. /\ FiniteUnits(toAleo')
        /\ \A t \in Token : Total(toAleo', t) = Total(toAleo, t) + Share(p, t)
    BY <1>1, TotalAdd
  <1>3. \A t \in Token : Total(toAleo, t) \in Nat /\ Total(toEth, t) \in Nat
    BY TotalNat
  <1>4. \A t \in Token : reserve'[t] = reserve[t] + Share(p, t)
    BY <1>1 DEF Share
  <1>5. Backed'
    <2> SUFFICES ASSUME NEW t \in Token
                 PROVE  reserve'[t] = supply'[t] + Total(toAleo', t) + Total(toEth', t)
      BY DEF Backed
    <2>1. reserve[t] = supply[t] + Total(toAleo, t) + Total(toEth, t)
      BY DEF Backed
    <2>2. Share(p, t) \in Nat /\ reserve[t] \in Int /\ supply[t] \in Nat
      BY <1>1 DEF Share
    <2>3. supply'[t] = supply[t] /\ Total(toEth', t) = Total(toEth, t)
      OBVIOUS
    <2>4. /\ reserve'[t] = reserve[t] + Share(p, t)
          /\ Total(toAleo', t) = Total(toAleo, t) + Share(p, t)
          /\ Total(toAleo, t) \in Nat /\ Total(toEth, t) \in Nat
      BY <1>2, <1>3, <1>4
    <2> HIDE DEF IdealInv, IdealTypeOK
    <2> QED
      BY <2>1, <2>2, <2>3, <2>4
  <1>6. IdealTypeOK'
    BY <1>1, <1>2
  <1> QED
    BY <1>5, <1>6

(* A packet that takes effect on Aleo.                                     *)
LEMMA MintInv ==
    ASSUME IdealInv, NEW p, Mint(p)
    PROVE  IdealInv'
  <1> USE DEF IdealInv, IdealTypeOK, Mint
  <1>1. p \in Packet /\ p.token \in Token /\ p.amount \in Nat
    BY DEF Packet
  <1>2. /\ FiniteUnits(toAleo')
        /\ \A t \in Token : Total(toAleo, t) = Total(toAleo', t) + Share(p, t)
    BY <1>1, TotalRemove
  <1>3. \A t \in Token : Total(toAleo', t) \in Nat /\ Total(toEth, t) \in Nat
    BY <1>2, TotalNat
  <1>4. \A t \in Token : supply'[t] = supply[t] + Share(p, t)
    BY <1>1 DEF Share
  <1>5. Backed'
    <2> SUFFICES ASSUME NEW t \in Token
                 PROVE  reserve'[t] = supply'[t] + Total(toAleo', t) + Total(toEth', t)
      BY DEF Backed
    <2>1. reserve[t] = supply[t] + Total(toAleo, t) + Total(toEth, t)
      BY DEF Backed
    <2>2. Share(p, t) \in Nat /\ reserve[t] \in Int /\ supply[t] \in Nat
      BY <1>1 DEF Share
    <2>3. reserve'[t] = reserve[t] /\ Total(toEth', t) = Total(toEth, t)
      OBVIOUS
    <2>4. /\ supply'[t] = supply[t] + Share(p, t)
          /\ Total(toAleo, t) = Total(toAleo', t) + Share(p, t)
          /\ Total(toAleo', t) \in Nat /\ Total(toEth, t) \in Nat
      BY <1>2, <1>3, <1>4
    <2> HIDE DEF IdealInv, IdealTypeOK
    <2> QED
      BY <2>1, <2>2, <2>3, <2>4
  <1>6. IdealTypeOK'
    BY <1>1, <1>2
  <1> QED
    BY <1>5, <1>6

(* A packet that leaves Aleo.                                              *)
LEMMA BurnInv ==
    ASSUME IdealInv, NEW p, Burn(p)
    PROVE  IdealInv'
  <1> USE DEF IdealInv, IdealTypeOK, Burn
  <1>1. p \in Packet /\ p \notin toEth /\ p.token \in Token /\ p.amount \in Nat
    BY DEF Packet
  <1>2. /\ FiniteUnits(toEth')
        /\ \A t \in Token : Total(toEth', t) = Total(toEth, t) + Share(p, t)
    BY <1>1, TotalAdd
  <1>3. \A t \in Token : Total(toAleo, t) \in Nat /\ Total(toEth, t) \in Nat
    BY TotalNat
  <1>4. \A t \in Token : supply'[t] = supply[t] - Share(p, t)
    BY <1>1 DEF Share
  <1>5. Backed'
    <2> SUFFICES ASSUME NEW t \in Token
                 PROVE  reserve'[t] = supply'[t] + Total(toAleo', t) + Total(toEth', t)
      BY DEF Backed
    <2>1. reserve[t] = supply[t] + Total(toAleo, t) + Total(toEth, t)
      BY DEF Backed
    <2>2. Share(p, t) \in Nat /\ reserve[t] \in Int /\ supply[t] \in Nat
      BY <1>1 DEF Share
    <2>3. reserve'[t] = reserve[t] /\ Total(toAleo', t) = Total(toAleo, t)
      OBVIOUS
    <2>4. /\ supply'[t] = supply[t] - Share(p, t)
          /\ Total(toEth', t) = Total(toEth, t) + Share(p, t)
          /\ Total(toAleo, t) \in Nat /\ Total(toEth, t) \in Nat
      BY <1>2, <1>3, <1>4
    <2> HIDE DEF IdealInv, IdealTypeOK
    <2> QED
      BY <2>1, <2>2, <2>3, <2>4
  <1>6. supply' \in [Token -> Nat]
    BY <1>1
  <1>7. IdealTypeOK'
    BY <1>1, <1>2, <1>6
  <1> QED
    BY <1>5, <1>7

(* A packet that is paid out on Ethereum.                                  *)
LEMMA PayoutInv ==
    ASSUME IdealInv, NEW p, Payout(p)
    PROVE  IdealInv'
  <1> USE DEF IdealInv, IdealTypeOK, Payout
  <1>1. p \in Packet /\ p.token \in Token /\ p.amount \in Nat
    BY DEF Packet
  <1>2. /\ FiniteUnits(toEth')
        /\ \A t \in Token : Total(toEth, t) = Total(toEth', t) + Share(p, t)
    BY <1>1, TotalRemove
  <1>3. \A t \in Token : Total(toEth', t) \in Nat /\ Total(toAleo, t) \in Nat
    BY <1>2, TotalNat
  <1>4. \A t \in Token : reserve'[t] = reserve[t] - Share(p, t)
    BY <1>1 DEF Share
  <1>5. Backed'
    <2> SUFFICES ASSUME NEW t \in Token
                 PROVE  reserve'[t] = supply'[t] + Total(toAleo', t) + Total(toEth', t)
      BY DEF Backed
    <2>1. reserve[t] = supply[t] + Total(toAleo, t) + Total(toEth, t)
      BY DEF Backed
    <2>2. Share(p, t) \in Nat /\ reserve[t] \in Int /\ supply[t] \in Nat
      BY <1>1 DEF Share
    <2>3. supply'[t] = supply[t] /\ Total(toAleo', t) = Total(toAleo, t)
      OBVIOUS
    <2>4. /\ reserve'[t] = reserve[t] - Share(p, t)
          /\ Total(toEth, t) = Total(toEth', t) + Share(p, t)
          /\ Total(toEth', t) \in Nat /\ Total(toAleo, t) \in Nat
      BY <1>2, <1>3, <1>4
    <2> HIDE DEF IdealInv, IdealTypeOK
    <2> QED
      BY <2>1, <2>2, <2>3, <2>4
  <1>6. IdealTypeOK'
    BY <1>1, <1>2
  <1> QED
    BY <1>5, <1>6

(* Whatever is sent, minted, burnt and paid out, and in whatever order:    *)
(* the reserve is exactly the supply on Aleo and the amounts in flight.    *)
THEOREM IdealBridgeBacked == IdealSpec => []Backed
  <1>1. IdealInv /\ [IdealNext]_idealVars => IdealInv'
    <2> SUFFICES ASSUME IdealInv, [IdealNext]_idealVars PROVE IdealInv'
      OBVIOUS
    <2>1. CASE IdealNext
      BY <2>1, DepositInv, MintInv, BurnInv, PayoutInv DEF IdealNext
    <2>2. CASE UNCHANGED idealVars
      BY <2>2 DEF idealVars, IdealInv, IdealTypeOK, Backed
    <2> QED
      BY <2>1, <2>2
  <1>2. IdealInv => Backed
    BY DEF IdealInv
  <1> QED
    BY <1>1, <1>2, IdealInitInv, PTL DEF IdealSpec
=============================================================================
