--------------------------- MODULE EthereumProofs ---------------------------
(***************************************************************************)
(* Proofs about the Ethereum contracts: the bridge of EthBridge on its     *)
(* own, then the token service and the holding contract on top of it.      *)
(*                                                                         *)
(* They hold for every set of attestors, tokens and accounts and every     *)
(* bound.  The bridge rests on EthBridgeInv, the service on EthInv.        *)
(***************************************************************************)
EXTENDS EthTokenService, PacketTotals

EthBridgeInv ==
    /\ EthBridgeTypeOK
    /\ ConsumedOnceEth
    /\ OutgoingContiguous

(* What a step guarantees to a consumption it makes. *)
NewVerdictsHaveQuorum ==
    \A r \in consumptions' \ consumptions :
       r.verdict \in Verdict =>
           /\ r.voters \subseteq isAttestor \ {ZERO_ADDRESS}
           /\ Cardinality(r.voters) >= quorumRequired

-----------------------------------------------------------------------------
(* Signers in strictly increasing order are distinct: counting signatures  *)
(* counts attestors, which is what _checkSignatures relies on.             *)
LEMMA CountSignaturesIsCountSigners ==
    ASSUME NEW n \in Nat, NEW sigs, DOMAIN sigs = 1 .. n,
           \A i \in 1 .. n : sigs[i].signer \in Nat,
           \A i, j \in 1 .. n : i < j => sigs[i].signer < sigs[j].signer,
           NEW S \in SUBSET (1 .. n)
    PROVE  Cardinality({sigs[i].signer : i \in S}) = Cardinality(S)
  <1> DEFINE f == [i \in S |-> sigs[i].signer]
             T == {sigs[i].signer : i \in S}
  <1>1. IsFiniteSet(S)
    <2>1. 1 \in Int /\ n \in Int
      OBVIOUS
    <2>2. IsFiniteSet(1 .. n)
      BY <2>1, FS_Interval
    <2> QED
      BY <2>2, FS_Subset
  <1>2. f \in Bijection(S, T)
    <2>1. f \in [S -> T] /\ \A t \in T : \E i \in S : f[i] = t
      OBVIOUS
    <2>2. \A i, j \in S : f[i] = f[j] => i = j
      <3> SUFFICES ASSUME NEW i \in S, NEW j \in S, sigs[i].signer = sigs[j].signer, i # j
                   PROVE  FALSE
        OBVIOUS
      <3>1. i \in Int /\ j \in Int /\ (i < j \/ j < i)
        OBVIOUS
      <3> QED
        BY <3>1
    <2> QED
      BY <2>1, <2>2, Fun_IsBij
  <1>3. ExistsBijection(S, T)
    BY <1>2 DEF ExistsBijection
  <1> QED
    BY <1>1, <1>3, FS_Bijection

(* What consume records: a verdict of consume has its quorum.              *)
LEMMA ConsumptionHasQuorum ==
    ASSUME EthBridgeTypeOK, NEW packet \in Packet, NEW sigs \in SignatureLists(packet),
           SignaturesValid(packet, sigs, isAttestor, quorumRequired)
    PROVE  LET r == Consumption(packet, sigs)
           IN  /\ r \in [packet : Packet, verdict : Verdict \cup {"NULL"}, voters : SUBSET Address]
               /\ r.voters \subseteq isAttestor \ {ZERO_ADDRESS}
               /\ r.verdict \in Verdict => Cardinality(r.voters) >= quorumRequired
  <1> DEFINE v == quorumOf(packet, sigs)
             S == Voted(packet, sigs, v)
             T == {sigs[i].signer : i \in S}
  <1>1. PICK n \in 0 .. Cardinality(Address) :
          sigs \in [1 .. n -> {Sign(a, packet, w) : a \in Address, w \in Verdict \cup {"NONE"}}]
    BY DEF SignatureLists
  <1>2. Cardinality(Address) \in Nat
    BY EthBridgeAssumption, FS_CardinalityType
  <1>3. n \in Nat /\ DOMAIN sigs = 1 .. n
    BY <1>1, <1>2
  <1>4. /\ \A i \in 1 .. n : sigs[i].signer \in isAttestor
        /\ \A i, j \in 1 .. n : i < j => sigs[i].signer < sigs[j].signer
    BY <1>3 DEF SignaturesValid
  <1>5. isAttestor \subseteq Address \ {ZERO_ADDRESS} /\ isAttestor \subseteq Nat
    BY EthBridgeAssumption DEF EthBridgeTypeOK
  <1>6. S \subseteq 1 .. n
    BY <1>3 DEF Voted
  <1>7. Cardinality(T) = Cardinality(S)
    <2>1. \A i \in 1 .. n : sigs[i].signer \in Nat
      BY <1>4, <1>5
    <2> HIDE DEF S, v
    <2> QED
      BY <2>1, <1>3, <1>4, <1>6, CountSignaturesIsCountSigners
  <1>8. v \in Verdict \cup {"NULL"} /\ (v \in Verdict => Cardinality(S) >= quorumRequired)
    BY DEF quorumOf, _checkSignatures, yeas, nays, Verdict
  <1>9. T \subseteq isAttestor
    BY <1>4, <1>6
  <1>10. Consumption(packet, sigs) = [packet |-> packet, verdict |-> v, voters |-> T]
    BY DEF Consumption
  <1>11. T \subseteq Address /\ T \subseteq isAttestor \ {ZERO_ADDRESS}
    BY <1>5, <1>9
  <1>12. v \in Verdict => Cardinality(T) >= quorumRequired
    BY <1>7, <1>8
  <1> HIDE DEF v, S, T
  <1> QED
    BY <1>8, <1>10, <1>11, <1>12

(* consume adds one mark and one record, under a fresh sequence number.    *)
LEMMA EthConsumeStep ==
    ASSUME EthBridgeInv, NEW s, NEW packet \in Packet, NEW sigs \in SignatureLists(packet),
           consume(s, packet, sigs)
    PROVE  /\ EthBridgeInv'
           /\ NewVerdictsHaveQuorum
           /\ \A r \in consumptions' \ consumptions : r = Consumption(packet, sigs)
  <1> DEFINE r0 == Consumption(packet, sigs)
             n0 == packet.sequence
  <1>1. /\ r0 \in [packet : Packet, verdict : Verdict \cup {"NULL"}, voters : SUBSET Address]
        /\ r0.voters \subseteq isAttestor \ {ZERO_ADDRESS}
        /\ r0.verdict \in Verdict => Cardinality(r0.voters) >= quorumRequired
    BY ConsumptionHasQuorum DEF consume, EthBridgeInv
  <1>2. r0.packet = packet
    BY DEF Consumption
  <1>3. /\ consumptions' = consumptions \cup {r0}
        /\ n0 \notin DOMAIN consumedPackets
        /\ DOMAIN consumedPackets' = DOMAIN consumedPackets \cup {n0}
        /\ consumedPackets'[n0] = packet
        /\ \A n \in DOMAIN consumedPackets : consumedPackets'[n] = consumedPackets[n]
        /\ UNCHANGED <<bridgeSettings, sequence, outgoingPackets, blockNumber>>
    BY DEF consume
  <1>4. n0 \in Nat
    BY DEF Packet
  <1> HIDE DEF r0, n0
  <1>5. EthBridgeTypeOK'
    BY <1>1, <1>3, <1>4 DEF EthBridgeInv, EthBridgeTypeOK, bridgeSettings
  <1>6. ConsumedOnceEth'
    <2>1. r0.packet.sequence = n0
      BY <1>2 DEF n0
    <2>2. \A r \in consumptions : r.packet.sequence # n0
      BY <1>3 DEF EthBridgeInv, ConsumedOnceEth
    <2>3. \A n \in DOMAIN consumedPackets' :
            \E r \in consumptions' : r.packet = consumedPackets'[n] /\ r.packet.sequence = n
      BY <2>1, <1>2, <1>3 DEF EthBridgeInv, ConsumedOnceEth
    <2>4. \A r \in consumptions' : /\ r.packet.sequence \in DOMAIN consumedPackets'
                                   /\ consumedPackets'[r.packet.sequence] = r.packet
      BY <2>1, <1>2, <1>3 DEF EthBridgeInv, ConsumedOnceEth
    <2>5. \A r1, r2 \in consumptions' : r1.packet.sequence = r2.packet.sequence => r1 = r2
      BY <2>1, <2>2, <1>3 DEF EthBridgeInv, ConsumedOnceEth
    <2> QED
      BY <2>3, <2>4, <2>5 DEF ConsumedOnceEth
  <1>7. OutgoingContiguous'
    BY <1>3 DEF EthBridgeInv, OutgoingContiguous
  <1> QED
    BY <1>1, <1>3, <1>5, <1>6, <1>7 DEF EthBridgeInv, NewVerdictsHaveQuorum, r0

(* sendMessage extends the numbering by one.                               *)
LEMMA EthSendStep ==
    ASSUME EthBridgeInv, NEW s, NEW packet \in Packet, sendMessage(s, packet)
    PROVE  EthBridgeInv' /\ NewVerdictsHaveQuorum
  <1> DEFINE n0 == sequence + 1
             p0 == Dispatched(packet)
  <1>1. sequence \in Nat /\ n0 \in Nat /\ n0 \notin 1 .. sequence
    BY DEF EthBridgeInv, EthBridgeTypeOK
  <1>2. p0 \in Packet /\ p0.sequence = n0
    BY <1>1 DEF Dispatched, Packet
  <1>3. /\ sequence' = n0
        /\ DOMAIN outgoingPackets' = DOMAIN outgoingPackets \cup {n0}
        /\ outgoingPackets'[n0] = p0
        /\ \A n \in DOMAIN outgoingPackets : n # n0 => outgoingPackets'[n] = outgoingPackets[n]
        /\ UNCHANGED <<bridgeSettings, consumedPackets, consumptions, blockNumber>>
    BY DEF sendMessage
  <1>4. 1 .. n0 = (1 .. sequence) \cup {n0}
    BY <1>1
  <1>5. EthBridgeTypeOK'
    <2> HIDE DEF n0, p0
    <2> QED
      BY <1>1, <1>2, <1>3 DEF EthBridgeInv, EthBridgeTypeOK, bridgeSettings
  <1>6. ConsumedOnceEth'
    BY <1>3 DEF EthBridgeInv, ConsumedOnceEth
  <1>7. OutgoingContiguous'
    <2> HIDE DEF n0, p0
    <2> QED
      BY <1>1, <1>2, <1>3, <1>4 DEF EthBridgeInv, OutgoingContiguous
  <1> QED
    BY <1>3, <1>5, <1>6, <1>7 DEF EthBridgeInv, NewVerdictsHaveQuorum
(* The steps that leave the traffic alone.                                 *)
LEMMA EthBridgeFrame ==
    ASSUME EthBridgeInv, UNCHANGED bridgeTraffic,
           isAttestor' \subseteq Address \ {ZERO_ADDRESS},
           quorumRequired' \in Nat,
           tokenServices' \subseteq Service,
           destinationChainId' \in Chain,
           bridgePaused' \in BOOLEAN,
           blockNumber' \in Nat
    PROVE  EthBridgeInv' /\ NewVerdictsHaveQuorum
  <1> USE DEF EthBridgeInv, bridgeTraffic
  <1>1. EthBridgeTypeOK'
    BY DEF EthBridgeTypeOK
  <1>2. ConsumedOnceEth' /\ OutgoingContiguous' /\ NewVerdictsHaveQuorum
    BY DEF ConsumedOnceEth, OutgoingContiguous, NewVerdictsHaveQuorum
  <1> QED
    BY <1>1, <1>2

LEMMA EthBridgeInvInit == EthBridgeInit => EthBridgeInv
  <1> SUFFICES ASSUME EthBridgeInit PROVE EthBridgeInv
    OBVIOUS
  <1> USE DEF EthBridgeInit
  <1>1. DOMAIN outgoingPackets = {} /\ DOMAIN consumedPackets = {}
    OBVIOUS
  <1>2. EthBridgeTypeOK
    BY <1>1 DEF EthBridgeTypeOK
  <1>3. ConsumedOnceEth /\ OutgoingContiguous
    BY <1>1 DEF ConsumedOnceEth, OutgoingContiguous
  <1> QED
    BY <1>2, <1>3 DEF EthBridgeInv

LEMMA EthOwnerStep ==
    ASSUME EthBridgeInv, OwnerCall
    PROVE  EthBridgeInv' /\ NewVerdictsHaveQuorum
  <1>0. EthBridgeTypeOK
    BY DEF EthBridgeInv
  <1>1. ASSUME NEW new, NEW q \in Quorums, SetAttestors(new, q),
               new \subseteq Address \ {ZERO_ADDRESS}
        PROVE  EthBridgeInv' /\ NewVerdictsHaveQuorum
    <2>1. q \in Nat
      BY EthBridgeAssumption DEF Quorums
    <2> QED
      BY <1>0, <1>1, <2>1, EthBridgeFrame DEF SetAttestors, EthBridgeTypeOK
  <1>2. ASSUME NEW a \in Address, NEW q \in Quorums, addAttestor(a, q)
        PROVE  EthBridgeInv' /\ NewVerdictsHaveQuorum
    BY <1>0, <1>1, <1>2 DEF addAttestor, EthBridgeTypeOK
  <1>3. ASSUME NEW a \in Address, NEW b \in Address, NEW q \in Quorums, addAttestors(<<a, b>>, q)
        PROVE  EthBridgeInv' /\ NewVerdictsHaveQuorum
    <2>1. {<<a, b>>[i] : i \in DOMAIN <<a, b>>} \subseteq Address \ {ZERO_ADDRESS}
      BY <1>3 DEF addAttestors
    <2> QED
      BY <1>0, <1>1, <1>3, <2>1 DEF addAttestors, EthBridgeTypeOK
  <1>4. ASSUME NEW a \in Address, NEW q \in Quorums, removeAttestor(a, q)
        PROVE  EthBridgeInv' /\ NewVerdictsHaveQuorum
    BY <1>0, <1>1, <1>4 DEF removeAttestor, EthBridgeTypeOK
  <1>5. ASSUME NEW q \in Quorums, updateQuorum(q)
        PROVE  EthBridgeInv' /\ NewVerdictsHaveQuorum
    BY <1>0, <1>1, <1>5 DEF updateQuorum, EthBridgeTypeOK
  <1>6. ASSUME NEW s \in Service, addTokenService(s) \/ removeTokenService(s)
        PROVE  EthBridgeInv' /\ NewVerdictsHaveQuorum
    BY <1>0, <1>6, EthBridgeFrame DEF addTokenService, removeTokenService, EthBridgeTypeOK
  <1>7. ASSUME pause \/ unpause
        PROVE  EthBridgeInv' /\ NewVerdictsHaveQuorum
    BY <1>0, <1>7, EthBridgeFrame DEF pause, unpause, EthBridgeTypeOK
  <1>8. ASSUME NEW c \in Chain, updateDestinationChainId(c)
        PROVE  EthBridgeInv' /\ NewVerdictsHaveQuorum
    BY <1>0, <1>8, EthBridgeFrame DEF updateDestinationChainId, EthBridgeTypeOK
  <1> QED
    BY <1>2, <1>3, <1>4, <1>5, <1>6, <1>7, <1>8 DEF OwnerCall

LEMMA EthBridgeInvStep ==
    ASSUME EthBridgeInv, [EthBridgeNext]_ethBridgeVars
    PROVE  EthBridgeInv' /\ NewVerdictsHaveQuorum
  <1>0. EthBridgeTypeOK
    BY DEF EthBridgeInv
  <1>1. CASE OwnerCall
    BY <1>1, EthOwnerStep
  <1>2. ASSUME NEW p \in InPackets, NEW c \in Chain,
               sendMessage(p.dstService,
                           [p EXCEPT !.src = p.dst, !.dst = c, !.height = blockNumber])
        PROVE  EthBridgeInv' /\ NewVerdictsHaveQuorum
    <2>1. p \in Packet
      BY EthBridgeAssumption
    <2>2. [p EXCEPT !.src = p.dst, !.dst = c, !.height = blockNumber] \in Packet
      BY <2>1, <1>0 DEF Packet, EthBridgeTypeOK
    <2> QED
      BY <1>2, <2>2, EthSendStep
  <1>3. ASSUME NEW p \in InPackets, NEW sigs \in SignatureLists(p), consume(p.dstService, p, sigs)
        PROVE  EthBridgeInv' /\ NewVerdictsHaveQuorum
    <2>1. p \in Packet
      BY EthBridgeAssumption
    <2> QED
      BY <1>3, <2>1, EthConsumeStep
  <1>4. CASE NewEthBlock
    BY <1>0, <1>4, EthBridgeFrame DEF NewEthBlock, EthBridgeTypeOK, bridgeSettings
  <1>5. CASE UNCHANGED ethBridgeVars
    BY <1>0, <1>5, EthBridgeFrame DEF ethBridgeVars, EthBridgeTypeOK, bridgeSettings
  <1> QED
    BY <1>1, <1>2, <1>3, <1>4, <1>5 DEF EthBridgeNext

(* The storage of Bridge.sol and its bases keeps its types.                *)
THEOREM EthBridgeTypeCorrect == EthBridgeSpec => []EthBridgeTypeOK
  <1>1. EthBridgeInv => EthBridgeTypeOK
    BY DEF EthBridgeInv
  <1>2. EthBridgeInv /\ [EthBridgeNext]_ethBridgeVars => EthBridgeInv'
    BY EthBridgeInvStep
  <1> QED
    BY <1>1, <1>2, EthBridgeInvInit, PTL DEF EthBridgeSpec

(* consume takes effect once per sequence number, whoever attests and      *)
(* however the owner changes attestors, quorum and services in between.    *)
THEOREM EthConsumedOnce == EthBridgeSpec => []ConsumedOnceEth
  <1>1. EthBridgeInv => ConsumedOnceEth
    BY DEF EthBridgeInv
  <1>2. EthBridgeInv /\ [EthBridgeNext]_ethBridgeVars => EthBridgeInv'
    BY EthBridgeInvStep
  <1> QED
    BY <1>1, <1>2, EthBridgeInvInit, PTL DEF EthBridgeSpec

(* sendMessage numbers the packets without a hole, over all destinations.  *)
THEOREM EthOutgoingContiguous == EthBridgeSpec => []OutgoingContiguous
  <1>1. EthBridgeInv => OutgoingContiguous
    BY DEF EthBridgeInv
  <1>2. EthBridgeInv /\ [EthBridgeNext]_ethBridgeVars => EthBridgeInv'
    BY EthBridgeInvStep
  <1> QED
    BY <1>1, <1>2, EthBridgeInvInit, PTL DEF EthBridgeSpec

(* A verdict of _checkSignatures has quorumRequired distinct attestors     *)
(* behind it.                                                              *)
THEOREM EthVerdictQuorum == EthBridgeSpec => VerdictNeedsQuorum
  <1>1. EthBridgeInv /\ [EthBridgeNext]_ethBridgeVars => EthBridgeInv'
    BY EthBridgeInvStep
  <1>2. EthBridgeInv /\ [EthBridgeNext]_ethBridgeVars
          => [\A r \in consumptions' \ consumptions :
                r.verdict \in Verdict =>
                    /\ r.voters \subseteq isAttestor \ {ZERO_ADDRESS}
                    /\ Cardinality(r.voters) >= quorumRequired]_ethBridgeVars
    BY EthBridgeInvStep DEF NewVerdictsHaveQuorum
  <1> QED
    BY <1>1, <1>2, EthBridgeInvInit, PTL DEF EthBridgeSpec, VerdictNeedsQuorum
-----------------------------------------------------------------------------
(* The token service and the holding contract. *)

(* What the holding contract owes in token t, by receiver. *)
Owed(locks, releases, t) == [a \in Account |-> locks[a][t] + releases[a][t]]

(* The three parts of the invariant: types and bridge; the accounts of the *)
(* service; the accounts of the holding contract.  Finiteness is part of   *)
(* them because the totals count units.                                    *)
EthTypes == EthServiceTypeOK /\ EthBridgeInv

ReserveInv ==
    /\ FiniteUnits(Sent) /\ FiniteUnits(Withdrawn)
    /\ ReserveAccounted

HoldingInv ==
    /\ \A t \in Token : IsFiniteSet(UnitsOf(Owed(locked, unlocked, t)))
    /\ HoldingSolvent

EthInv == EthTypes /\ ReserveInv /\ HoldingInv

(* What a step guarantees to a packet that it consumes without a YEA. *)
NayHeld ==
    \A r \in consumptions' \ consumptions :
       r.verdict # "YEA" =>
           \A t \in Token : funds'[t][HOLDING] - funds[t][HOLDING] = Total({r.packet}, t)

(* The contracts are four accounts.                                        *)
LEMMA ContractsDistinct ==
    /\ TS # HOLDING /\ TS # VAULT /\ TS # OWNER
    /\ HOLDING # VAULT /\ HOLDING # OWNER /\ VAULT # OWNER
  <1>1. ASSUME NEW a, NEW b, NEW c PROVE Cardinality({a, b, c}) # 4
    <2>1. IsFiniteSet({a}) /\ Cardinality({a}) = 1
      BY FS_Singleton
    <2>2. {a, b} = {a} \cup {b}
      OBVIOUS
    <2>3. IsFiniteSet({a, b}) /\ Cardinality({a, b}) \in {1, 2}
      BY <2>1, <2>2, FS_AddElement
    <2>4. {a, b, c} = {a, b} \cup {c}
      OBVIOUS
    <2>5. Cardinality({a, b, c}) \in {1, 2, 3}
      BY <2>3, <2>4, FS_AddElement
    <2> QED
      BY <2>5
  <1>2. Cardinality({TS, HOLDING, VAULT, OWNER}) = 4
    BY EthServiceAssumption
  <1>3. TS = HOLDING => {TS, HOLDING, VAULT, OWNER} = {TS, VAULT, OWNER}
    OBVIOUS
  <1>4. TS = VAULT => {TS, HOLDING, VAULT, OWNER} = {TS, HOLDING, OWNER}
    OBVIOUS
  <1>5. TS = OWNER => {TS, HOLDING, VAULT, OWNER} = {TS, HOLDING, VAULT}
    OBVIOUS
  <1>6. HOLDING = VAULT => {TS, HOLDING, VAULT, OWNER} = {TS, HOLDING, OWNER}
    OBVIOUS
  <1>7. HOLDING = OWNER => {TS, HOLDING, VAULT, OWNER} = {TS, HOLDING, VAULT}
    OBVIOUS
  <1>8. VAULT = OWNER => {TS, HOLDING, VAULT, OWNER} = {TS, HOLDING, VAULT}
    OBVIOUS
  <1> QED
    BY <1>1, <1>2, <1>3, <1>4, <1>5, <1>6, <1>7, <1>8

(* A payment the payer can afford moves the amount and nothing else, also  *)
(* when payer and payee are one account.                                   *)
LEMMA PayEffect ==
    ASSUME NEW f \in [Token -> [Accounts -> Nat]], NEW t \in Token,
           NEW from \in Accounts, NEW to \in Accounts, NEW n \in Nat, n <= f[t][from]
    PROVE  /\ Pay(f, t, from, to, n) \in [Token -> [Accounts -> Nat]]
           /\ \A x \in Token \ {t} : Pay(f, t, from, to, n)[x] = f[x]
           /\ \A a \in Accounts :
                 Pay(f, t, from, to, n)[t][a] = f[t][a] - (IF a = from THEN n ELSE 0)
                                                        + (IF a = to THEN n ELSE 0)
  <1> DEFINE d == [f EXCEPT ![t][from] = @ - n]
             g == [d EXCEPT ![t][to] = @ + n]
  <1>1. g = Pay(f, t, from, to, n)
    BY DEF Pay
  <1>2. /\ d \in [Token -> [Accounts -> Nat]]
        /\ \A x \in Token \ {t} : d[x] = f[x]
        /\ \A a \in Accounts : d[t][a] = f[t][a] - (IF a = from THEN n ELSE 0)
    OBVIOUS
  <1>3. /\ g \in [Token -> [Accounts -> Nat]]
        /\ \A x \in Token \ {t} : g[x] = d[x]
        /\ \A a \in Accounts : g[t][a] = d[t][a] + (IF a = to THEN n ELSE 0)
    <2> HIDE DEF d
    <2> QED
      BY <1>2
  <1> HIDE DEF d, g
  <1> QED
    BY <1>1, <1>2, <1>3

(* The accounts of the contracts and of the users.                         *)
LEMMA AccountsOfAll ==
    /\ TS \in Accounts /\ HOLDING \in Accounts /\ VAULT \in Accounts /\ OWNER \in Accounts
    /\ User \subseteq Accounts /\ Account \subseteq Accounts
    /\ TS \notin User /\ HOLDING \notin User
  BY EthServiceAssumption DEF Accounts

(* The accounts of the service are right after a step that moves as much   *)
(* through the books as through the account.                               *)
LEMMA ReserveSame ==
    ASSUME EthInv, UNCHANGED <<outgoingPackets, consumedPackets>>,
           \A t \in Token : /\ funds[t][TS] \in Int /\ funds'[t][TS] \in Int
                            /\ vaultFlow[t] \in Int /\ vaultFlow'[t] \in Int
                            /\ funds'[t][TS] + vaultFlow'[t] = funds[t][TS] + vaultFlow[t]
    PROVE  ReserveInv'
  <1>1. Sent' = Sent /\ Withdrawn' = Withdrawn
    BY DEF Sent, Withdrawn
  <1>2. FiniteUnits(Sent)' /\ FiniteUnits(Withdrawn)'
    BY <1>1 DEF EthInv, ReserveInv, FiniteUnits
  <1>3. ReserveAccounted'
    <2> SUFFICES ASSUME NEW t \in Token
                 PROVE  funds'[t][TS] + Total(Withdrawn', t) + vaultFlow'[t] = Total(Sent', t)
      BY DEF ReserveAccounted
    <2>1. Total(Withdrawn, t) \in Nat /\ Total(Sent, t) \in Nat
      BY TotalNat DEF EthInv, ReserveInv
    <2>2. funds[t][TS] + Total(Withdrawn, t) + vaultFlow[t] = Total(Sent, t)
      BY DEF EthInv, ReserveInv, ReserveAccounted
    <2> QED
      BY <1>1, <2>1, <2>2
  <1> QED
    BY <1>2, <1>3 DEF ReserveInv

(* l and k are the books of the holding contract with one entry changed.   *)
ChangedOnlyAt(user, token, l, k) ==
    /\ l \in [Account -> [Token -> Nat]] /\ k \in [Account -> [Token -> Nat]]
    /\ \A a \in Account, t \in Token :
          ~(a = user /\ t = token) => l[a][t] = locked[a][t] /\ k[a][t] = unlocked[a][t]

(* What is owed changes for one receiver in one token.                     *)
LEMMA OwedChange ==
    ASSUME EthInv, NEW u \in Account, NEW t0 \in Token,
           NEW l, NEW k, ChangedOnlyAt(u, t0, l, k),
           NEW t \in Token
    PROVE  LET before == SumOf(Owed(locked, unlocked, t))
               after == SumOf(Owed(l, k, t))
           IN  /\ IsFiniteSet(UnitsOf(Owed(l, k, t)))
               /\ before \in Nat /\ after \in Nat
               /\ t # t0 => after = before
               /\ t = t0 => /\ locked[u][t0] + unlocked[u][t0] <= before
                            /\ after + locked[u][t0] + unlocked[u][t0]
                                 = before + l[u][t0] + k[u][t0]
  <1>1. /\ locked \in [Account -> [Token -> Nat]] /\ unlocked \in [Account -> [Token -> Nat]]
        /\ IsFiniteSet(UnitsOf(Owed(locked, unlocked, t)))
    BY DEF EthInv, EthTypes, EthServiceTypeOK, HoldingInv
  <1>2. Owed(locked, unlocked, t) \in [Account -> Nat] /\ Owed(l, k, t) \in [Account -> Nat]
    BY <1>1 DEF Owed, ChangedOnlyAt
  <1>3. PICK f \in [Account -> Nat], g \in [Account -> Nat] :
          f = Owed(locked, unlocked, t) /\ g = Owed(l, k, t)
    BY <1>2
  <1>4. \A a \in Account \ {u} : g[a] = f[a]
    BY <1>3 DEF Owed, ChangedOnlyAt
  <1>5. /\ f[u] = locked[u][t] + unlocked[u][t]
        /\ g[u] = l[u][t] + k[u][t]
    BY <1>3 DEF Owed
  <1>6. t # t0 => g[u] = f[u]
    BY <1>5 DEF ChangedOnlyAt
  <1>7. /\ locked[u][t] \in Nat /\ unlocked[u][t] \in Nat
        /\ l[u][t] \in Nat /\ k[u][t] \in Nat
        /\ f[u] \in Nat /\ g[u] \in Nat
    BY <1>1 DEF ChangedOnlyAt
  <1>8. IsFiniteSet(UnitsOf(f))
    BY <1>1, <1>3
  <1>9. /\ IsFiniteSet(UnitsOf(g)) /\ SumOf(f) \in Nat /\ SumOf(g) \in Nat
        /\ f[u] <= SumOf(f)
        /\ SumOf(g) + f[u] = SumOf(f) + g[u]
    BY <1>4, <1>8, SumChange
  <1>10. t # t0 => SumOf(g) = SumOf(f)
    BY <1>6, <1>7, <1>9
  <1>11. t = t0 => /\ locked[u][t0] + unlocked[u][t0] <= SumOf(f)
                   /\ SumOf(g) + locked[u][t0] + unlocked[u][t0]
                        = SumOf(f) + l[u][t0] + k[u][t0]
    BY <1>5, <1>7, <1>9
  <1> QED
    BY <1>3, <1>9, <1>10, <1>11

(* The books of the holding contract after a step that changes no entry    *)
(* and takes nothing from it.                                              *)
LEMMA HoldingSame ==
    ASSUME EthInv, UNCHANGED <<locked, unlocked>>,
           \A t \in Token : /\ funds[t][HOLDING] \in Nat /\ funds'[t][HOLDING] \in Nat
                            /\ funds'[t][HOLDING] >= funds[t][HOLDING]
    PROVE  HoldingInv'
  <1>1. \A t \in Token : Owed(locked', unlocked', t) = Owed(locked, unlocked, t)
    BY DEF Owed
  <1>2. \A t \in Token : /\ IsFiniteSet(UnitsOf(Owed(locked, unlocked, t)))
                         /\ SumOf(Owed(locked, unlocked, t)) \in Nat
    BY FS_CardinalityType DEF EthInv, HoldingInv, SumOf
  <1>3. \A t \in Token : SumOf(Owed(locked, unlocked, t)) <= funds[t][HOLDING]
    BY DEF EthInv, HoldingInv, HoldingSolvent, Owed
  <1>4. \A t \in Token : SumOf(Owed(locked', unlocked', t)) <= funds'[t][HOLDING]
    BY <1>1, <1>2, <1>3
  <1>5. HoldingSolvent'
    BY <1>4 DEF HoldingSolvent, Owed
  <1> QED
    BY <1>1, <1>2, <1>5 DEF HoldingInv
(* The books of the holding contract after a step that changes an entry by *)
(* no more than what the contract is paid.                                 *)
LEMMA HoldingChanged ==
    ASSUME EthInv, NEW u \in Account, NEW t0 \in Token,
           ChangedOnlyAt(u, t0, locked', unlocked'),
           \A t \in Token : funds[t][HOLDING] \in Nat /\ funds'[t][HOLDING] \in Nat,
           \A t \in Token \ {t0} : funds'[t][HOLDING] = funds[t][HOLDING],
           NEW h0 \in Nat, h0 = locked[u][t0] + unlocked[u][t0],
           NEW h1 \in Nat, h1 = locked'[u][t0] + unlocked'[u][t0],
           funds'[t0][HOLDING] + h0 >= funds[t0][HOLDING] + h1
    PROVE  HoldingInv'
  <1>1. \A t \in Token :
          LET before == SumOf(Owed(locked, unlocked, t))
              after == SumOf(Owed(locked', unlocked', t))
          IN  /\ IsFiniteSet(UnitsOf(Owed(locked', unlocked', t)))
              /\ before \in Nat /\ after \in Nat
              /\ t # t0 => after = before
              /\ t = t0 => /\ locked[u][t0] + unlocked[u][t0] <= before
                           /\ after + locked[u][t0] + unlocked[u][t0]
                                = before + locked'[u][t0] + unlocked'[u][t0]
    BY OwedChange
  <1>2. \A t \in Token : SumOf(Owed(locked, unlocked, t)) <= funds[t][HOLDING]
    BY DEF EthInv, HoldingInv, HoldingSolvent, Owed
  <1>3. /\ locked[u][t0] \in Nat /\ unlocked[u][t0] \in Nat
        /\ locked'[u][t0] \in Nat /\ unlocked'[u][t0] \in Nat
    BY DEF EthInv, EthTypes, EthServiceTypeOK, ChangedOnlyAt
  <1>4. ASSUME NEW t \in Token
        PROVE  SumOf(Owed(locked', unlocked', t)) <= funds'[t][HOLDING]
    <2>1. CASE t # t0
      BY <1>1, <1>2, <2>1
    <2>2. CASE t = t0
      <3>1. SumOf(Owed(locked', unlocked', t)) + h0 = SumOf(Owed(locked, unlocked, t)) + h1
        BY <1>1, <1>3, <2>2
      <3>2. /\ SumOf(Owed(locked, unlocked, t)) \in Nat
            /\ SumOf(Owed(locked', unlocked', t)) \in Nat
            /\ SumOf(Owed(locked, unlocked, t)) <= funds[t][HOLDING]
        BY <1>1, <1>2
      <3> QED
        BY <2>2, <3>1, <3>2
    <2> QED
      BY <2>1, <2>2
  <1>5. HoldingSolvent'
    BY <1>4 DEF HoldingSolvent, Owed
  <1> QED
    BY <1>1, <1>5 DEF HoldingInv

(* What a payment does to the account of a contract.                       *)
LEMMA FundsMoved ==
    ASSUME EthTypes, NEW t \in Token, NEW from \in Accounts, NEW to \in Accounts,
           NEW n \in Nat, funds[t][from] >= n,
           funds' = Pay(funds, t, from, to, n)
    PROVE  /\ funds' \in [Token -> [Accounts -> Nat]]
           /\ \A x \in Token, a \in Accounts :
                 /\ funds[x][a] \in Nat /\ funds'[x][a] \in Nat
                 /\ x # t => funds'[x][a] = funds[x][a]
                 /\ x = t => funds'[x][a] = funds[x][a] - (IF a = from THEN n ELSE 0)
                                                        + (IF a = to THEN n ELSE 0)
  <1>1. funds \in [Token -> [Accounts -> Nat]]
    BY DEF EthTypes, EthServiceTypeOK
  <1>2. n <= funds[t][from]
    BY <1>1
  <1>3. /\ funds' \in [Token -> [Accounts -> Nat]]
        /\ \A x \in Token \ {t} : funds'[x] = funds[x]
        /\ \A a \in Accounts : funds'[t][a] = funds[t][a] - (IF a = from THEN n ELSE 0)
                                                          + (IF a = to THEN n ELSE 0)
    BY <1>1, <1>2, PayEffect
  <1> QED
    BY <1>1, <1>3

(* The types after a step that changes no configuration of the service.    *)
LEMMA MoneyTypes ==
    ASSUME EthTypes, EthBridgeInv', UNCHANGED <<tokenConfig, lists, holdingConfig>>,
           locked' \in [Account -> [Token -> Nat]], unlocked' \in [Account -> [Token -> Nat]],
           funds' \in [Token -> [Accounts -> Nat]],
           vaultFlow' \in [Token -> Int]
    PROVE  EthTypes'
  BY DEF EthTypes, EthServiceTypeOK, tokenConfig, lists, holdingConfig, EthBridgeInv

(* The step of a packet that enters the bridge: it joins Sent.             *)
LEMMA SentGrows ==
    ASSUME EthInv, NEW s, NEW packet \in Packet, sendMessage(s, packet)
    PROVE  /\ FiniteUnits(Sent)'
           /\ \A t \in Token : Total(Sent', t) = Total(Sent, t) + Share(packet, t)
           /\ Withdrawn' = Withdrawn
  <1> DEFINE n0 == sequence + 1
             p0 == Dispatched(packet)
  <1>1. /\ DOMAIN outgoingPackets = 1 .. sequence /\ sequence \in Nat
        /\ \A n \in 1 .. sequence : outgoingPackets[n].sequence = n
    BY DEF EthInv, EthTypes, EthBridgeInv, EthBridgeTypeOK, OutgoingContiguous
  <1>2. p0 \in Packet /\ p0.sequence = n0 /\ p0.token = packet.token /\ p0.amount = packet.amount
    BY <1>1 DEF Dispatched, Packet
  <1>3. /\ DOMAIN outgoingPackets' = DOMAIN outgoingPackets \cup {n0}
        /\ outgoingPackets'[n0] = p0
        /\ \A n \in DOMAIN outgoingPackets : n # n0 => outgoingPackets'[n] = outgoingPackets[n]
        /\ n0 \notin DOMAIN outgoingPackets
    BY <1>1 DEF sendMessage
  <1> HIDE DEF p0, n0
  <1>4. Sent' = Sent \cup {p0}
    BY <1>3 DEF Sent
  <1>5. p0 \notin Sent
    BY <1>1, <1>2, <1>3 DEF Sent
  <1>6. FiniteUnits(Sent)
    BY DEF EthInv, ReserveInv
  <1>7. /\ FiniteUnits(Sent \cup {p0})
        /\ \A t \in Token : Total(Sent \cup {p0}, t) = Total(Sent, t) + Share(p0, t)
    BY <1>2, <1>5, <1>6, TotalAdd
  <1>8. \A t \in Token : Share(p0, t) = Share(packet, t)
    BY <1>2 DEF Share
  <1>9. FiniteUnits(Sent)'
    BY <1>4, <1>7 DEF FiniteUnits
  <1>10. Withdrawn' = Withdrawn
    BY DEF sendMessage, Withdrawn
  <1> QED
    BY <1>4, <1>7, <1>8, <1>9, <1>10

(* The step of a packet that is consumed: it joins Withdrawn.              *)
LEMMA WithdrawnGrows ==
    ASSUME EthInv, NEW s, NEW packet \in Packet, NEW sigs, consume(s, packet, sigs)
    PROVE  /\ FiniteUnits(Withdrawn)'
           /\ \A t \in Token : Total(Withdrawn', t) = Total(Withdrawn, t) + Share(packet, t)
           /\ Sent' = Sent
  <1> DEFINE n0 == packet.sequence
  <1>1. /\ DOMAIN consumedPackets' = DOMAIN consumedPackets \cup {n0}
        /\ consumedPackets'[n0] = packet
        /\ \A n \in DOMAIN consumedPackets : consumedPackets'[n] = consumedPackets[n]
        /\ n0 \notin DOMAIN consumedPackets
    BY DEF consume
  <1>2. \A n \in DOMAIN consumedPackets : consumedPackets[n].sequence = n
    BY DEF EthInv, EthTypes, EthBridgeInv, ConsumedOnceEth
  <1>3. packet \notin Withdrawn
    BY <1>1, <1>2 DEF Withdrawn
  <1> HIDE DEF n0
  <1>4. Withdrawn' = Withdrawn \cup {packet}
    BY <1>1 DEF Withdrawn
  <1>5. FiniteUnits(Withdrawn)
    BY DEF EthInv, ReserveInv
  <1>6. /\ FiniteUnits(Withdrawn \cup {packet})
        /\ \A t \in Token : Total(Withdrawn \cup {packet}, t) = Total(Withdrawn, t) + Share(packet, t)
    BY <1>3, <1>5, TotalAdd
  <1>7. FiniteUnits(Withdrawn)'
    BY <1>4, <1>6 DEF FiniteUnits
  <1>8. Sent' = Sent
    BY DEF consume, Sent
  <1> QED
    BY <1>4, <1>6, <1>7, <1>8
-----------------------------------------------------------------------------
(* One lemma per operation that moves money. *)

(* transfer: what the sender pays in is what the packet carries.           *)
LEMMA TransferStep ==
    ASSUME EthInv, NEW u \in User, NEW t \in Token, NEW n \in Amounts, NEW r \in Account,
           transfer(u, t, n, r)
    PROVE  EthInv' /\ NayHeld
  <1> DEFINE p == _packetify(u, t, n, r)
  <1>1. n \in Nat /\ u \in Account /\ u \in Accounts /\ u # TS /\ u # HOLDING
    BY EthServiceAssumption, AccountsOfAll
  <1>2. p \in Packet /\ p.token = t /\ p.amount = n
    BY <1>1, EthServiceAssumption, EthBridgeAssumption
       DEF _packetify, Packet, EthInv, EthTypes, EthBridgeInv, EthBridgeTypeOK
  <1>3. sendMessage(TokenServiceAddr, p) /\ funds' = Pay(funds, t, u, TS, n) /\ funds[t][u] >= n
    BY DEF transfer
  <1> HIDE DEF p
  <1>4. EthBridgeInv'
    BY <1>2, <1>3, EthSendStep DEF EthInv, EthTypes
  <1>5. /\ funds' \in [Token -> [Accounts -> Nat]]
        /\ \A x \in Token, a \in Accounts :
              /\ funds[x][a] \in Nat /\ funds'[x][a] \in Nat
              /\ x # t => funds'[x][a] = funds[x][a]
              /\ x = t => funds'[x][a] = funds[x][a] - (IF a = u THEN n ELSE 0)
                                                     + (IF a = TS THEN n ELSE 0)
    BY <1>1, <1>3, AccountsOfAll, FundsMoved DEF EthInv
  <1>6. UNCHANGED <<locked, unlocked, vaultFlow, tokenConfig, lists, holdingConfig, consumptions>>
    BY DEF transfer, sendMessage
  <1>7. EthTypes'
    BY <1>4, <1>5, <1>6, MoneyTypes DEF EthInv, EthTypes, EthServiceTypeOK
  <1>8. ReserveInv'
    <2>1. /\ FiniteUnits(Sent)' /\ Withdrawn' = Withdrawn
          /\ \A x \in Token : Total(Sent', x) = Total(Sent, x) + Share(p, x)
      BY <1>2, <1>3, SentGrows
    <2>2. FiniteUnits(Sent) /\ FiniteUnits(Withdrawn) /\ FiniteUnits(Withdrawn)'
      BY <2>1 DEF EthInv, ReserveInv, FiniteUnits
    <2>3. ASSUME NEW x \in Token
          PROVE  funds'[x][TS] + Total(Withdrawn', x) + vaultFlow'[x] = Total(Sent', x)
      <3>1. funds[x][TS] + Total(Withdrawn, x) + vaultFlow[x] = Total(Sent, x)
        BY DEF EthInv, ReserveInv, ReserveAccounted
      <3>2. Total(Sent, x) \in Nat /\ Total(Withdrawn, x) \in Nat
        BY <2>2, TotalNat
      <3>3. funds[x][TS] \in Nat /\ vaultFlow[x] \in Int
        BY <1>5, AccountsOfAll DEF EthInv, EthTypes, EthServiceTypeOK
      <3>4. Share(p, x) \in Nat /\ funds'[x][TS] = funds[x][TS] + Share(p, x)
        BY <1>1, <1>2, <1>5, AccountsOfAll DEF Share
      <3> QED
        BY <2>1, <3>1, <3>2, <3>3, <3>4, <1>6
    <2> QED
      BY <2>1, <2>2, <2>3 DEF ReserveInv, ReserveAccounted
  <1>9. HoldingInv'
    <2>1. \A x \in Token : /\ funds[x][HOLDING] \in Nat /\ funds'[x][HOLDING] \in Nat
                           /\ funds'[x][HOLDING] >= funds[x][HOLDING]
      BY <1>1, <1>5, AccountsOfAll, ContractsDistinct
    <2> QED
      BY <1>6, <2>1, HoldingSame
  <1> QED
    BY <1>6, <1>7, <1>8, <1>9 DEF EthInv, NayHeld

(* One packet carries what it says.                                        *)
LEMMA TotalOfOne ==
    ASSUME NEW p \in Packet
    PROVE  \A t \in Token : Total({p}, t) = Share(p, t) /\ Share(p, t) \in Nat
  <1>1. {p} = {} \cup {p} /\ p \notin {}
    OBVIOUS
  <1>2. \A t \in Token : Total({} \cup {p}, t) = Total({}, t) + Share(p, t)
    BY <1>1, TotalEmpty, TotalAdd
  <1>3. \A t \in Token : Share(p, t) \in Nat
    BY DEF Share, Packet
  <1> QED
    BY <1>1, <1>2, <1>3, TotalEmpty

(* The books of the service after a withdrawal of packet p.                *)
LEMMA WithdrawReserve ==
    ASSUME EthInv, NEW s, NEW p \in Packet, NEW sigs, consume(s, p, sigs),
           \A t \in Token : /\ funds[t][TS] \in Int /\ funds'[t][TS] \in Int
                            /\ vaultFlow[t] \in Int /\ vaultFlow'[t] \in Int
                            /\ funds'[t][TS] + vaultFlow'[t] + Share(p, t)
                                 = funds[t][TS] + vaultFlow[t]
    PROVE  ReserveInv'
  <1>1. /\ FiniteUnits(Withdrawn)' /\ Sent' = Sent
        /\ \A t \in Token : Total(Withdrawn', t) = Total(Withdrawn, t) + Share(p, t)
    BY WithdrawnGrows
  <1>2. FiniteUnits(Sent) /\ FiniteUnits(Withdrawn) /\ FiniteUnits(Sent)'
    BY <1>1 DEF EthInv, ReserveInv, FiniteUnits
  <1>3. ASSUME NEW t \in Token
        PROVE  funds'[t][TS] + Total(Withdrawn', t) + vaultFlow'[t] = Total(Sent', t)
    <2>1. funds[t][TS] + Total(Withdrawn, t) + vaultFlow[t] = Total(Sent, t)
      BY DEF EthInv, ReserveInv, ReserveAccounted
    <2>2. Total(Sent, t) \in Nat /\ Total(Withdrawn, t) \in Nat
      BY <1>2, TotalNat
    <2>3. Share(p, t) \in Nat
      BY TotalOfOne
    <2> QED
      BY <1>1, <2>1, <2>2, <2>3
  <1> QED
    BY <1>1, <1>2, <1>3 DEF ReserveInv, ReserveAccounted

(* withdraw into the holding contract.                                     *)
LEMMA WithdrawToHolding ==
    ASSUME EthInv, NEW p \in Packet, NEW sigs \in SignatureLists(p),
           consume(TokenServiceAddr, p, sigs),
           funds[p.token][TS] >= p.amount,
           lock(p.receiver, p.token, p.amount),
           UNCHANGED <<tokenConfig, lists, holdingConfig, unlocked>>
    PROVE  /\ EthInv'
           /\ \A x \in Token : funds'[x][HOLDING] - funds[x][HOLDING] = Total({p}, x)
  <1> DEFINE t == p.token
             u == p.receiver
             n == p.amount
  <1>1. t \in Token /\ u \in Account /\ n \in Nat
    BY DEF Packet
  <1>2. /\ funds' = Pay(funds, t, TS, HOLDING, n) /\ funds[t][TS] >= n
        /\ locked' = [locked EXCEPT ![u][t] = @ + n]
        /\ UNCHANGED <<unlocked, vaultFlow>>
    BY DEF lock
  <1>3. EthBridgeInv'
    BY EthConsumeStep DEF EthInv, EthTypes
  <1>4. \A x \in Token : Share(p, x) = (IF x = t THEN n ELSE 0) /\ Share(p, x) = Total({p}, x)
    BY TotalOfOne DEF Share
  <1> HIDE DEF t, u, n
  <1>5. /\ funds' \in [Token -> [Accounts -> Nat]]
        /\ \A x \in Token, a \in Accounts :
              /\ funds[x][a] \in Nat /\ funds'[x][a] \in Nat
              /\ x # t => funds'[x][a] = funds[x][a]
              /\ x = t => funds'[x][a] = funds[x][a] - (IF a = TS THEN n ELSE 0)
                                                     + (IF a = HOLDING THEN n ELSE 0)
    BY <1>1, <1>2, AccountsOfAll, FundsMoved DEF EthInv
  <1>6. /\ locked \in [Account -> [Token -> Nat]] /\ unlocked \in [Account -> [Token -> Nat]]
        /\ vaultFlow \in [Token -> Int]
    BY DEF EthInv, EthTypes, EthServiceTypeOK
  <1>7. locked' \in [Account -> [Token -> Nat]] /\ locked'[u][t] = locked[u][t] + n
    BY <1>1, <1>2, <1>6
  <1>8. ChangedOnlyAt(u, t, locked', unlocked')
    BY <1>1, <1>2, <1>6, <1>7 DEF ChangedOnlyAt
  <1>9. EthTypes'
    BY <1>2, <1>3, <1>5, <1>6, <1>7, MoneyTypes DEF EthInv
  <1>10. ReserveInv'
    <2>1. \A x \in Token : /\ funds[x][TS] \in Int /\ funds'[x][TS] \in Int
                           /\ vaultFlow[x] \in Int /\ vaultFlow'[x] = vaultFlow[x]
                           /\ funds'[x][TS] = funds[x][TS] - (IF x = t THEN n ELSE 0)
      BY <1>1, <1>2, <1>5, <1>6, AccountsOfAll, ContractsDistinct
    <2>2. \A x \in Token : /\ funds[x][TS] \in Int /\ funds'[x][TS] \in Int
                           /\ vaultFlow[x] \in Int /\ vaultFlow'[x] \in Int
                           /\ funds'[x][TS] + vaultFlow'[x] + Share(p, x)
                                = funds[x][TS] + vaultFlow[x]
      BY <2>1, <1>1, <1>4
    <2> QED
      BY <2>2, WithdrawReserve
  <1>11. \A x \in Token : /\ funds[x][HOLDING] \in Nat /\ funds'[x][HOLDING] \in Nat
                          /\ funds'[x][HOLDING] = funds[x][HOLDING] + (IF x = t THEN n ELSE 0)
    BY <1>1, <1>5, AccountsOfAll, ContractsDistinct
  <1>12. HoldingInv'
    <2>1. PICK h0 \in Nat, h1 \in Nat : /\ h0 = locked[u][t] + unlocked[u][t]
                                        /\ h1 = locked'[u][t] + unlocked'[u][t]
                                        /\ h1 = h0 + n
      <3>1. locked[u][t] \in Nat /\ unlocked[u][t] \in Nat /\ unlocked'[u][t] = unlocked[u][t]
        BY <1>1, <1>2, <1>6
      <3> QED
        BY <1>1, <1>7, <3>1
    <2>2. \A x \in Token : funds[x][HOLDING] \in Nat /\ funds'[x][HOLDING] \in Nat
      BY <1>11
    <2>3. \A x \in Token \ {t} : funds'[x][HOLDING] = funds[x][HOLDING]
      BY <1>1, <1>5, AccountsOfAll
    <2>4. funds'[t][HOLDING] + h0 >= funds[t][HOLDING] + h1
      BY <1>1, <1>11, <2>1
    <2> QED
      BY <1>1, <1>8, <2>1, <2>2, <2>3, <2>4, HoldingChanged
  <1>13. ASSUME NEW x \in Token
         PROVE  funds'[x][HOLDING] - funds[x][HOLDING] = Total({p}, x)
    <2>1. Total({p}, x) = (IF x = t THEN n ELSE 0)
      BY <1>4
    <2> QED
      BY <1>1, <1>11, <2>1
  <1> QED
    BY <1>9, <1>10, <1>12, <1>13 DEF EthInv
(* withdraw to the receiver, who may be a contract of the bridge itself.   *)
LEMMA WithdrawToReceiver ==
    ASSUME EthInv, NEW p \in Packet, NEW sigs \in SignatureLists(p),
           consume(TokenServiceAddr, p, sigs),
           funds[p.token][TS] >= p.amount,
           payReceiver(p),
           UNCHANGED <<tokenConfig, lists, holdingConfig, unlocked>>
    PROVE  EthInv'
  <1> DEFINE t == p.token
             u == p.receiver
             n == p.amount
  <1>1. t \in Token /\ u \in Accounts /\ n \in Nat
    BY AccountsOfAll DEF Packet
  <1>2. /\ funds' = Pay(funds, t, TS, u, n) /\ funds[t][TS] >= n
        /\ vaultFlow' = IF u = TS THEN [vaultFlow EXCEPT ![t] = @ - n] ELSE vaultFlow
        /\ UNCHANGED <<locked, unlocked>>
    BY DEF payReceiver, PaidBack
  <1>3. EthBridgeInv'
    BY EthConsumeStep DEF EthInv, EthTypes
  <1>4. \A x \in Token : Share(p, x) = (IF x = t THEN n ELSE 0)
    BY DEF Share
  <1> HIDE DEF t, u, n
  <1>5. /\ funds' \in [Token -> [Accounts -> Nat]]
        /\ \A x \in Token, a \in Accounts :
              /\ funds[x][a] \in Nat /\ funds'[x][a] \in Nat
              /\ x # t => funds'[x][a] = funds[x][a]
              /\ x = t => funds'[x][a] = funds[x][a] - (IF a = TS THEN n ELSE 0)
                                                     + (IF a = u THEN n ELSE 0)
    BY <1>1, <1>2, AccountsOfAll, FundsMoved DEF EthInv
  <1>6. /\ locked \in [Account -> [Token -> Nat]] /\ unlocked \in [Account -> [Token -> Nat]]
        /\ vaultFlow \in [Token -> Int]
    BY DEF EthInv, EthTypes, EthServiceTypeOK
  <1>7. /\ vaultFlow' \in [Token -> Int]
        /\ \A x \in Token :
              vaultFlow'[x] = vaultFlow[x] - (IF u = TS /\ x = t THEN n ELSE 0)
    BY <1>1, <1>2, <1>6
  <1>8. EthTypes'
    BY <1>2, <1>3, <1>5, <1>6, <1>7, MoneyTypes DEF EthInv
  <1>9. ReserveInv'
    <2>1. \A x \in Token : /\ funds[x][TS] \in Int /\ funds'[x][TS] \in Int
                           /\ vaultFlow[x] \in Int /\ vaultFlow'[x] \in Int
                           /\ x # t => funds'[x][TS] = funds[x][TS]
                           /\ x = t => funds'[x][TS] = funds[x][TS] - n + (IF TS = u THEN n ELSE 0)
      BY <1>1, <1>5, <1>6, <1>7, AccountsOfAll
    <2>2. \A x \in Token : /\ funds[x][TS] \in Int /\ funds'[x][TS] \in Int
                           /\ vaultFlow[x] \in Int /\ vaultFlow'[x] \in Int
                           /\ funds'[x][TS] + vaultFlow'[x] + Share(p, x)
                                = funds[x][TS] + vaultFlow[x]
      BY <2>1, <1>1, <1>4, <1>7
    <2> QED
      BY <2>2, WithdrawReserve
  <1>10. HoldingInv'
    <2>1. \A x \in Token : /\ funds[x][HOLDING] \in Nat /\ funds'[x][HOLDING] \in Nat
                           /\ funds'[x][HOLDING] >= funds[x][HOLDING]
      BY <1>1, <1>5, AccountsOfAll, ContractsDistinct
    <2> QED
      BY <1>2, <2>1, HoldingSame
  <1> QED
    BY <1>8, <1>9, <1>10 DEF EthInv

LEMMA WithdrawStep ==
    ASSUME EthInv, NEW p \in InPackets, NEW sigs \in SignatureLists(p), withdraw(p, sigs)
    PROVE  EthInv' /\ NayHeld
  <1>1. p \in Packet
    BY EthBridgeAssumption
  <1>2. /\ consume(TokenServiceAddr, p, sigs) /\ funds[p.token][TS] >= p.amount
        /\ UNCHANGED <<tokenConfig, lists, holdingConfig, unlocked>>
    BY DEF withdraw
  <1>3. \A r \in consumptions' \ consumptions :
          r.packet = p /\ r.verdict = quorumOf(p, sigs)
    BY <1>2 DEF consume, Consumption
  <1>4. CASE lock(p.receiver, p.token, p.amount)
    <2>1. EthInv' /\ \A x \in Token : funds'[x][HOLDING] - funds[x][HOLDING] = Total({p}, x)
      BY <1>1, <1>2, <1>4, WithdrawToHolding
    <2> QED
      BY <1>3, <2>1 DEF NayHeld
  <1>5. CASE quorumOf(p, sigs) = "YEA" /\ payReceiver(p)
    <2>1. EthInv'
      BY <1>1, <1>2, <1>5, WithdrawToReceiver
    <2> QED
      BY <1>3, <1>5, <2>1 DEF NayHeld
  <1> QED
    BY <1>4, <1>5 DEF withdraw

(* A payment between accounts that does not go through the bridge.  What   *)
(* the service is paid or pays is entered in vaultFlow; the holding        *)
(* contract pays nothing.                                                  *)
LEMMA PaymentStep ==
    ASSUME EthInv, NEW t \in Token, NEW from \in Accounts, NEW to \in Accounts, NEW n \in Nat,
           funds[t][from] >= n,
           funds' = Pay(funds, t, from, to, n),
           from # HOLDING, from # to,
           vaultFlow' \in [Token -> Int],
           \A x \in Token :
              vaultFlow'[x] = vaultFlow[x] + (IF x = t /\ from = TS THEN n ELSE 0)
                                           - (IF x = t /\ to = TS THEN n ELSE 0),
           UNCHANGED <<ethBridgeVars, tokenConfig, lists, holdingConfig, locked, unlocked>>
    PROVE  EthInv' /\ NayHeld
  <1>1. /\ funds' \in [Token -> [Accounts -> Nat]]
        /\ \A x \in Token, a \in Accounts :
              /\ funds[x][a] \in Nat /\ funds'[x][a] \in Nat
              /\ x # t => funds'[x][a] = funds[x][a]
              /\ x = t => funds'[x][a] = funds[x][a] - (IF a = from THEN n ELSE 0)
                                                     + (IF a = to THEN n ELSE 0)
    BY FundsMoved DEF EthInv
  <1>2. EthBridgeInv' /\ UNCHANGED <<outgoingPackets, consumedPackets, consumptions>>
    BY EthBridgeInvStep DEF ethBridgeVars, bridgeTraffic, EthInv, EthTypes
  <1>3. EthTypes'
    BY <1>1, <1>2, MoneyTypes DEF EthInv, EthTypes, EthServiceTypeOK
  <1>4. ReserveInv'
    <2>1. \A x \in Token : vaultFlow[x] \in Int /\ vaultFlow'[x] \in Int
      BY DEF EthInv, EthTypes, EthServiceTypeOK
    <2>2. ASSUME NEW x \in Token
          PROVE  /\ funds[x][TS] \in Int /\ funds'[x][TS] \in Int
                 /\ vaultFlow[x] \in Int /\ vaultFlow'[x] \in Int
                 /\ funds'[x][TS] + vaultFlow'[x] = funds[x][TS] + vaultFlow[x]
      <3>1. funds[x][TS] \in Nat /\ funds'[x][TS] \in Nat
        BY <1>1, AccountsOfAll
      <3> DEFINE paid == IF x = t /\ from = TS THEN n ELSE 0
                 got == IF x = t /\ to = TS THEN n ELSE 0
      <3>2. funds'[x][TS] = funds[x][TS] - paid + got
        BY <3>1, <1>1, AccountsOfAll
      <3>3. vaultFlow'[x] = vaultFlow[x] + paid - got /\ paid \in Nat /\ got \in Nat
        OBVIOUS
      <3> HIDE DEF paid, got
      <3> QED
        BY <2>1, <3>1, <3>2, <3>3
    <2> QED
      BY <1>2, <2>2, ReserveSame
  <1>5. HoldingInv'
    <2>1. \A x \in Token : /\ funds[x][HOLDING] \in Nat /\ funds'[x][HOLDING] \in Nat
                           /\ funds'[x][HOLDING] >= funds[x][HOLDING]
      BY <1>1, AccountsOfAll
    <2> QED
      BY <2>1, HoldingSame
  <1> QED
    BY <1>2, <1>3, <1>4, <1>5 DEF EthInv, NayHeld
(* The payments of the owner and of users: to the vault, from the vault,   *)
(* back to the service, and an ERC20 transfer to a contract.               *)
LEMMA OtherPayments ==
    ASSUME EthInv, NEW t \in Token, NEW n \in Amounts,
           \/ transferToVault(t, n)
           \/ vaultTransfer(t, n)
           \/ receive(t, n)
           \/ \E u \in User, to \in {TS, HOLDING} : donate(t, u, to, n)
    PROVE  EthInv' /\ NayHeld
  <1>1. n \in Nat /\ vaultFlow \in [Token -> Int]
    BY EthServiceAssumption DEF EthInv, EthTypes, EthServiceTypeOK
  <1>2. /\ [vaultFlow EXCEPT ![t] = @ + n] \in [Token -> Int]
        /\ \A x \in Token : [vaultFlow EXCEPT ![t] = @ + n][x]
                              = vaultFlow[x] + (IF x = t THEN n ELSE 0)
        /\ [vaultFlow EXCEPT ![t] = @ - n] \in [Token -> Int]
        /\ \A x \in Token : [vaultFlow EXCEPT ![t] = @ - n][x]
                              = vaultFlow[x] - (IF x = t THEN n ELSE 0)
        /\ \A x \in Token : vaultFlow[x] \in Int
    BY <1>1
  <1>3. CASE transferToVault(t, n)
    <2>1. /\ vaultFlow' \in [Token -> Int]
          /\ \A x \in Token :
                vaultFlow'[x] = vaultFlow[x] + (IF x = t /\ TS = TS THEN n ELSE 0)
                                             - (IF x = t /\ VAULT = TS THEN n ELSE 0)
      BY <1>1, <1>2, <1>3, ContractsDistinct DEF transferToVault
    <2> QED
      BY <1>1, <1>3, <2>1, AccountsOfAll, ContractsDistinct, PaymentStep DEF transferToVault
  <1>4. CASE vaultTransfer(t, n)
    <2>1. /\ vaultFlow' \in [Token -> Int]
          /\ \A x \in Token :
                vaultFlow'[x] = vaultFlow[x] + (IF x = t /\ VAULT = TS THEN n ELSE 0)
                                             - (IF x = t /\ OWNER = TS THEN n ELSE 0)
      BY <1>1, <1>2, <1>4, ContractsDistinct DEF vaultTransfer
    <2> QED
      BY <1>1, <1>4, <2>1, AccountsOfAll, ContractsDistinct, PaymentStep DEF vaultTransfer
  <1>5. CASE receive(t, n)
    <2>1. /\ vaultFlow' \in [Token -> Int]
          /\ \A x \in Token :
                vaultFlow'[x] = vaultFlow[x] + (IF x = t /\ OWNER = TS THEN n ELSE 0)
                                             - (IF x = t /\ TS = TS THEN n ELSE 0)
      BY <1>1, <1>2, <1>5, ContractsDistinct DEF receive
    <2> QED
      BY <1>1, <1>5, <2>1, AccountsOfAll, ContractsDistinct, PaymentStep DEF receive
  <1>6. ASSUME NEW u \in User, NEW to \in {TS, HOLDING}, donate(t, u, to, n)
        PROVE  EthInv' /\ NayHeld
    <2>1. u \in Accounts /\ to \in Accounts /\ u # TS /\ u # HOLDING /\ u # to
      BY AccountsOfAll
    <2>2. /\ vaultFlow' \in [Token -> Int]
          /\ \A x \in Token :
                vaultFlow'[x] = vaultFlow[x] + (IF x = t /\ u = TS THEN n ELSE 0)
                                             - (IF x = t /\ to = TS THEN n ELSE 0)
      BY <1>1, <1>2, <1>6, <2>1 DEF donate, PaidBack
    <2> QED
      BY <1>1, <1>6, <2>1, <2>2, PaymentStep DEF donate
  <1> QED
    BY <1>3, <1>4, <1>5, <1>6

(* unlock: what is owed moves from locked to unlocked.                     *)
LEMMA UnlockStep ==
    ASSUME EthInv, NEW u \in Account, NEW t \in Token, NEW n \in Amounts, unlock(u, t, n)
    PROVE  EthInv' /\ NayHeld
  <1>1. /\ n \in Nat
        /\ locked \in [Account -> [Token -> Nat]] /\ unlocked \in [Account -> [Token -> Nat]]
        /\ vaultFlow \in [Token -> Int] /\ funds \in [Token -> [Accounts -> Nat]]
    BY EthServiceAssumption DEF EthInv, EthTypes, EthServiceTypeOK
  <1>2. EthBridgeInv' /\ UNCHANGED <<outgoingPackets, consumedPackets, consumptions>>
    BY EthBridgeInvStep DEF unlock, ethBridgeVars, bridgeTraffic, EthInv, EthTypes
  <1>3. /\ locked[u][t] >= n
        /\ locked' = [locked EXCEPT ![u][t] = @ - n]
        /\ unlocked' = [unlocked EXCEPT ![u][t] = @ + n]
        /\ UNCHANGED <<tokenConfig, lists, holdingConfig, funds, vaultFlow>>
    BY DEF unlock
  <1>4. /\ locked' \in [Account -> [Token -> Nat]] /\ locked'[u][t] = locked[u][t] - n
        /\ unlocked' \in [Account -> [Token -> Nat]] /\ unlocked'[u][t] = unlocked[u][t] + n
    BY <1>1, <1>3
  <1>5. ChangedOnlyAt(u, t, locked', unlocked')
    BY <1>1, <1>3, <1>4 DEF ChangedOnlyAt
  <1>6. EthTypes'
    BY <1>1, <1>2, <1>3, <1>4, MoneyTypes DEF EthInv
  <1>7. \A x \in Token : /\ funds[x][TS] \in Nat /\ vaultFlow[x] \in Int
                         /\ funds[x][HOLDING] \in Nat
    BY <1>1, AccountsOfAll
  <1>8. ReserveInv'
    BY <1>2, <1>3, <1>7, ReserveSame
  <1>9. HoldingInv'
    <2>1. PICK h \in Nat : h = locked[u][t] + unlocked[u][t] /\ h = locked'[u][t] + unlocked'[u][t]
      <3>1. locked[u][t] \in Nat /\ unlocked[u][t] \in Nat
        BY <1>1
      <3> QED
        BY <1>1, <1>4, <3>1
    <2>2. /\ \A x \in Token : funds[x][HOLDING] \in Nat /\ funds'[x][HOLDING] \in Nat
          /\ \A x \in Token \ {t} : funds'[x][HOLDING] = funds[x][HOLDING]
          /\ funds'[t][HOLDING] + h >= funds[t][HOLDING] + h
      BY <1>3, <1>7
    <2> QED
      BY <1>5, <2>1, <2>2, HoldingChanged
  <1> QED
    BY <1>2, <1>6, <1>8, <1>9 DEF EthInv, NayHeld

(* release: the holding contract pays what it forgets, be the receiver a   *)
(* contract of the bridge.                                                 *)
LEMMA ReleaseStep ==
    ASSUME EthInv, NEW u \in Account, NEW t \in Token, release(u, t)
    PROVE  EthInv' /\ NayHeld
  <1> DEFINE n == unlocked[u][t]
  <1>1. /\ locked \in [Account -> [Token -> Nat]] /\ unlocked \in [Account -> [Token -> Nat]]
        /\ vaultFlow \in [Token -> Int]
    BY DEF EthInv, EthTypes, EthServiceTypeOK
  <1>2. EthBridgeInv' /\ UNCHANGED <<outgoingPackets, consumedPackets, consumptions>>
    BY EthBridgeInvStep DEF release, ethBridgeVars, bridgeTraffic, EthInv, EthTypes
  <1>3. /\ n \in Nat /\ u \in Accounts
        /\ funds[t][HOLDING] >= n
        /\ funds' = Pay(funds, t, HOLDING, u, n)
        /\ vaultFlow' = IF u = TS THEN [vaultFlow EXCEPT ![t] = @ - n] ELSE vaultFlow
        /\ unlocked' = [unlocked EXCEPT ![u][t] = 0]
        /\ UNCHANGED <<tokenConfig, lists, holdingConfig, locked>>
    BY <1>1, AccountsOfAll DEF release, PaidBack
  <1>4. /\ locked' \in [Account -> [Token -> Nat]] /\ locked'[u][t] = locked[u][t]
        /\ unlocked' \in [Account -> [Token -> Nat]] /\ unlocked'[u][t] = 0
    BY <1>1, <1>3
  <1>5. ChangedOnlyAt(u, t, locked', unlocked')
    BY <1>1, <1>3, <1>4 DEF ChangedOnlyAt
  <1>6. PICK h0 \in Nat, h1 \in Nat : /\ h0 = locked[u][t] + unlocked[u][t]
                                      /\ h1 = locked'[u][t] + unlocked'[u][t]
                                      /\ h0 = h1 + n
    <2>1. locked[u][t] \in Nat /\ unlocked[u][t] \in Nat
      BY <1>1
    <2>2. locked[u][t] + unlocked[u][t] \in Nat
      BY <2>1
    <2>3. locked'[u][t] + unlocked'[u][t] = locked[u][t]
      BY <1>4, <2>1
    <2> QED
      BY <2>1, <2>2, <2>3
  <1>7. /\ vaultFlow' \in [Token -> Int]
        /\ \A x \in Token : /\ vaultFlow[x] \in Int
                            /\ vaultFlow'[x] = vaultFlow[x] - (IF u = TS /\ x = t THEN n ELSE 0)
    BY <1>1, <1>3
  <1> HIDE DEF n
  <1>8. /\ funds' \in [Token -> [Accounts -> Nat]]
        /\ \A x \in Token, a \in Accounts :
              /\ funds[x][a] \in Nat /\ funds'[x][a] \in Nat
              /\ x # t => funds'[x][a] = funds[x][a]
              /\ x = t => funds'[x][a] = funds[x][a] - (IF a = HOLDING THEN n ELSE 0)
                                                     + (IF a = u THEN n ELSE 0)
    BY <1>3, AccountsOfAll, FundsMoved DEF EthInv
  <1>9. EthTypes'
    BY <1>2, <1>3, <1>4, <1>7, <1>8, MoneyTypes DEF EthInv
  <1>10. ReserveInv'
    <2>1. ASSUME NEW x \in Token
          PROVE  /\ funds[x][TS] \in Int /\ funds'[x][TS] \in Int
                 /\ vaultFlow[x] \in Int /\ vaultFlow'[x] \in Int
                 /\ funds'[x][TS] + vaultFlow'[x] = funds[x][TS] + vaultFlow[x]
      <3>1. /\ funds[x][TS] \in Nat /\ funds'[x][TS] \in Nat
            /\ funds'[x][TS] = funds[x][TS] + (IF x = t /\ TS = u THEN n ELSE 0)
        BY <1>3, <1>8, AccountsOfAll, ContractsDistinct
      <3>2. /\ vaultFlow[x] \in Int
            /\ vaultFlow'[x] = vaultFlow[x] - (IF x = t /\ TS = u THEN n ELSE 0)
        BY <1>7
      <3> QED
        BY <1>3, <3>1, <3>2
    <2> QED
      BY <1>2, <2>1, ReserveSame
  <1>11. HoldingInv'
    <2>1. /\ \A x \in Token : funds[x][HOLDING] \in Nat /\ funds'[x][HOLDING] \in Nat
          /\ \A x \in Token \ {t} : funds'[x][HOLDING] = funds[x][HOLDING]
      BY <1>8, AccountsOfAll
    <2>2. funds'[t][HOLDING] = funds[t][HOLDING] - n + (IF HOLDING = u THEN n ELSE 0)
      BY <1>8, AccountsOfAll
    <2>3. funds'[t][HOLDING] + h0 >= funds[t][HOLDING] + h1
      BY <1>3, <1>6, <2>1, <2>2
    <2> QED
      BY <1>5, <1>6, <2>1, <2>3, HoldingChanged
  <1> QED
    BY <1>2, <1>9, <1>10, <1>11 DEF EthInv, NayHeld
-----------------------------------------------------------------------------
(* The steps that move no money. *)
LEMMA SettingStep ==
    ASSUME EthInv, EthBridgeInv', UNCHANGED <<outgoingPackets, consumedPackets, consumptions, money>>,
           DOMAIN supportedTokens' \subseteq Token,
           \A t \in DOMAIN supportedTokens' :
              supportedTokens'[t] \in [vault : {VAULT, NoVault}, min : Nat, max : Nat,
                                       enabled : BOOLEAN],
           servicePaused' \in BOOLEAN, holdingSet' \in BOOLEAN, holdingPaused' \in BOOLEAN,
           blackLists' \subseteq User, issuerLists' \subseteq User,
           holdingServices' \subseteq Service
    PROVE  EthInv' /\ NayHeld
  <1>1. EthTypes'
    BY DEF EthInv, EthTypes, EthServiceTypeOK, EthBridgeInv, money
  <1>2. \A t \in Token : /\ funds[t][TS] \in Nat /\ vaultFlow[t] \in Int
                         /\ funds[t][HOLDING] \in Nat
    BY AccountsOfAll DEF EthInv, EthTypes, EthServiceTypeOK
  <1>3. UNCHANGED <<funds, vaultFlow, locked, unlocked>>
    BY DEF money
  <1>4. ReserveInv'
    BY <1>2, <1>3, ReserveSame
  <1>5. HoldingInv'
    BY <1>2, <1>3, HoldingSame
  <1> QED
    BY <1>1, <1>4, <1>5 DEF EthInv, NayHeld

(* TokenSupport: the owner edits the entry of a token.                     *)
LEMMA TokenSettingStep ==
    ASSUME EthInv, NEW t \in Token,
           \/ \E c \in Chain, v \in {VAULT, NoVault}, min, max \in Amounts :
                 addToken(t, c, v, min, max)
           \/ removeToken(t)
           \/ \E v \in {VAULT, NoVault} : updateVault(t, v)
           \/ enable(t)
           \/ disable(t)
           \/ \E n \in Amounts : updateMinValue(t, n) \/ updateMaxValue(t, n)
    PROVE  EthInv' /\ NayHeld
  <1> DEFINE Entry == [vault : {VAULT, NoVault}, min : Nat, max : Nat, enabled : BOOLEAN]
             D == DOMAIN supportedTokens
  <1>1. /\ D \subseteq Token /\ \A x \in D : supportedTokens[x] \in Entry
        /\ servicePaused \in BOOLEAN /\ holdingSet \in BOOLEAN /\ holdingPaused \in BOOLEAN
        /\ blackLists \subseteq User /\ issuerLists \subseteq User /\ holdingServices \subseteq Service
        /\ EthBridgeInv
    BY DEF EthInv, EthTypes, EthServiceTypeOK
  <1>2. Amounts \subseteq Nat
    BY EthServiceAssumption
  <1>3. ASSUME NEW new, SetTokens(new), DOMAIN new \subseteq Token,
               \A x \in DOMAIN new : new[x] \in Entry
        PROVE  EthInv' /\ NayHeld
    <2>1. /\ UNCHANGED <<outgoingPackets, consumedPackets, consumptions, money>>
          /\ UNCHANGED <<servicePaused, holdingSet, holdingPaused, blackLists, issuerLists,
                         holdingServices>>
      BY <1>3 DEF SetTokens, ethBridgeVars, bridgeTraffic, lists, holdingConfig
    <2>2. EthBridgeInv'
      BY <1>1, <1>3, EthBridgeInvStep DEF SetTokens
    <2>3. supportedTokens' = new
      BY <1>3 DEF SetTokens
    <2> QED
      BY <1>1, <1>3, <2>1, <2>2, <2>3, SettingStep
  <1>4. ASSUME NEW e \in Entry
        PROVE  LET new == [x \in D \cup {t} |-> IF x = t THEN e ELSE supportedTokens[x]]
               IN  DOMAIN new \subseteq Token /\ \A x \in DOMAIN new : new[x] \in Entry
    BY <1>1
  <1>5. ASSUME NEW e \in Entry, t \in D
        PROVE  LET new == [supportedTokens EXCEPT ![t] = e]
               IN  DOMAIN new \subseteq Token /\ \A x \in DOMAIN new : new[x] \in Entry
    BY <1>1, <1>5
  <1>6. ASSUME NEW c \in Chain, NEW v \in {VAULT, NoVault}, NEW min \in Amounts,
               NEW max \in Amounts, addToken(t, c, v, min, max)
        PROVE  EthInv' /\ NayHeld
    <2>1. [vault |-> v, min |-> min, max |-> max, enabled |-> TRUE] \in Entry
      BY <1>2
    <2> QED
      BY <1>3, <1>4, <1>6, <2>1 DEF addToken
  <1>7. CASE removeToken(t)
    BY <1>1, <1>3, <1>7 DEF removeToken
  <1>8. ASSUME NEW v \in {VAULT, NoVault}, updateVault(t, v)
        PROVE  EthInv' /\ NayHeld
    <2>1. /\ t \in D /\ [supportedTokens[t] EXCEPT !.vault = v] \in Entry
          /\ SetTokens([supportedTokens EXCEPT ![t] = [supportedTokens[t] EXCEPT !.vault = v]])
      BY <1>1, <1>8 DEF updateVault, isSupportedToken
    <2> QED
      BY <1>3, <1>5, <2>1
  <1>9. CASE enable(t)
    <2>1. /\ t \in D /\ [supportedTokens[t] EXCEPT !.enabled = TRUE] \in Entry
          /\ SetTokens([supportedTokens EXCEPT ![t] = [supportedTokens[t] EXCEPT !.enabled = TRUE]])
      BY <1>1, <1>9 DEF enable, isSupportedToken
    <2> QED
      BY <1>3, <1>5, <2>1
  <1>10. CASE disable(t)
    <2>1. /\ t \in D /\ [supportedTokens[t] EXCEPT !.enabled = FALSE] \in Entry
          /\ SetTokens([supportedTokens EXCEPT ![t] = [supportedTokens[t] EXCEPT !.enabled = FALSE]])
      BY <1>1, <1>10 DEF disable, isEnabledToken, isSupportedToken
    <2> QED
      BY <1>3, <1>5, <2>1
  <1>11. ASSUME NEW n \in Amounts, updateMinValue(t, n)
         PROVE  EthInv' /\ NayHeld
    <2>1. /\ t \in D /\ [supportedTokens[t] EXCEPT !.min = n] \in Entry
          /\ SetTokens([supportedTokens EXCEPT ![t] = [supportedTokens[t] EXCEPT !.min = n]])
      BY <1>1, <1>2, <1>11 DEF updateMinValue, isSupportedToken
    <2> QED
      BY <1>3, <1>5, <2>1
  <1>12. ASSUME NEW n \in Amounts, updateMaxValue(t, n)
         PROVE  EthInv' /\ NayHeld
    <2>1. /\ t \in D /\ [supportedTokens[t] EXCEPT !.max = n] \in Entry
          /\ SetTokens([supportedTokens EXCEPT ![t] = [supportedTokens[t] EXCEPT !.max = n]])
      BY <1>1, <1>2, <1>12 DEF updateMaxValue, isSupportedToken
    <2> QED
      BY <1>3, <1>5, <2>1
  <1> QED
    BY <1>6, <1>7, <1>8, <1>9, <1>10, <1>11, <1>12

(* Pausing, wiring, blacklists and the settings of the holding contract.   *)
LEMMA OtherSettingStep ==
    ASSUME EthInv,
           \/ pauseService
           \/ setHolding
           \/ \E u \in User : addToBlackList(u) \/ removeFromBlackList(u)
           \/ \E new \in SUBSET User : IssuerUpdates(new)
           \/ \E s \in Service : addHoldingService(s) \/ removeHoldingService(s)
           \/ pauseHolding
    PROVE  EthInv' /\ NayHeld
  <1>1. /\ UNCHANGED <<ethBridgeVars, money, supportedTokens>>
        /\ servicePaused' \in BOOLEAN /\ holdingSet' \in BOOLEAN /\ holdingPaused' \in BOOLEAN
        /\ blackLists' \subseteq User /\ issuerLists' \subseteq User
        /\ holdingServices' \subseteq Service
    BY DEF EthInv, EthTypes, EthServiceTypeOK, pauseService, setHolding, addToBlackList,
           removeFromBlackList, IssuerUpdates, addHoldingService, removeHoldingService, pauseHolding,
           tokenConfig, lists, holdingConfig
  <1>2. EthBridgeInv' /\ UNCHANGED <<outgoingPackets, consumedPackets, consumptions>>
    BY <1>1, EthBridgeInvStep DEF ethBridgeVars, bridgeTraffic, EthInv, EthTypes
  <1>3. /\ DOMAIN supportedTokens' \subseteq Token
        /\ \A t \in DOMAIN supportedTokens' :
              supportedTokens'[t] \in [vault : {VAULT, NoVault}, min : Nat, max : Nat,
                                       enabled : BOOLEAN]
    BY <1>1 DEF EthInv, EthTypes, EthServiceTypeOK
  <1> QED
    BY <1>1, <1>2, <1>3, SettingStep

-----------------------------------------------------------------------------
(* EthInv holds initially and every step of the contracts preserves it.    *)
LEMMA EthInvInit == EthInit => EthInv
  <1> SUFFICES ASSUME EthInit PROVE EthInv
    OBVIOUS
  <1>1. DOMAIN outgoingPackets = {} /\ DOMAIN consumedPackets = {} /\ DOMAIN supportedTokens = {}
    BY DEF EthInit, EthBridgeReady
  <1>2. EthBridgeInv
    <2>1. EthBridgeTypeOK
      BY <1>1, EthServiceAssumption DEF EthInit, EthBridgeReady, EthBridgeTypeOK
    <2>2. ConsumedOnceEth /\ OutgoingContiguous
      BY <1>1 DEF EthInit, EthBridgeReady, ConsumedOnceEth, OutgoingContiguous
    <2> QED
      BY <2>1, <2>2 DEF EthBridgeInv
  <1>3. /\ funds \in [Token -> [Accounts -> Nat]]
        /\ \A t \in Token : funds[t][TS] = 0 /\ funds[t][HOLDING] = 0
    BY EthServiceAssumption, AccountsOfAll DEF EthInit
  <1>4. EthTypes
    <2>1. /\ locked \in [Account -> [Token -> Nat]] /\ unlocked \in [Account -> [Token -> Nat]]
          /\ vaultFlow \in [Token -> Int]
      BY DEF EthInit
    <2>2. /\ blackLists \subseteq User /\ issuerLists \subseteq User
          /\ holdingServices \subseteq Service
      BY EthServiceAssumption DEF EthInit
    <2>3. servicePaused \in BOOLEAN /\ holdingSet \in BOOLEAN /\ holdingPaused \in BOOLEAN
      BY DEF EthInit
    <2> QED
      BY <1>1, <1>2, <1>3, <2>1, <2>2, <2>3 DEF EthTypes, EthServiceTypeOK, EthBridgeInv
  <1>5. ReserveInv
    <2>1. Sent = {} /\ Withdrawn = {}
      BY <1>1 DEF Sent, Withdrawn
    <2>2. \A t \in Token : vaultFlow[t] = 0
      BY DEF EthInit
    <2> QED
      BY <1>3, <2>1, <2>2, TotalEmpty DEF ReserveInv, ReserveAccounted
  <1>6. HoldingInv
    <2>1. \A t \in Token : \A u \in Account : Owed(locked, unlocked, t)[u] = 0
      BY DEF EthInit, Owed
    <2>2. \A t \in Token : /\ IsFiniteSet(UnitsOf(Owed(locked, unlocked, t)))
                           /\ SumOf(Owed(locked, unlocked, t)) = 0
      <3> TAKE t \in Token
      <3>1. DOMAIN Owed(locked, unlocked, t) = Account
        BY DEF Owed
      <3> QED
        BY <2>1, <3>1, SumZero
    <2>3. \A t \in Token : SumOf(Owed(locked, unlocked, t)) <= funds[t][HOLDING]
      BY <1>3, <2>2
    <2> QED
      BY <2>2, <2>3 DEF HoldingInv, HoldingSolvent, Owed
  <1> QED
    BY <1>4, <1>5, <1>6 DEF EthInv

LEMMA EthInvStep ==
    ASSUME EthInv, [EthNext]_ethVars
    PROVE  EthInv' /\ NayHeld
  <1>1. CASE TokenOwnerCall
    <2>1. CASE pauseService \/ setHolding \/ \E u \in User : addToBlackList(u) \/ removeFromBlackList(u)
      BY <2>1, OtherSettingStep
    <2>2. ASSUME NEW t \in Token, NEW n \in Amounts,
                 transferToVault(t, n) \/ vaultTransfer(t, n) \/ receive(t, n)
          PROVE  EthInv' /\ NayHeld
      BY <2>2, OtherPayments
    <2>3. ASSUME NEW t \in Token,
                 \/ \E c \in Chain, v \in {VAULT, NoVault}, min, max \in Amounts :
                       addToken(t, c, v, min, max)
                 \/ removeToken(t)
                 \/ \E v \in {VAULT, NoVault} : updateVault(t, v)
                 \/ enable(t)
                 \/ disable(t)
                 \/ \E n \in Amounts : updateMinValue(t, n) \/ updateMaxValue(t, n)
          PROVE  EthInv' /\ NayHeld
      BY <2>3, TokenSettingStep
    <2> QED
      BY <1>1, <2>1, <2>2, <2>3 DEF TokenOwnerCall
  <1>2. CASE HoldingCall
    BY <1>2, OtherSettingStep, UnlockStep, ReleaseStep DEF HoldingCall
  <1>3. CASE UserCall
    BY <1>3, TransferStep, WithdrawStep, OtherPayments DEF UserCall
  <1>4. ASSUME NEW new \in SUBSET User, IssuerUpdates(new)
        PROVE  EthInv' /\ NayHeld
    BY <1>4, OtherSettingStep
  <1>5. ASSUME EthBridgeInv', UNCHANGED <<bridgeTraffic, ethServiceVars>>
        PROVE  EthInv' /\ NayHeld
    BY <1>5, SettingStep DEF EthInv, EthTypes, EthServiceTypeOK, bridgeTraffic, ethServiceVars,
                             tokenConfig, lists, holdingConfig
  <1>6. CASE NewEthBlock /\ UNCHANGED ethServiceVars
    <2>1. EthBridgeInv' /\ UNCHANGED bridgeTraffic
      <3>1. EthBridgeInv /\ EthBridgeTypeOK /\ UNCHANGED <<bridgeSettings, bridgeTraffic>>
        BY <1>6 DEF NewEthBlock, EthInv, EthTypes, EthBridgeInv
      <3> QED
        BY <1>6, <3>1, EthBridgeFrame DEF NewEthBlock, EthBridgeTypeOK, bridgeSettings
    <2> QED
      BY <1>5, <1>6, <2>1
  <1>7. CASE UNCHANGED ethVars
    <2>1. EthBridgeInv' /\ UNCHANGED bridgeTraffic
      BY <1>7, EthBridgeInvStep DEF ethVars, ethBridgeVars, EthInv, EthTypes
    <2> QED
      BY <1>5, <1>7, <2>1 DEF ethVars
  <1> QED
    BY <1>1, <1>2, <1>3, <1>4, <1>6, <1>7 DEF EthNext

(* The storage of TokenService.sol, Holding.sol and the lists keeps its    *)
(* types: no balance, lock or release goes below zero.                     *)
THEOREM EthServiceTypeCorrect == EthSpec => []EthServiceTypeOK
  <1>1. EthInv => EthServiceTypeOK
    BY DEF EthInv, EthTypes
  <1>2. EthInv /\ [EthNext]_ethVars => EthInv'
    BY EthInvStep
  <1> QED
    BY <1>1, <1>2, EthInvInit, PTL DEF EthSpec

(* transfer and withdraw account for every unit the service holds.         *)
THEOREM EthReserveAccounted == EthSpec => []ReserveAccounted
  <1>1. EthInv => ReserveAccounted
    BY DEF EthInv, ReserveInv
  <1>2. EthInv /\ [EthNext]_ethVars => EthInv'
    BY EthInvStep
  <1> QED
    BY <1>1, <1>2, EthInvInit, PTL DEF EthSpec

(* Holding.sol can pay what it has locked and unlocked for all receivers.  *)
THEOREM EthHoldingSolvent == EthSpec => []HoldingSolvent
  <1>1. EthInv => HoldingSolvent
    BY DEF EthInv, HoldingInv
  <1>2. EthInv /\ [EthNext]_ethVars => EthInv'
    BY EthInvStep
  <1> QED
    BY <1>1, <1>2, EthInvInit, PTL DEF EthSpec

(* withdraw pays a packet without a YEA into the holding contract.         *)
THEOREM EthNayGoesToHolding == EthSpec => NayGoesToHolding
  <1>1. EthInv /\ [EthNext]_ethVars => EthInv'
    BY EthInvStep
  <1>2. EthInv /\ [EthNext]_ethVars
          => [\A r \in consumptions' \ consumptions :
                r.verdict # "YEA" =>
                    \A t \in Token :
                        funds'[t][HOLDING] - funds[t][HOLDING] = Total({r.packet}, t)]_ethVars
    BY EthInvStep DEF NayHeld
  <1> QED
    BY <1>1, <1>2, EthInvInit, PTL DEF EthSpec, NayGoesToHolding
=============================================================================
