--------------------------- MODULE VerulinkProofs ---------------------------
(***************************************************************************)
(* The whole bridge implements the ideal one, and its reserve backs the    *)
(* supply and everything in flight: for any number of attestors of which   *)
(* fewer than the threshold misbehave, any tokens, users and amounts.      *)
(***************************************************************************)
EXTENDS Verulink, PacketTotals

(* Both bridges keep the attestors and the threshold they started with.    *)
Attesting ==
    /\ attestors = Address /\ threshold = Threshold
    /\ isAttestor = Attestor /\ quorumRequired = Threshold
    /\ destinationChainId = ALEO_CHAIN_ID

(* Packets of Aleo go to Ethereum and are stored under their own number,   *)
(* below the counter.                                                      *)
AleoPublishes ==
    /\ sequences \in [Chain -> Nat] /\ block_height \in Nat
    /\ \A id \in DOMAIN out_packets :
          /\ out_packets[id] \in Packet
          /\ out_packets[id].src = ALEO_CHAIN_ID /\ out_packets[id].dst = ETH_CHAIN_ID
          /\ id = <<ETH_CHAIN_ID, out_packets[id].sequence>>
          /\ out_packets[id].sequence < sequences[ETH_CHAIN_ID]

(* Packets of Ethereum go to the service on Aleo, likewise.                *)
EthPublishes ==
    /\ sequence \in Nat /\ blockNumber \in Nat
    /\ \A n \in DOMAIN outgoingPackets :
          /\ outgoingPackets[n] \in Packet
          /\ outgoingPackets[n].src = ETH_CHAIN_ID
          /\ outgoingPackets[n].dstService = AleoTS
          /\ n = outgoingPackets[n].sequence
          /\ n <= sequence

(* What took effect is marked, so that it cannot again.                    *)
Marked ==
    /\ \A r \in received : <<r.packet.src, r.packet.sequence>> \in in_packet_consumed
    /\ \A n \in DOMAIN consumedPackets : consumedPackets[n].sequence = n

(* The collector has signatures of honest attestors over sent packets.     *)
SignedWhatWasSent ==
    \A s \in collected : s.signer \notin Faulty /\ s.packet \in SentByAleo \cup SentByEth

Books ==
    /\ DOMAIN total_supply \subseteq Token
    /\ \A t \in DOMAIN total_supply : total_supply[t] \in Nat
    /\ funds \in [Token -> [E!Accounts -> Nat]]
    /\ vaultFlow \in [Token -> Int]
    /\ locked \in [Account -> [Token -> Nat]] /\ unlocked \in [Account -> [Token -> Nat]]

ToAleo == SentByEth \ ConsumedByAleo
ToEth  == SentByAleo \ ConsumedByEth

Frame == Attesting /\ AleoPublishes /\ EthPublishes /\ Marked /\ Books

VerulinkInv ==
    /\ Frame
    /\ SignedWhatWasSent
    /\ OnlySentConsumed
    /\ FiniteUnits(ToAleo) /\ FiniteUnits(ToEth)
    /\ FullyBacked

-----------------------------------------------------------------------------
(* Counting attestors *)

(* As many pairwise different signers as the threshold are not all faulty. *)
LEMMA SomeoneHonest ==
    ASSUME NEW S, NEW f, f \in [S -> Attestor],
           \A i, j \in S : i # j => f[i] # f[j],
           Cardinality(S) \in Nat, Cardinality(S) >= Threshold
    PROVE  \E i \in S : f[i] \notin Faulty
  <1> SUFFICES ASSUME \A i \in S : f[i] \in Faulty PROVE FALSE
    OBVIOUS
  <1>1. IsFiniteSet(Faulty) /\ Cardinality(Faulty) \in Nat /\ Cardinality(Faulty) < Threshold
    BY VerulinkAssumption, FS_Subset, FS_CardinalityType DEF Attestor
  <1>2. Threshold \in Nat
    BY VerulinkAssumption
  <1>3. f \in Injection(S, Faulty)
    <2>1. f \in [S -> Faulty]
      OBVIOUS
    <2> QED
      BY <2>1, Fun_IsInj
  <1>4. Cardinality(S) <= Cardinality(Faulty)
    BY <1>1, <1>3, FS_Injection
  <1> QED
    BY <1>1, <1>2, <1>4

(* get_majority_count and the threshold: an honest attestor signed what is *)
(* consumed on Aleo, and the collector has that signature.                 *)
LEMMA AleoConsumesSigned ==
    ASSUME Attesting, NEW pkt,
           NEW signs \in [A!Slots -> (UNION {Available(a, pkt) : a \in Attestor}) \cup {Padding(pkt)}],
           A!consume(AleoTS, pkt, [i \in A!Slots |-> signs[i].signer], signs)
    PROVE  \E s \in collected : s.packet = pkt
  <1> DEFINE signers == [i \in A!Slots |-> signs[i].signer]
             v == A!Majority(pkt, signers, signs)
             S == A!VotedSlots(pkt, signers, signs, v)
  <1>1. /\ A!UniqueAddresses(signers)
        /\ Cardinality(S) >= Threshold
    <2>1. A!MajorityExists(pkt, signers, signs) /\ A!votes(pkt, signers, signs) >= threshold
      BY DEF A!consume
    <2>2. A!Cardinality(S) = Cardinality(S)
      BY DEF Cardinality, A!Cardinality
    <2> QED
      BY <2>1, <2>2 DEF A!MajorityExists, A!votes, A!VoteCount, Attesting
  <1>2. /\ S \subseteq A!UsedSlots(signers) /\ S \subseteq A!Slots
        /\ \A i \in S : signers[i] # 0 /\ signs[i] = Sign(signers[i], pkt, v)
    BY DEF A!VotedSlots, A!UsedSlots, A!Verify, A!Sign, Sign, A!ZERO_ADDRESS
  <1>3. Cardinality(S) \in Nat
    <2>1. IsFiniteSet(A!Slots)
      BY FS_Interval, SupportedThresholdAssumption DEF A!Slots
    <2> QED
      BY <1>2, <2>1, FS_Subset, FS_CardinalityType
  <1>4. \A i \in S : \E a \in Attestor : signs[i] \in Available(a, pkt) /\ a = signers[i]
    <2> SUFFICES ASSUME NEW i \in S
                 PROVE  \E a \in Attestor : signs[i] \in Available(a, pkt) /\ a = signers[i]
      OBVIOUS
    <2>1. signs[i].signer = signers[i] /\ signers[i] # 0
      BY <1>2
    <2>2. signs[i] # Padding(pkt)
      BY <2>1 DEF Padding, Sign, ZERO_ADDRESS
    <2>3. PICK a \in Attestor : signs[i] \in Available(a, pkt)
      BY <1>2, <2>2
    <2>4. signs[i].signer = a
      BY <2>3 DEF Available, Sign
    <2> QED
      BY <2>1, <2>3, <2>4
  <1>5. \E i \in S : signers[i] \notin Faulty
    <2> DEFINE f == [i \in S |-> signers[i]]
    <2>1. f \in [S -> Attestor]
      BY <1>4
    <2>2. \A i, j \in S : i # j => f[i] # f[j]
      BY <1>1, <1>2 DEF A!UniqueAddresses
    <2>3. \E i \in S : f[i] \notin Faulty
      <3> HIDE DEF S, f
      <3> QED
        BY <1>1, <1>3, <2>1, <2>2, SomeoneHonest
    <2> QED
      BY <2>3
  <1>6. PICK i \in S : signers[i] \notin Faulty
    BY <1>5
  <1>7. signs[i] \in collected /\ signs[i].packet = pkt
    BY <1>2, <1>4, <1>6 DEF Available, Sign
  <1> QED
    BY <1>7

(* The require statements of _checkSignatures, likewise on Ethereum.       *)
LEMMA EthConsumesSigned ==
    ASSUME Attesting, NEW pkt, NEW n \in 0 .. Cardinality(Attestor),
           NEW signatures \in [1 .. n -> UNION {Available(a, pkt) : a \in Attestor}],
           E!consume(EthTS, pkt, signatures)
    PROVE  \E s \in collected : s.packet = pkt
  <1>1. n \in Nat
    <2>1. Cardinality(Attestor) \in Nat
      BY VerulinkAssumption, FS_Subset, FS_CardinalityType DEF Attestor
    <2> QED
      BY <2>1
  <1>2. Cardinality(1 .. n) = n /\ DOMAIN signatures = 1 .. n
    <2>1. 1 \in Int /\ n \in Int
      BY <1>1
    <2>2. Cardinality(1 .. n) = IF 1 > n THEN 0 ELSE n - 1 + 1
      BY <2>1, FS_Interval
    <2> QED
      BY <1>1, <2>2
  <1>3. Len(signatures) = n
    BY <1>1, <1>2
  <1>4. /\ n >= Threshold
        /\ \A i \in 1 .. n : signatures[i].signer \in Attestor
        /\ \A i, j \in 1 .. n : i < j => signatures[i].signer < signatures[j].signer
    BY <1>2, <1>3 DEF E!consume, E!SignaturesValid, Attesting
  <1>5. \E i \in 1 .. n : signatures[i].signer \notin Faulty
    <2> DEFINE f == [i \in 1 .. n |-> signatures[i].signer]
    <2>1. f \in [1 .. n -> Attestor]
      BY <1>4
    <2>2. \A i, j \in 1 .. n : i # j => f[i] # f[j]
      <3>1. \A i \in 1 .. n : f[i] \in Nat
        BY <2>1, VerulinkAssumption DEF Attestor
      <3> QED
        BY <1>1, <1>4, <3>1
    <2>3. \E i \in 1 .. n : f[i] \notin Faulty
      <3> HIDE DEF f
      <3> QED
        BY <1>1, <1>2, <1>4, <2>1, <2>2, SomeoneHonest
    <2> QED
      BY <2>3
  <1>6. PICK i \in 1 .. n : signatures[i].signer \notin Faulty
    BY <1>5
  <1>7. signatures[i] \in collected /\ signatures[i].packet = pkt
    BY <1>6 DEF Available, Sign
  <1> QED
    BY <1>7
-----------------------------------------------------------------------------
(* Effects on the accounts of the whole bridge *)

LEMMA BooksTyped ==
    ASSUME Books, NEW t \in Token
    PROVE  Reserve(t) \in Int /\ A!Supply(t) \in Nat /\ funds[t][TSAccount] \in Nat
  BY DEF Books, Reserve, A!Supply, E!Accounts

(* A step that publishes and consumes nothing and moves as much through    *)
(* the reserve as through the vault is invisible in the ideal bridge.      *)
LEMMA QuietStep ==
    ASSUME VerulinkInv, Frame',
           UNCHANGED <<out_packets, received, outgoingPackets, consumedPackets, total_supply>>,
           \A t \in Token : Reserve(t)' = Reserve(t),
           SignedWhatWasSent'
    PROVE  VerulinkInv' /\ UNCHANGED Ideal!idealVars
  <1>1. /\ SentByAleo' = SentByAleo /\ SentByEth' = SentByEth
        /\ ConsumedByAleo' = ConsumedByAleo /\ ConsumedByEth' = ConsumedByEth
    BY DEF SentByAleo, SentByEth, ConsumedByAleo, ConsumedByEth
  <1>2. \A t \in Token : A!Supply(t)' = A!Supply(t)
    BY DEF A!Supply
  <1>3. ToAleo' = ToAleo /\ ToEth' = ToEth
    BY <1>1 DEF ToAleo, ToEth
  <1>4. OnlySentConsumed'
    BY <1>1 DEF OnlySentConsumed, VerulinkInv
  <1>5. FullyBacked'
    BY <1>1, <1>2 DEF FullyBacked, VerulinkInv
  <1>6. FiniteUnits(ToAleo)' /\ FiniteUnits(ToEth)'
    BY <1>3 DEF VerulinkInv, FiniteUnits
  <1>7. UNCHANGED Ideal!idealVars
    BY <1>1, <1>2 DEF Ideal!idealVars
  <1> QED
    BY <1>4, <1>5, <1>6, <1>7 DEF VerulinkInv

(* The signatures collected stay good when more is sent.                   *)
LEMMA SignedStays ==
    ASSUME SignedWhatWasSent, UNCHANGED collected,
           SentByAleo \subseteq SentByAleo', SentByEth \subseteq SentByEth'
    PROVE  SignedWhatWasSent'
  BY DEF SignedWhatWasSent

(* A packet sent on Ethereum with its amount paid in.                      *)
LEMMA DepositEffect ==
    ASSUME VerulinkInv, Frame', NEW p \in Packet, p \notin SentByEth \cup SentByAleo,
           SentByEth' = SentByEth \cup {p},
           UNCHANGED <<out_packets, received, consumedPackets, total_supply, collected>>,
           \A t \in Token : Reserve(t)' = Reserve(t) + Share(p, t)
    PROVE  VerulinkInv' /\ Ideal!Deposit(p)
  <1>1. /\ SentByAleo' = SentByAleo
        /\ ConsumedByAleo' = ConsumedByAleo /\ ConsumedByEth' = ConsumedByEth
    BY DEF SentByAleo, ConsumedByAleo, ConsumedByEth
  <1>2. \A t \in Token : A!Supply(t)' = A!Supply(t)
    BY DEF A!Supply
  <1>3. p \notin ConsumedByAleo
    BY DEF VerulinkInv, OnlySentConsumed
  <1>4. ToAleo' = ToAleo \cup {p} /\ ToEth' = ToEth /\ p \notin ToAleo
    BY <1>1, <1>3 DEF ToAleo, ToEth
  <1>5. /\ FiniteUnits(ToAleo') /\ FiniteUnits(ToEth')
        /\ \A t \in Token : Total(ToAleo', t) = Total(ToAleo, t) + Share(p, t)
    BY <1>4, TotalAdd DEF VerulinkInv
  <1>6. FullyBacked'
    <2> SUFFICES ASSUME NEW t \in Token
                 PROVE  Reserve(t)' = A!Supply(t)' + Total(ToAleo', t) + Total(ToEth', t)
      BY DEF FullyBacked, ToAleo, ToEth
    <2>1. Reserve(t) = A!Supply(t) + Total(ToAleo, t) + Total(ToEth, t)
      BY DEF FullyBacked, ToAleo, ToEth, VerulinkInv
    <2>2. Reserve(t) \in Int /\ A!Supply(t) \in Nat
      BY BooksTyped DEF VerulinkInv, Frame
    <2>3. Total(ToAleo, t) \in Nat /\ Total(ToEth, t) \in Nat /\ Share(p, t) \in Nat
      BY TotalNat DEF VerulinkInv, Share, Packet
    <2>4. /\ Reserve(t)' = Reserve(t) + Share(p, t) /\ A!Supply(t)' = A!Supply(t)
          /\ Total(ToAleo', t) = Total(ToAleo, t) + Share(p, t) /\ Total(ToEth', t) = Total(ToEth, t)
      BY <1>2, <1>4, <1>5
    <2> QED
      BY <2>1, <2>2, <2>3, <2>4
  <1>7. OnlySentConsumed' /\ SignedWhatWasSent'
    BY <1>1, SignedStays DEF VerulinkInv, OnlySentConsumed
  <1>8. VerulinkInv'
    BY <1>5, <1>6, <1>7 DEF VerulinkInv
  <1>9. [t \in Token |-> Reserve(t)]'
          = [[t \in Token |-> Reserve(t)] EXCEPT ![p.token] = @ + p.amount]
    <2>1. p.token \in Token
      BY DEF Packet
    <2>2. \A t \in Token : Share(p, t) = IF t = p.token THEN p.amount ELSE 0
      BY DEF Share
    <2>3. \A t \in Token : Reserve(t) \in Int
      BY BooksTyped DEF VerulinkInv, Frame
    <2> QED
      BY <2>1, <2>2, <2>3
  <1>10. Ideal!Deposit(p)
    BY <1>1, <1>2, <1>4, <1>9 DEF Ideal!Deposit, ToAleo, ToEth, Ideal!Packet, Packet
  <1> QED
    BY <1>8, <1>10

(* A packet sent on Aleo with its amount burnt.                            *)
LEMMA BurnEffect ==
    ASSUME VerulinkInv, Frame', NEW p \in Packet, p \notin SentByEth \cup SentByAleo,
           SentByAleo' = SentByAleo \cup {p},
           UNCHANGED <<outgoingPackets, received, consumedPackets, funds, vaultFlow, collected>>,
           \A t \in Token : Share(p, t) <= A!Supply(t) /\ A!Supply(t)' = A!Supply(t) - Share(p, t)
    PROVE  VerulinkInv' /\ Ideal!Burn(p)
  <1>1. /\ SentByEth' = SentByEth
        /\ ConsumedByAleo' = ConsumedByAleo /\ ConsumedByEth' = ConsumedByEth
    BY DEF SentByEth, ConsumedByAleo, ConsumedByEth
  <1>2. \A t \in Token : Reserve(t)' = Reserve(t)
    BY DEF Reserve
  <1>3. p \notin ConsumedByEth
    BY DEF VerulinkInv, OnlySentConsumed
  <1>4. ToEth' = ToEth \cup {p} /\ ToAleo' = ToAleo /\ p \notin ToEth
    BY <1>1, <1>3 DEF ToAleo, ToEth
  <1>5. /\ FiniteUnits(ToAleo') /\ FiniteUnits(ToEth')
        /\ \A t \in Token : Total(ToEth', t) = Total(ToEth, t) + Share(p, t)
    BY <1>4, TotalAdd DEF VerulinkInv
  <1>6. FullyBacked'
    <2> SUFFICES ASSUME NEW t \in Token
                 PROVE  Reserve(t)' = A!Supply(t)' + Total(ToAleo', t) + Total(ToEth', t)
      BY DEF FullyBacked, ToAleo, ToEth
    <2>1. Reserve(t) = A!Supply(t) + Total(ToAleo, t) + Total(ToEth, t)
      BY DEF FullyBacked, ToAleo, ToEth, VerulinkInv
    <2>2. Reserve(t) \in Int /\ A!Supply(t) \in Nat
      BY BooksTyped DEF VerulinkInv, Frame
    <2>3. Total(ToAleo, t) \in Nat /\ Total(ToEth, t) \in Nat /\ Share(p, t) \in Nat
      BY TotalNat DEF VerulinkInv, Share, Packet
    <2>4. /\ Reserve(t)' = Reserve(t) /\ A!Supply(t)' = A!Supply(t) - Share(p, t)
          /\ Total(ToEth', t) = Total(ToEth, t) + Share(p, t) /\ Total(ToAleo', t) = Total(ToAleo, t)
      BY <1>2, <1>4, <1>5
    <2> QED
      BY <2>1, <2>2, <2>3, <2>4
  <1>7. OnlySentConsumed' /\ SignedWhatWasSent'
    BY <1>1, SignedStays DEF VerulinkInv, OnlySentConsumed
  <1>8. VerulinkInv'
    BY <1>5, <1>6, <1>7 DEF VerulinkInv
  <1>9. /\ [t \in Token |-> A!Supply(t)]'
             = [[t \in Token |-> A!Supply(t)] EXCEPT ![p.token] = @ - p.amount]
        /\ [t \in Token |-> A!Supply(t)][p.token] >= p.amount
    <2>1. p.token \in Token /\ p.amount \in Nat
      BY DEF Packet
    <2>2. \A t \in Token : Share(p, t) = IF t = p.token THEN p.amount ELSE 0
      BY DEF Share
    <2>3. \A t \in Token : A!Supply(t) \in Nat
      BY BooksTyped DEF VerulinkInv, Frame
    <2> QED
      BY <2>1, <2>2, <2>3
  <1>10. Ideal!Burn(p)
    BY <1>1, <1>2, <1>4, <1>9 DEF Ideal!Burn, ToAleo, ToEth, Ideal!Packet, Packet
  <1> QED
    BY <1>8, <1>10

(* A packet consumed on Aleo with its amount minted.                       *)
LEMMA MintEffect ==
    ASSUME VerulinkInv, Frame', NEW p \in Packet, p \in ToAleo,
           ConsumedByAleo' = ConsumedByAleo \cup {p},
           UNCHANGED <<out_packets, outgoingPackets, consumedPackets, funds, vaultFlow, collected>>,
           \A t \in Token : A!Supply(t)' = A!Supply(t) + Share(p, t)
    PROVE  VerulinkInv' /\ Ideal!Mint(p)
  <1>1. /\ SentByAleo' = SentByAleo /\ SentByEth' = SentByEth
        /\ ConsumedByEth' = ConsumedByEth
    BY DEF SentByAleo, SentByEth, ConsumedByEth
  <1>2. \A t \in Token : Reserve(t)' = Reserve(t)
    BY DEF Reserve
  <1>3. p \in SentByEth
    BY DEF ToAleo
  <1>4. ToAleo' = ToAleo \ {p} /\ ToEth' = ToEth
    BY <1>1, <1>3 DEF ToAleo, ToEth
  <1>5. /\ FiniteUnits(ToAleo') /\ FiniteUnits(ToEth')
        /\ \A t \in Token : Total(ToAleo, t) = Total(ToAleo', t) + Share(p, t)
    BY <1>4, TotalRemove DEF VerulinkInv
  <1>6. FullyBacked'
    <2> SUFFICES ASSUME NEW t \in Token
                 PROVE  Reserve(t)' = A!Supply(t)' + Total(ToAleo', t) + Total(ToEth', t)
      BY DEF FullyBacked, ToAleo, ToEth
    <2>1. Reserve(t) = A!Supply(t) + Total(ToAleo, t) + Total(ToEth, t)
      BY DEF FullyBacked, ToAleo, ToEth, VerulinkInv
    <2>2. Reserve(t) \in Int /\ A!Supply(t) \in Nat
      BY BooksTyped DEF VerulinkInv, Frame
    <2>3. Total(ToAleo', t) \in Nat /\ Total(ToEth, t) \in Nat /\ Share(p, t) \in Nat
      BY <1>5, TotalNat DEF VerulinkInv, Share, Packet
    <2>4. /\ Reserve(t)' = Reserve(t) /\ A!Supply(t)' = A!Supply(t) + Share(p, t)
          /\ Total(ToAleo, t) = Total(ToAleo', t) + Share(p, t) /\ Total(ToEth', t) = Total(ToEth, t)
      BY <1>2, <1>4, <1>5
    <2> QED
      BY <2>1, <2>2, <2>3, <2>4
  <1>7. OnlySentConsumed' /\ SignedWhatWasSent'
    BY <1>1, <1>3, SignedStays DEF VerulinkInv, OnlySentConsumed
  <1>8. VerulinkInv'
    BY <1>5, <1>6, <1>7 DEF VerulinkInv
  <1>9. [t \in Token |-> A!Supply(t)]'
          = [[t \in Token |-> A!Supply(t)] EXCEPT ![p.token] = @ + p.amount]
    <2>1. p.token \in Token /\ p.amount \in Nat
      BY DEF Packet
    <2>2. \A t \in Token : Share(p, t) = IF t = p.token THEN p.amount ELSE 0
      BY DEF Share
    <2>3. \A t \in Token : A!Supply(t) \in Nat
      BY BooksTyped DEF VerulinkInv, Frame
    <2> QED
      BY <2>1, <2>2, <2>3
  <1>10. Ideal!Mint(p)
    BY <1>1, <1>2, <1>4, <1>9 DEF Ideal!Mint, ToAleo, ToEth
  <1> QED
    BY <1>8, <1>10

(* A packet consumed on Ethereum with its amount paid out.                 *)
LEMMA PayoutEffect ==
    ASSUME VerulinkInv, Frame', NEW p \in Packet, p \in ToEth,
           ConsumedByEth' = ConsumedByEth \cup {p},
           UNCHANGED <<out_packets, outgoingPackets, received, total_supply, collected>>,
           \A t \in Token : Reserve(t)' = Reserve(t) - Share(p, t)
    PROVE  VerulinkInv' /\ Ideal!Payout(p)
  <1>1. /\ SentByAleo' = SentByAleo /\ SentByEth' = SentByEth
        /\ ConsumedByAleo' = ConsumedByAleo
    BY DEF SentByAleo, SentByEth, ConsumedByAleo
  <1>2. \A t \in Token : A!Supply(t)' = A!Supply(t)
    BY DEF A!Supply
  <1>3. p \in SentByAleo
    BY DEF ToEth
  <1>4. ToEth' = ToEth \ {p} /\ ToAleo' = ToAleo
    BY <1>1, <1>3 DEF ToAleo, ToEth
  <1>5. /\ FiniteUnits(ToAleo') /\ FiniteUnits(ToEth')
        /\ \A t \in Token : Total(ToEth, t) = Total(ToEth', t) + Share(p, t)
    BY <1>4, TotalRemove DEF VerulinkInv
  <1>6. FullyBacked'
    <2> SUFFICES ASSUME NEW t \in Token
                 PROVE  Reserve(t)' = A!Supply(t)' + Total(ToAleo', t) + Total(ToEth', t)
      BY DEF FullyBacked, ToAleo, ToEth
    <2>1. Reserve(t) = A!Supply(t) + Total(ToAleo, t) + Total(ToEth, t)
      BY DEF FullyBacked, ToAleo, ToEth, VerulinkInv
    <2>2. Reserve(t) \in Int /\ A!Supply(t) \in Nat
      BY BooksTyped DEF VerulinkInv, Frame
    <2>3. Total(ToEth', t) \in Nat /\ Total(ToAleo, t) \in Nat /\ Share(p, t) \in Nat
      BY <1>5, TotalNat DEF VerulinkInv, Share, Packet
    <2>4. /\ Reserve(t)' = Reserve(t) - Share(p, t) /\ A!Supply(t)' = A!Supply(t)
          /\ Total(ToEth, t) = Total(ToEth', t) + Share(p, t) /\ Total(ToAleo', t) = Total(ToAleo, t)
      BY <1>2, <1>4, <1>5
    <2> QED
      BY <2>1, <2>2, <2>3, <2>4
  <1>7. OnlySentConsumed' /\ SignedWhatWasSent'
    BY <1>1, <1>3, SignedStays DEF VerulinkInv, OnlySentConsumed
  <1>8. VerulinkInv'
    BY <1>5, <1>6, <1>7 DEF VerulinkInv
  <1>9. [t \in Token |-> Reserve(t)]'
          = [[t \in Token |-> Reserve(t)] EXCEPT ![p.token] = @ - p.amount]
    <2>1. p.token \in Token /\ p.amount \in Nat
      BY DEF Packet
    <2>2. \A t \in Token : Share(p, t) = IF t = p.token THEN p.amount ELSE 0
      BY DEF Share
    <2>3. \A t \in Token : Reserve(t) \in Int
      BY BooksTyped DEF VerulinkInv, Frame
    <2> QED
      BY <2>1, <2>2, <2>3
  <1>10. Ideal!Payout(p)
    BY <1>1, <1>2, <1>4, <1>9 DEF Ideal!Payout, ToAleo, ToEth
  <1> QED
    BY <1>8, <1>10

-----------------------------------------------------------------------------
(* The steps on Aleo *)

(* A step of one chain leaves the facts about the other one alone.         *)
LEMMA EthUntouched ==
    ASSUME Frame, UNCHANGED ethereum
    PROVE  /\ EthPublishes'
           /\ \A n \in DOMAIN consumedPackets' : consumedPackets'[n].sequence = n
           /\ (funds \in [Token -> [E!Accounts -> Nat]])' /\ (vaultFlow \in [Token -> Int])'
           /\ (locked \in [Account -> [Token -> Nat]])' /\ (unlocked \in [Account -> [Token -> Nat]])'
           /\ isAttestor' = Attestor /\ quorumRequired' = Threshold
           /\ destinationChainId' = ALEO_CHAIN_ID
           /\ UNCHANGED <<outgoingPackets, consumedPackets, funds, vaultFlow>>
  <1>1. /\ UNCHANGED <<sequence, blockNumber, outgoingPackets, consumedPackets>>
        /\ UNCHANGED <<funds, vaultFlow, locked, unlocked>>
        /\ UNCHANGED <<isAttestor, quorumRequired, destinationChainId>>
    BY DEF ethereum
  <1> QED
    BY <1>1 DEF Frame, EthPublishes, Marked, Books, Attesting, E!Accounts

LEMMA AleoUntouched ==
    ASSUME Frame, UNCHANGED aleo
    PROVE  /\ AleoPublishes'
           /\ \A r \in received' : <<r.packet.src, r.packet.sequence>> \in in_packet_consumed'
           /\ (DOMAIN total_supply \subseteq Token)'
           /\ \A t \in DOMAIN total_supply' : total_supply'[t] \in Nat
           /\ attestors' = Address /\ threshold' = Threshold
           /\ UNCHANGED <<out_packets, received, total_supply>>
  <1>1. /\ UNCHANGED <<sequences, block_height, out_packets, received, in_packet_consumed>>
        /\ UNCHANGED <<total_supply, attestors, threshold>>
    BY DEF aleo
  <1> QED
    BY <1>1 DEF Frame, AleoPublishes, Marked, Books, Attesting

(* token_send burns what its packet carries.                               *)
LEMMA AleoSendStep ==
    ASSUME VerulinkInv, NEW u \in User, NEW r \in User, NEW t \in Token, NEW n \in Amounts,
           AleoSend(u, t, r, n), UNCHANGED <<ethereum, collected>>
    PROVE  VerulinkInv' /\ \E p \in Packet : Ideal!Burn(p)
  <1> DEFINE k == sequences[ETH_CHAIN_ID]
             p == A!OutPacket(AleoTS, ETH_CHAIN_ID, EthTS, t, u, r, n)
             id == <<ETH_CHAIN_ID, k>>
  <1>0. Frame /\ UNCHANGED ethereum
    BY DEF VerulinkInv
  <1>1. /\ n \in Nat /\ u \in Account /\ r \in Account /\ k \in Nat /\ block_height \in Nat
        /\ ALEO_CHAIN_ID \in Chain /\ ETH_CHAIN_ID \in Chain /\ ALEO_CHAIN_ID # ETH_CHAIN_ID
        /\ AleoTS \in Service /\ EthTS \in Service
    BY <1>0, VerulinkAssumption DEF Frame, AleoPublishes
  <1>2. /\ p \in Packet /\ p.src = ALEO_CHAIN_ID /\ p.dst = ETH_CHAIN_ID /\ p.sequence = k
        /\ p.token = t /\ p.amount = n
    BY <1>1 DEF A!OutPacket, Packet
  <1>3. /\ t \in DOMAIN total_supply /\ total_supply[t] >= n
        /\ A!publish(AleoTS, ETH_CHAIN_ID, EthTS, t, u, r, n)
        /\ total_supply' = [total_supply EXCEPT ![t] = @ - n]
    BY DEF AleoSend, A!token_send
  <1>4. /\ sequences' = [sequences EXCEPT ![ETH_CHAIN_ID] = k + 1,
                                          ![ALEO_CHAIN_ID] = sequences[ALEO_CHAIN_ID] + 1]
        /\ DOMAIN out_packets' = DOMAIN out_packets \cup {id}
        /\ out_packets'[id] = p
        /\ \A i \in DOMAIN out_packets : i # id => out_packets'[i] = out_packets[i]
        /\ UNCHANGED <<attestors, threshold, in_packet_consumed, received, block_height>>
    BY <1>3 DEF A!publish, A!settings
  <1>5. \A i \in DOMAIN out_packets :
          /\ out_packets[i] \in Packet /\ out_packets[i].sequence < k
          /\ i = <<ETH_CHAIN_ID, out_packets[i].sequence>>
          /\ out_packets[i].src = ALEO_CHAIN_ID /\ out_packets[i].dst = ETH_CHAIN_ID
    BY <1>0 DEF Frame, AleoPublishes
  <1>6. id \notin DOMAIN out_packets
    BY <1>1, <1>5
  <1>7. SentByAleo' = SentByAleo \cup {p}
    BY <1>4, <1>6 DEF SentByAleo
  <1>8. p \notin SentByAleo /\ p \notin SentByEth
    <2>1. p \notin SentByAleo
      BY <1>1, <1>2, <1>5 DEF SentByAleo
    <2>2. \A m \in DOMAIN outgoingPackets : outgoingPackets[m].src = ETH_CHAIN_ID
      BY <1>0 DEF Frame, EthPublishes
    <2> QED
      BY <1>1, <1>2, <2>1, <2>2 DEF SentByEth
  <1>9. AleoPublishes'
    <2>1. sequences' \in [Chain -> Nat] /\ sequences'[ETH_CHAIN_ID] = k + 1
      BY <1>0, <1>1, <1>4 DEF Frame, AleoPublishes
    <2>2. \A i \in DOMAIN out_packets' :
            /\ out_packets'[i] \in Packet /\ out_packets'[i].sequence < k + 1
            /\ i = <<ETH_CHAIN_ID, out_packets'[i].sequence>>
            /\ out_packets'[i].src = ALEO_CHAIN_ID /\ out_packets'[i].dst = ETH_CHAIN_ID
      <3> SUFFICES ASSUME NEW i \in DOMAIN out_packets'
                   PROVE  /\ out_packets'[i] \in Packet /\ out_packets'[i].sequence < k + 1
                          /\ i = <<ETH_CHAIN_ID, out_packets'[i].sequence>>
                          /\ out_packets'[i].src = ALEO_CHAIN_ID
                          /\ out_packets'[i].dst = ETH_CHAIN_ID
        OBVIOUS
      <3>1. CASE i = id
        <4> HIDE DEF p
        <4> QED
          BY <1>1, <1>2, <1>4, <3>1
      <3>2. CASE i # id
        <4>1. i \in DOMAIN out_packets /\ out_packets'[i] = out_packets[i]
          BY <1>4, <3>2
        <4>2. out_packets[i].sequence \in Nat
          BY <1>5, <4>1 DEF Packet
        <4> QED
          BY <1>1, <1>5, <4>1, <4>2
      <3> QED
        BY <3>1, <3>2
    <2> QED
      BY <1>1, <1>4, <2>1, <2>2 DEF AleoPublishes
  <1>10. \A x \in Token : Share(p, x) <= A!Supply(x) /\ A!Supply(x)' = A!Supply(x) - Share(p, x)
    <2> SUFFICES ASSUME NEW x \in Token
                 PROVE  Share(p, x) <= A!Supply(x) /\ A!Supply(x)' = A!Supply(x) - Share(p, x)
      OBVIOUS
    <2>1. A!Supply(x) \in Nat
      BY <1>0, BooksTyped DEF Frame
    <2>2. Share(p, x) = IF x = t THEN n ELSE 0
      BY <1>2 DEF Share
    <2>3. A!Supply(x)' = IF x = t THEN total_supply[t] - n ELSE A!Supply(x)
      BY <1>3 DEF A!Supply
    <2>4. x = t => A!Supply(x) = total_supply[t]
      BY <1>3 DEF A!Supply
    <2> HIDE DEF p
    <2> QED
      BY <1>1, <1>3, <2>1, <2>2, <2>3, <2>4
  <1>11. Frame'
    <2>1. /\ DOMAIN total_supply' \subseteq Token
          /\ \A x \in DOMAIN total_supply' : total_supply'[x] \in Nat
      BY <1>0, <1>1, <1>3 DEF Frame, Books
    <2>2. /\ \A s \in received' : <<s.packet.src, s.packet.sequence>> \in in_packet_consumed'
          /\ attestors' = Address /\ threshold' = Threshold
      BY <1>0, <1>4 DEF Frame, Marked, Attesting
    <2> QED
      BY <1>0, <1>9, <2>1, <2>2, EthUntouched DEF Frame, Books, Marked, Attesting
  <1>12. UNCHANGED <<outgoingPackets, consumedPackets, funds, vaultFlow>>
    BY <1>0, EthUntouched
  <1> HIDE DEF p
  <1> QED
    BY <1>2, <1>4, <1>7, <1>8, <1>10, <1>11, <1>12, BurnEffect

(* A new block and a release from the holding program change no supply.    *)
LEMMA AleoQuietStep ==
    ASSUME VerulinkInv, UNCHANGED <<ethereum, collected>>,
           \/ \E t \in Token, u \in User, n \in Amounts : A!holding_release(owner_TS, t, u, n)
           \/ AleoBlock
    PROVE  VerulinkInv' /\ UNCHANGED Ideal!idealVars
  <1>0. Frame /\ UNCHANGED ethereum
    BY DEF VerulinkInv
  <1>1. /\ UNCHANGED <<attestors, threshold, sequences, out_packets, in_packet_consumed, received>>
        /\ UNCHANGED total_supply
        /\ block_height' \in {block_height, block_height + 1}
    BY DEF A!holding_release, AleoBlock, A!NewBlock, A!bridgeVars, A!settings, A!traffic
  <1>2. block_height' \in Nat
    BY <1>0, <1>1 DEF Frame, AleoPublishes
  <1>3. Frame'
    <2>1. AleoPublishes'
      BY <1>0, <1>1, <1>2 DEF Frame, AleoPublishes
    <2> QED
      BY <1>0, <1>1, <2>1, EthUntouched DEF Frame, Books, Marked, Attesting
  <1>4. UNCHANGED <<outgoingPackets, consumedPackets, funds, vaultFlow>>
    BY <1>0, EthUntouched
  <1>5. SignedWhatWasSent'
    BY <1>1, <1>4, SignedStays DEF VerulinkInv, SentByAleo, SentByEth
  <1>6. \A t \in Token : Reserve(t)' = Reserve(t)
    BY <1>4 DEF Reserve
  <1> QED
    BY <1>1, <1>3, <1>4, <1>5, <1>6, QuietStep

(* token_receive mints what its packet carries, to its receiver or to the  *)
(* holding program, and its packet was in flight.                          *)
LEMMA AleoDeliverStep ==
    ASSUME VerulinkInv, NEW pkt \in SentByEth \cup Forged, DeliverToAleo(pkt)
    PROVE  VerulinkInv' /\ pkt \in Packet /\ Ideal!Mint(pkt)
  <1>0. Frame /\ UNCHANGED <<ethereum, collected>> /\ UNCHANGED ethereum
    BY DEF VerulinkInv, DeliverToAleo
  <1>1. PICK signs \in [A!Slots -> (UNION {Available(a, pkt) : a \in Attestor}) \cup {Padding(pkt)}] :
          A!token_receive(pkt, [i \in A!Slots |-> signs[i].signer], signs)
    BY DEF DeliverToAleo
  <1> DEFINE signers == [i \in A!Slots |-> signs[i].signer]
  <1>2. /\ A!consume(AleoTS, pkt, signers, signs)
        /\ total_supply' = A!Put(total_supply, pkt.token, A!Supply(pkt.token) + pkt.amount)
    BY <1>1 DEF A!token_receive
  <1>3. /\ pkt.dst = ALEO_CHAIN_ID
        /\ <<pkt.src, pkt.sequence>> \notin in_packet_consumed
        /\ in_packet_consumed' = in_packet_consumed \cup {<<pkt.src, pkt.sequence>>}
        /\ received' = received \cup {A!Receipt(pkt, signers, signs)}
        /\ UNCHANGED <<attestors, threshold, sequences, out_packets, block_height>>
    BY <1>2 DEF A!consume, A!settings
  <1>4. pkt \in Packet /\ pkt.token \in Token /\ pkt.amount \in Nat
    <2>1. pkt \in Packet
      BY <1>0, VerulinkAssumption DEF Frame, EthPublishes, SentByEth
    <2> QED
      BY <2>1 DEF Packet
  <1>5. A!Receipt(pkt, signers, signs).packet = pkt
    BY DEF A!Receipt
  <1>6. pkt \in SentByEth
    <2>1. Attesting
      BY <1>0 DEF Frame
    <2>2. \E s \in collected : s.packet = pkt
      BY <1>2, <2>1, AleoConsumesSigned
    <2>3. pkt \in SentByAleo \cup SentByEth
      BY <2>2 DEF VerulinkInv, SignedWhatWasSent
    <2>4. \A id \in DOMAIN out_packets : out_packets[id].dst = ETH_CHAIN_ID
      BY <1>0 DEF Frame, AleoPublishes
    <2> QED
      BY <1>3, <2>3, <2>4, VerulinkAssumption DEF SentByAleo
  <1>7. pkt \in ToAleo
    <2>1. \A r \in received : <<r.packet.src, r.packet.sequence>> \in in_packet_consumed
      BY <1>0 DEF Frame, Marked
    <2> QED
      BY <1>3, <1>6, <2>1 DEF ToAleo, ConsumedByAleo
  <1>8. ConsumedByAleo' = ConsumedByAleo \cup {pkt}
    BY <1>3, <1>5 DEF ConsumedByAleo
  <1>9. \A x \in Token : A!Supply(x)' = A!Supply(x) + Share(pkt, x)
    <2> SUFFICES ASSUME NEW x \in Token PROVE A!Supply(x)' = A!Supply(x) + Share(pkt, x)
      OBVIOUS
    <2>1. A!Supply(x) \in Nat
      BY <1>0, BooksTyped DEF Frame
    <2>2. CASE x = pkt.token
      <3>1. A!Supply(x)' = A!Supply(x) + pkt.amount
        BY <1>2, <2>2 DEF A!Supply, A!Put
      <3> QED
        BY <2>2, <3>1 DEF Share
    <2>3. CASE x # pkt.token
      <3>1. A!Supply(x)' = A!Supply(x)
        BY <1>2, <2>3 DEF A!Supply, A!Put
      <3>2. Share(pkt, x) = 0
        BY <2>3 DEF Share
      <3> QED
        BY <2>1, <3>1, <3>2
    <2> QED
      BY <2>2, <2>3
  <1>10. Frame'
    <2>1. AleoPublishes'
      BY <1>0, <1>3 DEF Frame, AleoPublishes
    <2>2. \A r \in received' : <<r.packet.src, r.packet.sequence>> \in in_packet_consumed'
      BY <1>0, <1>3, <1>5 DEF Frame, Marked
    <2>3. /\ DOMAIN total_supply' \subseteq Token
          /\ \A x \in DOMAIN total_supply' : total_supply'[x] \in Nat
      <3>1. A!Supply(pkt.token) + pkt.amount \in Nat
        BY <1>0, <1>4, BooksTyped DEF Frame
      <3>2. /\ DOMAIN total_supply' = DOMAIN total_supply \cup {pkt.token}
            /\ total_supply'[pkt.token] = A!Supply(pkt.token) + pkt.amount
            /\ \A x \in DOMAIN total_supply : x # pkt.token => total_supply'[x] = total_supply[x]
        BY <1>2 DEF A!Put
      <3> QED
        BY <1>0, <1>4, <3>1, <3>2 DEF Frame, Books
    <2>4. attestors' = Address /\ threshold' = Threshold
      BY <1>0, <1>3 DEF Frame, Attesting
    <2> QED
      BY <1>0, <2>1, <2>2, <2>3, <2>4, EthUntouched DEF Frame, Books, Marked, Attesting
  <1>11. UNCHANGED <<outgoingPackets, consumedPackets, funds, vaultFlow>>
    BY <1>0, EthUntouched
  <1> QED
    BY <1>0, <1>3, <1>4, <1>7, <1>8, <1>9, <1>10, <1>11, MintEffect

-----------------------------------------------------------------------------
(* The steps on Ethereum *)

LEMMA AccountsOfEth ==
    /\ TSAccount \in E!Accounts /\ HOLDING \in E!Accounts /\ VAULT \in E!Accounts
    /\ OWNER \in E!Accounts /\ User \subseteq E!Accounts /\ Account \subseteq E!Accounts
    /\ TSAccount # HOLDING /\ TSAccount # VAULT /\ TSAccount # OWNER /\ TSAccount \notin User
  BY VerulinkAssumption DEF E!Accounts

(* A payment changes the accounts of its two parties, in its token.        *)
LEMMA EthPayEffect ==
    ASSUME NEW f \in [Token -> [E!Accounts -> Nat]], NEW t \in Token,
           NEW from \in E!Accounts, NEW to \in E!Accounts, NEW n \in Nat, n <= f[t][from]
    PROVE  /\ E!Pay(f, t, from, to, n) \in [Token -> [E!Accounts -> Nat]]
           /\ \A x \in Token \ {t} : E!Pay(f, t, from, to, n)[x] = f[x]
           /\ \A a \in E!Accounts :
                 E!Pay(f, t, from, to, n)[t][a] = f[t][a] - (IF a = from THEN n ELSE 0)
                                                          + (IF a = to THEN n ELSE 0)
  <1> DEFINE d == [f EXCEPT ![t][from] = @ - n]
             g == [d EXCEPT ![t][to] = @ + n]
  <1>1. g = E!Pay(f, t, from, to, n)
    BY DEF E!Pay
  <1>2. /\ d \in [Token -> [E!Accounts -> Nat]]
        /\ \A x \in Token \ {t} : d[x] = f[x]
        /\ \A a \in E!Accounts : d[t][a] = f[t][a] - (IF a = from THEN n ELSE 0)
    OBVIOUS
  <1>3. /\ g \in [Token -> [E!Accounts -> Nat]]
        /\ \A x \in Token \ {t} : g[x] = d[x]
        /\ \A a \in E!Accounts : g[t][a] = d[t][a] + (IF a = to THEN n ELSE 0)
    <2> HIDE DEF d
    <2> QED
      BY <1>2
  <1> HIDE DEF d, g
  <1> QED
    BY <1>1, <1>2, <1>3

(* The vault's books get an entry of c in token t.                         *)
Entered(t, c) == \A x \in Token : vaultFlow'[x] = vaultFlow[x] + (IF x = t THEN c ELSE 0)

(* What a payment and such an entry make of the reserve.                   *)
LEMMA ReserveMoves ==
    ASSUME Books, NEW t \in Token, NEW from \in E!Accounts, NEW to \in E!Accounts,
           NEW n \in Nat, n <= funds[t][from],
           funds' = E!Pay(funds, t, from, to, n),
           NEW c \in Int, Entered(t, c)
    PROVE  /\ funds' \in [Token -> [E!Accounts -> Nat]]
           /\ \A x \in Token :
                 Reserve(x)' = Reserve(x)
                   + (IF x = t THEN c - (IF from = TSAccount THEN n ELSE 0)
                                      + (IF to = TSAccount THEN n ELSE 0)
                               ELSE 0)
  <1>1. funds \in [Token -> [E!Accounts -> Nat]] /\ vaultFlow \in [Token -> Int]
    BY DEF Books
  <1>2. /\ funds' \in [Token -> [E!Accounts -> Nat]]
        /\ \A x \in Token \ {t} : funds'[x] = funds[x]
        /\ \A a \in E!Accounts : funds'[t][a] = funds[t][a] - (IF a = from THEN n ELSE 0)
                                                            + (IF a = to THEN n ELSE 0)
    BY <1>1, EthPayEffect
  <1> SUFFICES ASSUME NEW x \in Token
               PROVE  Reserve(x)' = Reserve(x)
                        + (IF x = t THEN c - (IF from = TSAccount THEN n ELSE 0)
                                           + (IF to = TSAccount THEN n ELSE 0)
                                    ELSE 0)
    BY <1>2
  <1>4. /\ Reserve(x)' = funds'[x][TSAccount] + vaultFlow'[x]
        /\ Reserve(x) = funds[x][TSAccount] + vaultFlow[x]
    BY DEF Reserve
  <1>5. funds[x][TSAccount] \in Nat /\ vaultFlow[x] \in Int
    BY <1>1, AccountsOfEth
  <1>6. CASE x = t
    <2>1. funds'[x][TSAccount] = funds[x][TSAccount] - (IF from = TSAccount THEN n ELSE 0)
                                                     + (IF to = TSAccount THEN n ELSE 0)
      BY <1>2, <1>6, AccountsOfEth
    <2>2. vaultFlow'[x] = vaultFlow[x] + c
      BY <1>6 DEF Entered
    <2> QED
      BY <1>4, <1>5, <1>6, <2>1, <2>2
  <1>7. CASE x # t
    <2>1. funds'[x][TSAccount] = funds[x][TSAccount]
      BY <1>2, <1>7
    <2>2. vaultFlow'[x] = vaultFlow[x] + 0
      BY <1>7 DEF Entered
    <2> QED
      BY <1>4, <1>5, <1>7, <2>1, <2>2
  <1> QED
    BY <1>6, <1>7

(* A payment that the vault's books follow leaves the reserve as it is.    *)
LEMMA ReserveKept ==
    ASSUME Books, NEW t \in Token, NEW from \in E!Accounts, NEW to \in E!Accounts,
           NEW n \in Nat, n <= funds[t][from],
           funds' = E!Pay(funds, t, from, to, n),
           NEW c \in Int, Entered(t, c),
           c = (IF from = TSAccount THEN n ELSE 0) - (IF to = TSAccount THEN n ELSE 0)
    PROVE  /\ funds' \in [Token -> [E!Accounts -> Nat]]
           /\ \A x \in Token : Reserve(x)' = Reserve(x)
  <1>1. /\ funds' \in [Token -> [E!Accounts -> Nat]]
        /\ \A x \in Token :
              Reserve(x)' = Reserve(x)
                + (IF x = t THEN c - (IF from = TSAccount THEN n ELSE 0)
                                   + (IF to = TSAccount THEN n ELSE 0)
                            ELSE 0)
    BY ReserveMoves
  <1>2. \A x \in Token : Reserve(x) \in Int
    BY BooksTyped
  <1> QED
    BY <1>1, <1>2

LEMMA NothingEntered ==
    ASSUME Books, UNCHANGED vaultFlow, NEW t \in Token
    PROVE  Entered(t, 0)
  BY DEF Books, Entered

(* transfer pays in what its packet carries.                               *)
LEMMA EthSendStep ==
    ASSUME VerulinkInv, NEW u \in User, NEW r \in User, NEW t \in Token, NEW n \in Amounts,
           EthSend(u, t, n, r), UNCHANGED <<aleo, collected>>
    PROVE  VerulinkInv' /\ \E p \in Packet : Ideal!Deposit(p)
  <1> DEFINE k == sequence + 1
             p == E!Dispatched(E!_packetify(u, t, n, r))
  <1>0. Frame /\ Books /\ UNCHANGED aleo
    BY DEF VerulinkInv, Frame
  <1>1. /\ n \in Nat /\ u \in Account /\ r \in Account
        /\ sequence \in Nat /\ k \in Nat /\ blockNumber \in Nat
        /\ ALEO_CHAIN_ID \in Chain /\ ETH_CHAIN_ID \in Chain /\ ALEO_CHAIN_ID # ETH_CHAIN_ID
        /\ AleoTS \in Service /\ EthTS \in Service
    BY <1>0, VerulinkAssumption DEF Frame, EthPublishes
  <1>2. /\ p \in Packet /\ p.src = ETH_CHAIN_ID /\ p.dstService = AleoTS /\ p.sequence = k
        /\ p.token = t /\ p.amount = n
    BY <1>1 DEF E!Dispatched, E!_packetify, Packet
  <1>3. /\ funds[t][u] >= n
        /\ E!sendMessage(EthTS, E!_packetify(u, t, n, r))
        /\ funds' = E!Pay(funds, t, u, TSAccount, n)
        /\ UNCHANGED <<locked, unlocked, vaultFlow>>
    BY DEF EthSend, E!transfer
  <1>4. /\ sequence' = k
        /\ DOMAIN outgoingPackets' = DOMAIN outgoingPackets \cup {k}
        /\ outgoingPackets'[k] = p
        /\ \A m \in DOMAIN outgoingPackets : m # k => outgoingPackets'[m] = outgoingPackets[m]
        /\ UNCHANGED <<isAttestor, quorumRequired, destinationChainId>>
        /\ UNCHANGED <<consumedPackets, blockNumber>>
    BY <1>3 DEF E!sendMessage, E!bridgeSettings
  <1>5. \A m \in DOMAIN outgoingPackets :
          /\ outgoingPackets[m] \in Packet /\ outgoingPackets[m].src = ETH_CHAIN_ID
          /\ outgoingPackets[m].dstService = AleoTS
          /\ m = outgoingPackets[m].sequence /\ m <= sequence
    BY <1>0 DEF Frame, EthPublishes
  <1>6. k \notin DOMAIN outgoingPackets
    BY <1>1, <1>5
  <1>7. SentByEth' = SentByEth \cup {p}
    BY <1>4, <1>6 DEF SentByEth
  <1>8. p \notin SentByEth /\ p \notin SentByAleo
    <2>1. p \notin SentByEth
      BY <1>2, <1>5, <1>6 DEF SentByEth
    <2>2. \A id \in DOMAIN out_packets : out_packets[id].src = ALEO_CHAIN_ID
      BY <1>0 DEF Frame, AleoPublishes
    <2> QED
      BY <1>1, <1>2, <2>1, <2>2 DEF SentByAleo
  <1>9. EthPublishes'
    <2>1. \A m \in DOMAIN outgoingPackets' :
            /\ outgoingPackets'[m] \in Packet /\ outgoingPackets'[m].src = ETH_CHAIN_ID
            /\ outgoingPackets'[m].dstService = AleoTS
            /\ m = outgoingPackets'[m].sequence /\ m <= k
      <3> SUFFICES ASSUME NEW m \in DOMAIN outgoingPackets'
                   PROVE  /\ outgoingPackets'[m] \in Packet
                          /\ outgoingPackets'[m].src = ETH_CHAIN_ID
                          /\ outgoingPackets'[m].dstService = AleoTS
                          /\ m = outgoingPackets'[m].sequence /\ m <= k
        OBVIOUS
      <3>1. CASE m = k
        <4> HIDE DEF p
        <4> QED
          BY <1>1, <1>2, <1>4, <3>1
      <3>2. CASE m # k
        <4>1. m \in DOMAIN outgoingPackets /\ outgoingPackets'[m] = outgoingPackets[m]
          BY <1>4, <3>2
        <4>2. outgoingPackets[m].sequence \in Nat
          BY <1>5, <4>1 DEF Packet
        <4> QED
          BY <1>1, <1>5, <4>1, <4>2
      <3> QED
        BY <3>1, <3>2
    <2> QED
      BY <1>1, <1>4, <2>1 DEF EthPublishes
  <1>10. /\ funds' \in [Token -> [E!Accounts -> Nat]]
         /\ \A x \in Token : Reserve(x)' = Reserve(x) + Share(p, x)
    <2>1. u \in E!Accounts /\ TSAccount \in E!Accounts /\ u # TSAccount
      BY AccountsOfEth
    <2>2. n <= funds[t][u]
      BY <1>0, <1>1, <1>3, <2>1 DEF Books
    <2>3. Entered(t, 0)
      BY <1>0, <1>3, NothingEntered
    <2>4. /\ funds' \in [Token -> [E!Accounts -> Nat]]
          /\ \A x \in Token :
                Reserve(x)' = Reserve(x)
                  + (IF x = t THEN 0 - (IF u = TSAccount THEN n ELSE 0)
                                     + (IF TSAccount = TSAccount THEN n ELSE 0)
                              ELSE 0)
      BY <1>0, <1>1, <1>3, <2>1, <2>2, <2>3, ReserveMoves
    <2>5. \A x \in Token : Share(p, x) = IF x = t THEN n ELSE 0
      BY <1>2 DEF Share
    <2> HIDE DEF p
    <2> QED
      BY <1>1, <2>1, <2>4, <2>5
  <1>11. Frame'
    BY <1>0, <1>3, <1>4, <1>9, <1>10, AleoUntouched DEF Frame, Books, Marked, Attesting
  <1>12. UNCHANGED <<out_packets, received, total_supply>>
    BY <1>0, AleoUntouched
  <1> HIDE DEF p
  <1> QED
    BY <1>2, <1>4, <1>7, <1>8, <1>10, <1>11, <1>12, DepositEffect

(* A step on Ethereum that sends and consumes nothing.                     *)
LEMMA EthFrame ==
    ASSUME VerulinkInv, UNCHANGED <<aleo, collected>>,
           UNCHANGED <<isAttestor, quorumRequired, destinationChainId, sequence,
                       outgoingPackets, consumedPackets>>,
           (Books /\ blockNumber \in Nat)',
           \A t \in Token : Reserve(t)' = Reserve(t)
    PROVE  VerulinkInv' /\ UNCHANGED Ideal!idealVars
  <1>0. Frame /\ UNCHANGED aleo
    BY DEF VerulinkInv
  <1>1. UNCHANGED <<out_packets, received, total_supply>>
    BY <1>0, AleoUntouched
  <1>2. EthPublishes'
    BY <1>0 DEF Frame, EthPublishes
  <1>3. Frame'
    BY <1>0, <1>2, AleoUntouched DEF Frame, Books, Marked, Attesting
  <1>4. SignedWhatWasSent'
    BY <1>1, SignedStays DEF VerulinkInv, SentByAleo, SentByEth
  <1> QED
    BY <1>1, <1>3, <1>4, QuietStep

(* What the owner moves between the service and the vault is in the        *)
(* vault's books.                                                          *)
LEMMA VaultStep ==
    ASSUME VerulinkInv, NEW t \in Token, NEW n \in Amounts,
           E!transferToVault(t, n) \/ E!vaultTransfer(t, n) \/ E!receive(t, n),
           UNCHANGED <<aleo, collected>>
    PROVE  VerulinkInv' /\ UNCHANGED Ideal!idealVars
  <1>0. /\ Frame /\ Books /\ n \in Nat
        /\ funds \in [Token -> [E!Accounts -> Nat]] /\ vaultFlow \in [Token -> Int]
    BY VerulinkAssumption DEF VerulinkInv, Frame, Books
  <1>1. /\ UNCHANGED <<isAttestor, quorumRequired, destinationChainId, sequence,
                       outgoingPackets, consumedPackets>>
        /\ UNCHANGED <<blockNumber, locked, unlocked>>
    BY DEF E!transferToVault, E!vaultTransfer, E!receive, E!ethBridgeVars, E!bridgeSettings,
           E!bridgeTraffic
  <1>2. /\ funds' \in [Token -> [E!Accounts -> Nat]] /\ vaultFlow' \in [Token -> Int]
        /\ \A x \in Token : Reserve(x)' = Reserve(x)
    <2>1. CASE E!transferToVault(t, n)
      <3>1. /\ n <= funds[t][TSAccount]
            /\ funds' = E!Pay(funds, t, TSAccount, VAULT, n)
            /\ vaultFlow' = [vaultFlow EXCEPT ![t] = @ + n]
        BY <1>0, <2>1, AccountsOfEth DEF E!transferToVault
      <3>2. Entered(t, n) /\ vaultFlow' \in [Token -> Int]
        BY <1>0, <3>1 DEF Entered
      <3>3. n = (IF TSAccount = TSAccount THEN n ELSE 0) - (IF VAULT = TSAccount THEN n ELSE 0)
        BY <1>0, AccountsOfEth
      <3>4. n \in Int /\ TSAccount \in E!Accounts /\ VAULT \in E!Accounts
        BY <1>0, AccountsOfEth
      <3> QED
        BY <1>0, <3>1, <3>2, <3>3, <3>4, ReserveKept
    <2>2. CASE E!vaultTransfer(t, n)
      <3>1. /\ n <= funds[t][VAULT]
            /\ funds' = E!Pay(funds, t, VAULT, OWNER, n)
            /\ vaultFlow' = vaultFlow
        BY <1>0, <2>2, AccountsOfEth DEF E!vaultTransfer
      <3>2. Entered(t, 0)
        BY <1>0, <3>1, NothingEntered
      <3>3. 0 = (IF VAULT = TSAccount THEN n ELSE 0) - (IF OWNER = TSAccount THEN n ELSE 0)
        BY <1>0, AccountsOfEth
      <3>4. 0 \in Int /\ VAULT \in E!Accounts /\ OWNER \in E!Accounts
        BY <1>0, AccountsOfEth
      <3> QED
        BY <1>0, <3>1, <3>2, <3>3, <3>4, ReserveKept
    <2>3. CASE E!receive(t, n)
      <3>1. /\ n <= funds[t][OWNER]
            /\ funds' = E!Pay(funds, t, OWNER, TSAccount, n)
            /\ vaultFlow' = [vaultFlow EXCEPT ![t] = @ - n]
        BY <1>0, <2>3, AccountsOfEth DEF E!receive
      <3>2. Entered(t, -n) /\ vaultFlow' \in [Token -> Int]
        BY <1>0, <3>1 DEF Entered
      <3>3. -n = (IF OWNER = TSAccount THEN n ELSE 0) - (IF TSAccount = TSAccount THEN n ELSE 0)
        BY <1>0, AccountsOfEth
      <3>4. -n \in Int /\ OWNER \in E!Accounts /\ TSAccount \in E!Accounts
        BY <1>0, AccountsOfEth
      <3> QED
        BY <1>0, <3>1, <3>2, <3>3, <3>4, ReserveKept
    <2> QED
      BY <2>1, <2>2, <2>3
  <1>3. (Books /\ blockNumber \in Nat)'
    <2>1. UNCHANGED total_supply
      BY <1>0, AleoUntouched
    <2> QED
      BY <1>0, <1>1, <1>2, <2>1 DEF Frame, Books, EthPublishes, E!Accounts
  <1> QED
    BY <1>1, <1>2, <1>3, EthFrame

(* unlock moves between the two books of the holding contract, release     *)
(* pays out of it: neither concerns the reserve.                           *)
LEMMA HoldingStep ==
    ASSUME VerulinkInv, NEW u \in User, NEW t \in Token, NEW n \in Nat,
           E!unlock(u, t, n) \/ E!release(u, t),
           UNCHANGED <<aleo, collected>>
    PROVE  VerulinkInv' /\ UNCHANGED Ideal!idealVars
  <1>0. /\ Frame /\ Books /\ n \in Nat /\ u \in Account
        /\ funds \in [Token -> [E!Accounts -> Nat]] /\ vaultFlow \in [Token -> Int]
        /\ locked \in [Account -> [Token -> Nat]] /\ unlocked \in [Account -> [Token -> Nat]]
    BY VerulinkAssumption DEF VerulinkInv, Frame, Books
  <1>1. /\ UNCHANGED <<isAttestor, quorumRequired, destinationChainId, sequence,
                       outgoingPackets, consumedPackets>>
        /\ UNCHANGED blockNumber
    BY DEF E!unlock, E!release, E!ethBridgeVars, E!bridgeSettings, E!bridgeTraffic
  <1>2. /\ funds' \in [Token -> [E!Accounts -> Nat]] /\ vaultFlow' \in [Token -> Int]
        /\ locked' \in [Account -> [Token -> Nat]] /\ unlocked' \in [Account -> [Token -> Nat]]
        /\ \A x \in Token : Reserve(x)' = Reserve(x)
    <2>1. CASE E!unlock(u, t, n)
      <3>1. /\ UNCHANGED <<funds, vaultFlow>>
            /\ locked[u][t] >= n
            /\ locked' = [locked EXCEPT ![u][t] = @ - n]
            /\ unlocked' = [unlocked EXCEPT ![u][t] = @ + n]
        BY <2>1 DEF E!unlock
      <3>2. locked[u][t] - n \in Nat /\ unlocked[u][t] + n \in Nat
        BY <1>0, <3>1
      <3> DEFINE a == locked[u][t] - n
                 b == unlocked[u][t] + n
      <3>3. locked' = [locked EXCEPT ![u][t] = a] /\ unlocked' = [unlocked EXCEPT ![u][t] = b]
        BY <3>1
      <3>4. a \in Nat /\ b \in Nat
        BY <3>2
      <3> HIDE DEF a, b
      <3>5. locked' \in [Account -> [Token -> Nat]] /\ unlocked' \in [Account -> [Token -> Nat]]
        BY <1>0, <3>3, <3>4
      <3>6. \A x \in Token : Reserve(x)' = Reserve(x)
        BY <3>1 DEF Reserve
      <3> QED
        BY <1>0, <3>1, <3>5, <3>6
    <2>2. CASE E!release(u, t)
      <3> DEFINE m == unlocked[u][t]
      <3>1. /\ funds[t][HOLDING] >= m
            /\ funds' = E!Pay(funds, t, HOLDING, u, m)
            /\ vaultFlow' = vaultFlow
            /\ locked' = locked
            /\ unlocked' = [unlocked EXCEPT ![u][t] = 0]
        BY <2>2, AccountsOfEth DEF E!release, E!PaidBack
      <3>2. m \in Nat /\ funds[t][HOLDING] \in Nat /\ Entered(t, 0)
        BY <1>0, <3>1, AccountsOfEth, NothingEntered
      <3>3. unlocked' \in [Account -> [Token -> Nat]]
        BY <1>0, <3>1
      <3>4. /\ u \in E!Accounts /\ u # TSAccount
            /\ HOLDING \in E!Accounts /\ HOLDING # TSAccount
        BY AccountsOfEth
      <3> HIDE DEF m
      <3>5. m <= funds[t][HOLDING]
        BY <3>1, <3>2
      <3>6. 0 = (IF HOLDING = TSAccount THEN m ELSE 0) - (IF u = TSAccount THEN m ELSE 0)
        BY <3>4
      <3>7. /\ funds' \in [Token -> [E!Accounts -> Nat]]
            /\ \A x \in Token : Reserve(x)' = Reserve(x)
        BY <1>0, <3>1, <3>2, <3>4, <3>5, <3>6, ReserveKept
      <3> QED
        BY <1>0, <3>1, <3>3, <3>7
    <2> QED
      BY <2>1, <2>2
  <1>3. (Books /\ blockNumber \in Nat)'
    <2>1. UNCHANGED total_supply
      BY <1>0, AleoUntouched
    <2> QED
      BY <1>0, <1>1, <1>2, <2>1 DEF Frame, Books, EthPublishes, E!Accounts
  <1> QED
    BY <1>1, <1>2, <1>3, EthFrame

(* The blacklist and the blocks of Ethereum.                               *)
LEMMA EthOtherStep ==
    ASSUME VerulinkInv, UNCHANGED <<aleo, collected>>,
           \/ \E u \in User : E!addToBlackList(u) \/ E!removeFromBlackList(u)
           \/ EthBlock
    PROVE  VerulinkInv' /\ UNCHANGED Ideal!idealVars
  <1>0. Frame /\ Books
    BY DEF VerulinkInv, Frame
  <1>1. /\ UNCHANGED <<isAttestor, quorumRequired, destinationChainId, sequence,
                       outgoingPackets, consumedPackets>>
        /\ UNCHANGED <<locked, unlocked, funds, vaultFlow>>
        /\ blockNumber' \in {blockNumber, blockNumber + 1}
    BY DEF E!addToBlackList, E!removeFromBlackList, EthBlock, E!NewEthBlock, E!ethBridgeVars,
           E!bridgeSettings, E!bridgeTraffic, E!money
  <1>2. (Books /\ blockNumber \in Nat)'
    <2>1. UNCHANGED total_supply
      BY <1>0, AleoUntouched
    <2>2. blockNumber' \in Nat
      BY <1>0, <1>1 DEF Frame, EthPublishes
    <2> QED
      BY <1>0, <1>1, <2>1, <2>2 DEF Books, E!Accounts
  <1>3. \A t \in Token : Reserve(t)' = Reserve(t)
    BY <1>1 DEF Reserve
  <1> QED
    BY <1>1, <1>2, <1>3, EthFrame

(* withdraw takes what its packet carries out of the reserve, for its      *)
(* receiver or for the holding contract, and its packet was in flight.     *)
LEMMA EthDeliverStep ==
    ASSUME VerulinkInv, NEW pkt \in SentByAleo \cup Forged, DeliverToEth(pkt)
    PROVE  VerulinkInv' /\ pkt \in Packet /\ Ideal!Payout(pkt)
  <1>0. Frame /\ Books /\ UNCHANGED <<aleo, collected>> /\ UNCHANGED aleo
    BY DEF VerulinkInv, Frame, DeliverToEth
  <1>1a. PICK n \in 0 .. Cardinality(Attestor) :
          \E signatures \in [1 .. n -> UNION {Available(a, pkt) : a \in Attestor}] :
             E!withdraw(pkt, signatures)
    BY DEF DeliverToEth
  <1>1. PICK signatures \in [1 .. n -> UNION {Available(a, pkt) : a \in Attestor}] :
          E!withdraw(pkt, signatures)
    BY <1>1a
  <1> DEFINE k == pkt.sequence
             t == pkt.token
             m == pkt.amount
  <1>2. /\ pkt.dstService = EthTS
        /\ E!consume(EthTS, pkt, signatures)
        /\ funds[t][TSAccount] >= m
        /\ \/ E!lock(pkt.receiver, t, m)
           \/ E!payReceiver(pkt)
        /\ unlocked' = unlocked
    BY <1>1 DEF E!withdraw
  <1>3. /\ k \notin DOMAIN consumedPackets
        /\ DOMAIN consumedPackets' = DOMAIN consumedPackets \cup {k}
        /\ consumedPackets'[k] = pkt
        /\ \A i \in DOMAIN consumedPackets : i # k => consumedPackets'[i] = consumedPackets[i]
        /\ UNCHANGED <<isAttestor, quorumRequired, destinationChainId, sequence,
                       outgoingPackets, blockNumber>>
    BY <1>2 DEF E!consume, E!bridgeSettings
  <1>4. pkt \in Packet /\ t \in Token /\ m \in Nat /\ pkt.receiver \in Account
    <2>1. pkt \in Packet
      BY <1>0, VerulinkAssumption DEF Frame, AleoPublishes, SentByAleo
    <2> QED
      BY <2>1 DEF Packet
  <1>5. pkt \in SentByAleo
    <2>1. Attesting
      BY <1>0 DEF Frame
    <2>2. \E s \in collected : s.packet = pkt
      BY <1>2, <2>1, EthConsumesSigned
    <2>3. pkt \in SentByAleo \cup SentByEth
      BY <2>2 DEF VerulinkInv, SignedWhatWasSent
    <2>4. \A i \in DOMAIN outgoingPackets : outgoingPackets[i].dstService = AleoTS
      BY <1>0 DEF Frame, EthPublishes
    <2> QED
      BY <1>2, <2>3, <2>4, VerulinkAssumption DEF SentByEth
  <1>6. \A i \in DOMAIN consumedPackets : consumedPackets[i].sequence = i
    BY <1>0 DEF Frame, Marked
  <1>7. pkt \in ToEth
    BY <1>3, <1>5, <1>6 DEF ToEth, ConsumedByEth
  <1>8. ConsumedByEth' = ConsumedByEth \cup {pkt}
    BY <1>3 DEF ConsumedByEth
  <1>9. /\ funds \in [Token -> [E!Accounts -> Nat]] /\ vaultFlow \in [Token -> Int]
        /\ locked \in [Account -> [Token -> Nat]]
    BY <1>0 DEF Books
  <1> HIDE DEF t, m
  <1>10. m <= funds[t][TSAccount]
    BY <1>2, <1>4, <1>9, AccountsOfEth
  <1>11. /\ funds' \in [Token -> [E!Accounts -> Nat]] /\ vaultFlow' \in [Token -> Int]
         /\ locked' \in [Account -> [Token -> Nat]]
         /\ \A x \in Token : Reserve(x)' = Reserve(x) - (IF x = t THEN m ELSE 0)
    <2>1. CASE E!lock(pkt.receiver, t, m)
      <3>1. /\ funds' = E!Pay(funds, t, TSAccount, HOLDING, m)
            /\ locked' = [locked EXCEPT ![pkt.receiver][t] = @ + m]
            /\ vaultFlow' = vaultFlow
        BY <2>1 DEF E!lock
      <3>2. locked' \in [Account -> [Token -> Nat]]
        BY <1>4, <1>9, <3>1
      <3>3. Entered(t, 0) /\ HOLDING # TSAccount
            /\ HOLDING \in E!Accounts /\ TSAccount \in E!Accounts
        BY <1>0, <1>4, <3>1, NothingEntered, AccountsOfEth
      <3>4. /\ funds' \in [Token -> [E!Accounts -> Nat]]
            /\ \A x \in Token :
                  Reserve(x)' = Reserve(x)
                    + (IF x = t THEN 0 - (IF TSAccount = TSAccount THEN m ELSE 0)
                                       + (IF HOLDING = TSAccount THEN m ELSE 0)
                                ELSE 0)
        BY <1>0, <1>4, <1>10, <3>1, <3>3, ReserveMoves
      <3>5. \A x \in Token : Reserve(x) \in Int
        BY <1>0, BooksTyped
      <3>6. \A x \in Token : Reserve(x)' = Reserve(x) - (IF x = t THEN m ELSE 0)
        BY <1>4, <3>3, <3>4, <3>5
      <3> QED
        BY <1>9, <3>1, <3>2, <3>4, <3>6
    <2>2. CASE E!payReceiver(pkt)
      <3> DEFINE a == pkt.receiver
                 c == IF a = TSAccount THEN -m ELSE 0
      <3>1. /\ funds' = E!Pay(funds, t, TSAccount, a, m)
            /\ vaultFlow' = IF a = TSAccount THEN [vaultFlow EXCEPT ![t] = @ - m] ELSE vaultFlow
            /\ locked' = locked
        BY <2>2 DEF E!payReceiver, E!PaidBack, t, m
      <3>2. c \in Int /\ a \in E!Accounts /\ TSAccount \in E!Accounts
        BY <1>4, AccountsOfEth
      <3>3. Entered(t, c) /\ vaultFlow' \in [Token -> Int]
        BY <1>4, <1>9, <3>1 DEF Entered
      <3> HIDE DEF c, a
      <3>4. /\ funds' \in [Token -> [E!Accounts -> Nat]]
            /\ \A x \in Token :
                  Reserve(x)' = Reserve(x)
                    + (IF x = t THEN c - (IF TSAccount = TSAccount THEN m ELSE 0)
                                       + (IF a = TSAccount THEN m ELSE 0)
                                ELSE 0)
        BY <1>0, <1>4, <1>10, <3>1, <3>2, <3>3, ReserveMoves
      <3>5. \A x \in Token : Reserve(x) \in Int
        BY <1>0, BooksTyped
      <3>6. \A x \in Token : Reserve(x)' = Reserve(x) - (IF x = t THEN m ELSE 0)
        BY <1>4, <3>4, <3>5 DEF c
      <3> QED
        BY <1>9, <3>1, <3>3, <3>4, <3>6
    <2> QED
      BY <1>2, <2>1, <2>2
  <1>12. UNCHANGED <<out_packets, received, total_supply>>
    BY <1>0, AleoUntouched
  <1>13. Frame'
    <2>1. \A i \in DOMAIN consumedPackets' : consumedPackets'[i].sequence = i
      BY <1>3, <1>6
    <2>2. Books'
      BY <1>0, <1>2, <1>11, <1>12 DEF Books, E!Accounts
    <2>3. EthPublishes'
      BY <1>0, <1>3 DEF Frame, EthPublishes
    <2> QED
      BY <1>0, <1>3, <2>1, <2>2, <2>3, AleoUntouched DEF Frame, Marked, Attesting
  <1>14. \A x \in Token : Reserve(x)' = Reserve(x) - Share(pkt, x)
    BY <1>11 DEF Share, t, m
  <1> QED
    BY <1>0, <1>3, <1>4, <1>7, <1>8, <1>12, <1>13, <1>14, PayoutEffect

-----------------------------------------------------------------------------
(* All steps *)

LEMMA AttestStep ==
    ASSUME VerulinkInv, NEW a, NEW pkt, NEW v, Attest(a, pkt, v)
    PROVE  VerulinkInv' /\ UNCHANGED Ideal!idealVars
  <1>0. Frame /\ UNCHANGED aleo /\ UNCHANGED ethereum
    BY DEF VerulinkInv, Attest
  <1>1. /\ UNCHANGED <<out_packets, received, total_supply>>
        /\ UNCHANGED <<outgoingPackets, consumedPackets, funds, vaultFlow>>
    BY <1>0, AleoUntouched, EthUntouched
  <1>2. Frame'
    BY <1>0, AleoUntouched, EthUntouched DEF Frame, Books, Marked, Attesting
  <1>3. SignedWhatWasSent'
    <2>1. SentByAleo' = SentByAleo /\ SentByEth' = SentByEth
      BY <1>1 DEF SentByAleo, SentByEth
    <2> QED
      BY <2>1 DEF Attest, Sign, SignedWhatWasSent, VerulinkInv
  <1>4. \A t \in Token : Reserve(t)' = Reserve(t)
    BY <1>1 DEF Reserve
  <1> QED
    BY <1>1, <1>2, <1>3, <1>4, QuietStep

LEMMA VerulinkInvInit == Init => VerulinkInv /\ Ideal!IdealInit
  <1> SUFFICES ASSUME Init PROVE VerulinkInv /\ Ideal!IdealInit
    OBVIOUS
  <1>1. /\ A!BridgeReady /\ E!EthBridgeReady
        /\ total_supply = <<>> /\ collected = {}
        /\ locked = [u \in Account |-> [t \in Token |-> 0]]
        /\ unlocked = [u \in Account |-> [t \in Token |-> 0]]
        /\ funds = [t \in Token |-> [a \in E!Accounts |-> IF a \in User THEN InitialFunds ELSE 0]]
        /\ vaultFlow = [t \in Token |-> 0]
    BY DEF Init
  <1>2. /\ out_packets = <<>> /\ received = {} /\ sequences = [c \in Chain |-> 1]
        /\ attestors = Address /\ threshold = Threshold /\ block_height = 1
    BY <1>1 DEF A!BridgeReady
  <1>3. /\ outgoingPackets = <<>> /\ consumedPackets = <<>> /\ sequence = 0 /\ blockNumber = 1
        /\ isAttestor = Attestor /\ quorumRequired = Threshold
        /\ destinationChainId = ALEO_CHAIN_ID
    BY <1>1 DEF E!EthBridgeReady, Attestor, ZERO_ADDRESS, E!ZERO_ADDRESS
  <1>4. /\ SentByAleo = {} /\ SentByEth = {} /\ ConsumedByAleo = {} /\ ConsumedByEth = {}
        /\ DOMAIN out_packets = {} /\ DOMAIN outgoingPackets = {}
        /\ DOMAIN consumedPackets = {} /\ DOMAIN total_supply = {}
    BY <1>1, <1>2, <1>3 DEF SentByAleo, SentByEth, ConsumedByAleo, ConsumedByEth
  <1>5. Frame
    <2>1. Books
      BY <1>1, <1>4, VerulinkAssumption DEF Books
    <2> QED
      BY <1>2, <1>3, <1>4, <2>1 DEF Frame, Attesting, AleoPublishes, EthPublishes, Marked
  <1>6. \A t \in Token : Reserve(t) = 0 /\ A!Supply(t) = 0
    BY <1>1, <1>4, AccountsOfEth DEF Reserve, A!Supply
  <1>7. ToAleo = {} /\ ToEth = {}
    BY <1>4 DEF ToAleo, ToEth
  <1>8. FullyBacked
    BY <1>6, <1>7, TotalEmpty DEF FullyBacked, ToAleo, ToEth
  <1>9. VerulinkInv
    BY <1>1, <1>4, <1>5, <1>7, <1>8, TotalEmpty DEF VerulinkInv, SignedWhatWasSent, OnlySentConsumed
  <1>10. Ideal!IdealInit
    BY <1>4, <1>6 DEF Ideal!IdealInit
  <1> QED
    BY <1>9, <1>10

LEMMA VerulinkInvStep ==
    ASSUME VerulinkInv, [Next]_verulinkVars
    PROVE  VerulinkInv' /\ [Ideal!IdealNext]_Ideal!idealVars
  <1>1. CASE AleoStep
    <2>1. UNCHANGED <<ethereum, collected>>
      BY <1>1 DEF AleoStep
    <2>2. ASSUME NEW u \in User, NEW r \in User, NEW t \in Token, NEW n \in Amounts,
                 AleoSend(u, t, r, n)
          PROVE  VerulinkInv' /\ Ideal!IdealNext
      BY <2>1, <2>2, AleoSendStep DEF Ideal!IdealNext, Ideal!Burn
    <2>3. CASE \/ \E t \in Token, u \in User, n \in Amounts : A!holding_release(owner_TS, t, u, n)
               \/ AleoBlock
      BY <2>1, <2>3, AleoQuietStep
    <2> QED
      BY <1>1, <2>2, <2>3 DEF AleoStep
  <1>2. CASE EthStep
    <2>1. UNCHANGED <<aleo, collected>>
      BY <1>2 DEF EthStep
    <2>2. ASSUME NEW u \in User, NEW r \in User, NEW t \in Token, NEW n \in Amounts,
                 EthSend(u, t, n, r)
          PROVE  VerulinkInv' /\ Ideal!IdealNext
      BY <2>1, <2>2, EthSendStep DEF Ideal!IdealNext, Ideal!Deposit
    <2>3. ASSUME NEW u \in User, NEW t \in Token, NEW n \in Amounts, E!unlock(u, t, n)
          PROVE  VerulinkInv' /\ UNCHANGED Ideal!idealVars
      BY <2>1, <2>3, HoldingStep, VerulinkAssumption
    <2>4. ASSUME NEW u \in User, NEW t \in Token, E!release(u, t)
          PROVE  VerulinkInv' /\ UNCHANGED Ideal!idealVars
      <3>1. 0 \in Nat /\ (E!unlock(u, t, 0) \/ E!release(u, t))
        BY <2>4
      <3> QED
        BY <2>1, <3>1, HoldingStep
    <2>5. ASSUME NEW t \in Token, NEW n \in Amounts,
                 E!transferToVault(t, n) \/ E!vaultTransfer(t, n) \/ E!receive(t, n)
          PROVE  VerulinkInv' /\ UNCHANGED Ideal!idealVars
      BY <2>1, <2>5, VaultStep
    <2>6. CASE \/ \E u \in User : E!addToBlackList(u) \/ E!removeFromBlackList(u)
               \/ EthBlock
      BY <2>1, <2>6, EthOtherStep
    <2> QED
      BY <1>2, <2>2, <2>3, <2>4, <2>5, <2>6 DEF EthStep
  <1>3. ASSUME NEW a, NEW pkt, NEW v, Attest(a, pkt, v)
        PROVE  VerulinkInv' /\ UNCHANGED Ideal!idealVars
    BY <1>3, AttestStep
  <1>4. ASSUME NEW pkt \in SentByEth \cup Forged, DeliverToAleo(pkt)
        PROVE  VerulinkInv' /\ Ideal!IdealNext
    <2>1. VerulinkInv' /\ pkt \in Packet /\ Ideal!Mint(pkt)
      BY <1>4, AleoDeliverStep
    <2>2. pkt \in (SentByEth \cup SentByAleo)'
      BY <2>1 DEF Ideal!Mint
    <2> QED
      BY <2>1, <2>2 DEF Ideal!IdealNext
  <1>5. ASSUME NEW pkt \in SentByAleo \cup Forged, DeliverToEth(pkt)
        PROVE  VerulinkInv' /\ Ideal!IdealNext
    <2>1. VerulinkInv' /\ pkt \in Packet /\ Ideal!Payout(pkt)
      BY <1>5, EthDeliverStep
    <2>2. pkt \in (SentByEth \cup SentByAleo)'
      BY <2>1 DEF Ideal!Payout
    <2> QED
      BY <2>1, <2>2 DEF Ideal!IdealNext
  <1>6. CASE UNCHANGED verulinkVars
    <2>1. UNCHANGED aleo /\ UNCHANGED ethereum /\ UNCHANGED collected
      BY <1>6 DEF verulinkVars
    <2>2. /\ UNCHANGED <<out_packets, received, total_supply>>
          /\ UNCHANGED <<outgoingPackets, consumedPackets, funds, vaultFlow>>
          /\ Frame
      BY <2>1, AleoUntouched, EthUntouched DEF VerulinkInv
    <2>3. Frame'
      BY <2>1, <2>2, AleoUntouched, EthUntouched DEF Frame, Books, Marked, Attesting
    <2>4. SignedWhatWasSent'
      BY <2>1, <2>2, SignedStays DEF VerulinkInv, SentByAleo, SentByEth
    <2>5. \A t \in Token : Reserve(t)' = Reserve(t)
      BY <2>2 DEF Reserve
    <2> QED
      BY <2>2, <2>3, <2>4, <2>5, QuietStep
  <1> QED
    BY <1>1, <1>2, <1>3, <1>4, <1>5, <1>6 DEF Next

-----------------------------------------------------------------------------
(* Theorems *)

(* Neither chain consumes a packet that the other one did not send, in     *)
(* every field, while fewer attestors than the threshold misbehave.        *)
THEOREM OnlySentIsConsumed == Spec => []OnlySentConsumed
  <1>1. VerulinkInv => OnlySentConsumed
    BY DEF VerulinkInv
  <1>2. VerulinkInv /\ [Next]_verulinkVars => VerulinkInv'
    BY VerulinkInvStep
  <1>3. Init => VerulinkInv
    BY VerulinkInvInit
  <1> QED
    BY <1>1, <1>2, <1>3, PTL DEF Spec

(* The reserve on Ethereum is the supply on Aleo and what is in flight.    *)
THEOREM AlwaysFullyBacked == Spec => []FullyBacked
  <1>1. VerulinkInv => FullyBacked
    BY DEF VerulinkInv
  <1>2. VerulinkInv /\ [Next]_verulinkVars => VerulinkInv'
    BY VerulinkInvStep
  <1>3. Init => VerulinkInv
    BY VerulinkInvInit
  <1> QED
    BY <1>1, <1>2, <1>3, PTL DEF Spec

(* Every step of the chains and the attestors is a step of the ideal       *)
(* bridge or none.                                                         *)
THEOREM VerulinkRefinesIdeal == Spec => ImplementsIdealBridge
  <1>1. Init => VerulinkInv /\ Ideal!IdealInit
    BY VerulinkInvInit
  <1>2. VerulinkInv /\ [Next]_verulinkVars => VerulinkInv' /\ [Ideal!IdealNext]_Ideal!idealVars
    BY VerulinkInvStep
  <1> QED
    BY <1>1, <1>2, PTL DEF Spec, ImplementsIdealBridge, Ideal!IdealSpec
=============================================================================
