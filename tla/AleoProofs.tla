----------------------------- MODULE AleoProofs -----------------------------
(***************************************************************************)
(* Proofs about the programs on Aleo: first the bridge program, for every  *)
(* number of attestors, every size of the signer arrays and every bound,   *)
(* then the token service and the holding program, for every set of        *)
(* tokens, accounts and owners and every limit.                            *)
(*                                                                         *)
(* The bridge's theorems rest on one inductive invariant, BridgeInv: the   *)
(* types, the attestor bookkeeping, the correspondence of the consumed     *)
(* marks with the consumptions that took effect, and the numbering of      *)
(* published packets.  ServiceInv adds the types of the service, the       *)
(* supply against the registry, the held funds against both holding        *)
(* counters, and the window of the withdrawal limit.  Finiteness of units  *)
(* is part of it because sums count units.                                 *)
(***************************************************************************)
EXTENDS AleoTokenService, PacketTotals

-----------------------------------------------------------------------------
(* The bridge program *)

(* Every published packet lies below the counter of its chain, also when   *)
(* the chain is Aleo itself, whose counter counts all packets.             *)
PublishedBelowCounter ==
    \A id \in DOMAIN out_packets : id[2] < sequences[id[1]]

BridgeInv ==
    /\ BridgeTypeOK
    /\ AttestorSetSound
    /\ ConsumedOnce
    /\ PublishedBelowCounter
    /\ OutSequencesContiguous

-----------------------------------------------------------------------------
(* The slots of an array that hold a non-zero address are finitely many.   *)
LEMMA SlotsFinite ==
    ASSUME NEW S \in SUBSET Slots
    PROVE  IsFiniteSet(S) /\ Cardinality(S) \in Nat
  <1>1. IsFiniteSet(Slots)
    BY FS_Interval, SupportedThresholdAssumption DEF Slots
  <1>2. IsFiniteSet(S)
    BY <1>1, FS_Subset
  <1> QED
    BY <1>2, FS_CardinalityType

(* Distinct slots of an array with unique addresses hold distinct          *)
(* addresses: counting slots counts addresses.                             *)
LEMMA CountSlotsIsCountAddresses ==
    ASSUME NEW as, UniqueAddresses(as), NEW S \in SUBSET UsedSlots(as)
    PROVE  /\ IsFiniteSet({as[i] : i \in S})
           /\ Cardinality({as[i] : i \in S}) = Cardinality(S)
  <1> DEFINE f == [i \in S |-> as[i]]
             T == {as[i] : i \in S}
  <1>1. IsFiniteSet(S)
    BY SlotsFinite DEF UsedSlots
  <1>2. f \in Bijection(S, T)
    <2>1. f \in [S -> T] /\ \A t \in T : \E i \in S : f[i] = t
      OBVIOUS
    <2>2. \A i, j \in S : f[i] = f[j] => i = j
      BY DEF UniqueAddresses
    <2> QED
      BY <2>1, <2>2, Fun_IsBij
  <1>3. ExistsBijection(S, T)
    BY <1>2 DEF ExistsBijection
  <1> QED
    BY <1>1, <1>3, FS_Bijection

(* No more slots are used than there are.                                  *)
LEMMA UsedSlotsCount ==
    ASSUME NEW as
    PROVE  get_valid_unique_address_count(as) \in 0 .. SUPPORTED_THRESHOLD
  <1>1. SUPPORTED_THRESHOLD \in Int /\ 1 \in Int /\ ~(1 > SUPPORTED_THRESHOLD)
    BY SupportedThresholdAssumption
  <1>2. IsFiniteSet(Slots) /\ Cardinality(Slots) = SUPPORTED_THRESHOLD
    <2>1. IsFiniteSet(1 .. SUPPORTED_THRESHOLD)
      BY <1>1, FS_Interval
    <2>2. Cardinality(1 .. SUPPORTED_THRESHOLD) = SUPPORTED_THRESHOLD - 1 + 1
      BY <1>1, FS_Interval
    <2> QED
      BY <1>1, <2>1, <2>2 DEF Slots
  <1>3. UsedSlots(as) \subseteq Slots
    BY DEF UsedSlots
  <1>4. /\ Cardinality(UsedSlots(as)) \in Nat
        /\ Cardinality(UsedSlots(as)) <= SUPPORTED_THRESHOLD
    BY <1>2, <1>3, FS_Subset, FS_CardinalityType
  <1>5. \A k \in Nat : k <= SUPPORTED_THRESHOLD => k \in 0 .. SUPPORTED_THRESHOLD
    BY <1>1
  <1> QED
    BY <1>4, <1>5 DEF get_valid_unique_address_count

(* The distinct non-zero addresses of an array of initial members or       *)
(* attestors.                                                              *)
LEMMA InitialAttestors ==
    ASSUME NEW as, UniqueAddresses(as)
    PROVE  Cardinality(({as[i] : i \in Slots} \cup {ZERO_ADDRESS}) \ {ZERO_ADDRESS})
             = get_valid_unique_address_count(as)
  <1>1. ({as[i] : i \in Slots} \cup {ZERO_ADDRESS}) \ {ZERO_ADDRESS} = {as[i] : i \in UsedSlots(as)}
    BY DEF UsedSlots
  <1> QED
    BY <1>1, CountSlotsIsCountAddresses DEF get_valid_unique_address_count

(* What consume establishes about the voters it records.                   *)
LEMMA ConsumeQuorum ==
    ASSUME BridgeTypeOK, NEW s, NEW pkt,
           NEW signers \in [Slots -> Address], NEW signs,
           consume(s, pkt, signers, signs)
    PROVE  LET r == Receipt(pkt, signers, signs)
           IN  /\ r.verdict \in Verdict
               /\ r.voters \subseteq attestors \ {ZERO_ADDRESS}
               /\ Cardinality(r.voters) >= threshold
  <1> DEFINE v == Majority(pkt, signers, signs)
             S == VotedSlots(pkt, signers, signs, v)
  <1>1. UniqueAddresses(signers) /\ Cardinality(S) >= threshold
    BY DEF consume, MajorityExists, votes, VoteCount
  <1>2. S \subseteq UsedSlots(signers) /\ S \subseteq Slots
    BY DEF VotedSlots, UsedSlots
  <1>3. Cardinality({signers[i] : i \in S}) = Cardinality(S)
    BY <1>1, <1>2, CountSlotsIsCountAddresses
  <1>4. {signers[i] : i \in S} \subseteq attestors \ {ZERO_ADDRESS}
    BY <1>2 DEF consume, UsedSlots
  <1>5. v \in Verdict
    BY DEF Majority, Verdict
  <1> QED
    BY <1>1, <1>3, <1>4, <1>5 DEF Receipt

-----------------------------------------------------------------------------
(* The steps of the owner that leave attestors and traffic alone.          *)
LEMMA FrameStep ==
    ASSUME BridgeInv,
           UNCHANGED <<attestors, threshold, total_attestors, traffic>>,
           owner_TB' \in Owner, owner_TB \in Owner,
           unpaused' \in BOOLEAN,
           supported_chains' \subseteq Chain,
           supported_services' \subseteq Service,
           block_height' \in Nat
    PROVE  BridgeInv'
  <1> USE DEF BridgeInv, traffic
  <1>1. BridgeTypeOK'
    BY DEF BridgeTypeOK
  <1>2. AttestorSetSound'
    BY BridgeAssumption DEF AttestorSetSound
  <1>3. ConsumedOnce' /\ PublishedBelowCounter' /\ OutSequencesContiguous'
    BY DEF ConsumedOnce, PublishedBelowCounter, OutSequencesContiguous
  <1> QED
    BY <1>1, <1>2, <1>3

(* The steps that change the attestor set or the threshold.                *)
LEMMA AttestorStep ==
    ASSUME BridgeInv,
           unpaused' \in BOOLEAN,
           UNCHANGED <<traffic, supported_chains, supported_services, block_height>>,
           owner_TB' \in Owner,
           attestors' \subseteq Address, ZERO_ADDRESS \in attestors',
           total_attestors' \in u8,
           total_attestors' = Cardinality(attestors' \ {ZERO_ADDRESS}),
           threshold' \in 1 .. total_attestors'
    PROVE  BridgeInv'
  <1> USE DEF BridgeInv, traffic
  <1>1. BridgeTypeOK'
    BY BridgeAssumption DEF BridgeTypeOK, u8
  <1>2. AttestorSetSound'
    BY DEF AttestorSetSound
  <1>3. ConsumedOnce' /\ PublishedBelowCounter' /\ OutSequencesContiguous'
    BY DEF ConsumedOnce, PublishedBelowCounter, OutSequencesContiguous
  <1> QED
    BY <1>1, <1>2, <1>3

(* initialize_tb establishes the attestor bookkeeping.                     *)
LEMMA InitializeStep ==
    ASSUME BridgeInv, NEW as \in [Slots -> Address], NEW n \in u8, NEW o \in Owner,
           initialize_tb(as, n, o)
    PROVE  BridgeInv'
  <1> DEFINE used == get_valid_unique_address_count(as)
  <1>1. used \in u8
    <2>1. U8_MAX \in Nat /\ SUPPORTED_THRESHOLD \in Nat /\ SUPPORTED_THRESHOLD <= U8_MAX
      BY BridgeAssumption, SupportedThresholdAssumption
    <2>2. \A k \in 0 .. SUPPORTED_THRESHOLD : k \in 0 .. U8_MAX
      BY <2>1
    <2> QED
      BY <2>2, UsedSlotsCount DEF u8
  <1>2. Cardinality(attestors' \ {ZERO_ADDRESS}) = used
    BY InitialAttestors DEF initialize_tb
  <1>3. attestors' \subseteq Address /\ ZERO_ADDRESS \in attestors'
    BY BridgeAssumption DEF initialize_tb
  <1> QED
    BY <1>1, <1>2, <1>3, AttestorStep DEF initialize_tb, BridgeInv, BridgeTypeOK

(* publish extends the numbering of its destination chain by one.          *)
LEMMA PublishStepInv ==
    ASSUME BridgeInv, NEW s \in Service, NEW c \in Chain, NEW d \in Service, NEW t \in Token,
           NEW from \in Account, NEW to \in Account, NEW amt \in Nat,
           publish(s, c, d, t, from, to, amt)
    PROVE  /\ BridgeInv'
           /\ \A id \in DOMAIN out_packets :
                 id \in DOMAIN out_packets' /\ out_packets'[id] = out_packets[id]
  <1> DEFINE id == <<c, sequences[c]>>
             pkt == OutPacket(s, c, d, t, from, to, amt)
  <1>0. /\ sequences \in [Chain -> Nat \ {0}] /\ ALEO_CHAIN_ID \in Chain
        /\ block_height \in Nat
        /\ DOMAIN out_packets \subseteq Chain \X Nat
    BY BridgeAssumption DEF BridgeInv, BridgeTypeOK, PacketId
  <1>1. /\ DOMAIN out_packets' = DOMAIN out_packets \cup {id}
        /\ out_packets'[id] = pkt
        /\ \A i \in DOMAIN out_packets : i # id => out_packets'[i] = out_packets[i]
    BY DEF publish
  <1>2. id \notin DOMAIN out_packets
    BY <1>0 DEF BridgeInv, PublishedBelowCounter
  <1>3. pkt \in Packet /\ pkt.sequence = sequences[c] /\ id \in PacketId
    BY <1>0 DEF OutPacket, Packet, PacketId
  <1>4. /\ sequences' \in [Chain -> Nat \ {0}]
        /\ sequences'[c] = sequences[c] + 1
        /\ \A e \in Chain : sequences'[e] >= sequences[e]
        /\ \A e \in Chain : e # c /\ e # ALEO_CHAIN_ID => sequences'[e] = sequences[e]
    BY <1>0 DEF publish
  <1>5. BridgeTypeOK'
    BY <1>1, <1>3, <1>4 DEF BridgeInv, BridgeTypeOK, publish, settings
  <1>6. AttestorSetSound' /\ ConsumedOnce'
    BY DEF BridgeInv, AttestorSetSound, ConsumedOnce, publish, settings
  <1>7. PublishedBelowCounter'
    <2> SUFFICES ASSUME NEW i \in DOMAIN out_packets \cup {id}
                 PROVE  i[2] < sequences'[i[1]]
      BY <1>1 DEF PublishedBelowCounter
    <2>1. CASE i = id
      BY <2>1, <1>0, <1>4
    <2>2. CASE i \in DOMAIN out_packets
      BY <2>2, <1>0, <1>4 DEF BridgeInv, PublishedBelowCounter
    <2> QED
      BY <2>1, <2>2
  <1>8. OutSequencesContiguous'
    <2> SUFFICES ASSUME NEW e \in Chain \ {ALEO_CHAIN_ID}
                 PROVE  /\ {i \in DOMAIN out_packets' : i[1] = e} = {e} \X (1 .. sequences'[e] - 1)
                        /\ \A n \in 1 .. sequences'[e] - 1 : out_packets'[<<e, n>>].sequence = n
      BY DEF OutSequencesContiguous
    <2>1. /\ {i \in DOMAIN out_packets : i[1] = e} = {e} \X (1 .. sequences[e] - 1)
          /\ \A n \in 1 .. sequences[e] - 1 : out_packets[<<e, n>>].sequence = n
      BY DEF BridgeInv, OutSequencesContiguous
    <2>2. \A n \in 1 .. sequences[e] - 1 : <<e, n>> \in DOMAIN out_packets
      BY <2>1
    <2>3. CASE e = c
      <3>1. 1 .. sequences'[e] - 1 = (1 .. sequences[e] - 1) \cup {sequences[e]}
        BY <2>3, <1>0, <1>4
      <3>2. {i \in DOMAIN out_packets' : i[1] = e}
              = {i \in DOMAIN out_packets : i[1] = e} \cup {id}
        BY <2>3, <1>1
      <3>3. \A n \in 1 .. sequences[e] - 1 : <<e, n>> # id
        BY <2>3, <2>2, <1>2
      <3> QED
        BY <2>1, <2>2, <2>3, <3>1, <3>2, <3>3, <1>1, <1>3
    <2>4. CASE e # c
      <3>1. sequences'[e] = sequences[e]
        BY <2>4, <1>4
      <3>2. {i \in DOMAIN out_packets' : i[1] = e} = {i \in DOMAIN out_packets : i[1] = e}
        BY <2>4, <1>1
      <3>3. \A n \in 1 .. sequences[e] - 1 : <<e, n>> # id
        BY <2>4
      <3> QED
        BY <2>1, <2>2, <3>1, <3>2, <3>3, <1>1
    <2> QED
      BY <2>3, <2>4
  <1> QED
    BY <1>1, <1>2, <1>5, <1>6, <1>7, <1>8 DEF BridgeInv

(* consume adds one mark and one record, for an id that had neither.       *)
LEMMA ConsumeStepInv ==
    ASSUME BridgeInv, NEW s, NEW pkt \in Packet,
           NEW signers \in [Slots -> Address], NEW signs,
           consume(s, pkt, signers, signs)
    PROVE  /\ BridgeInv'
           /\ \A r \in received' \ received :
                 /\ r.voters \subseteq attestors \ {ZERO_ADDRESS}
                 /\ Cardinality(r.voters) >= threshold
  <1> DEFINE rcpt == Receipt(pkt, signers, signs)
             pid(r) == <<r.packet.src, r.packet.sequence>>
  <1>1. /\ in_packet_consumed' = in_packet_consumed \cup {<<pkt.src, pkt.sequence>>}
        /\ received' = received \cup {rcpt}
        /\ <<pkt.src, pkt.sequence>> \notin in_packet_consumed
        /\ UNCHANGED <<settings, sequences, out_packets, block_height>>
    BY DEF consume
  <1>2. /\ rcpt.verdict \in Verdict
        /\ rcpt.voters \subseteq attestors \ {ZERO_ADDRESS}
        /\ Cardinality(rcpt.voters) >= threshold
    BY ConsumeQuorum DEF BridgeInv
  <1>3. rcpt = [packet |-> pkt, verdict |-> rcpt.verdict, voters |-> rcpt.voters]
    BY DEF Receipt
  <1>4. pid(rcpt) = <<pkt.src, pkt.sequence>> /\ <<pkt.src, pkt.sequence>> \in PacketId
    BY <1>3 DEF Packet, PacketId
  <1>5. BridgeTypeOK'
    <2>1. rcpt \in [packet : Packet, verdict : Verdict, voters : SUBSET Address]
      BY <1>2, <1>3 DEF BridgeInv, BridgeTypeOK
    <2> QED
      BY <2>1, <1>1, <1>4 DEF BridgeInv, BridgeTypeOK, settings
  <1>6. AttestorSetSound' /\ PublishedBelowCounter' /\ OutSequencesContiguous'
    BY <1>1 DEF BridgeInv, AttestorSetSound, PublishedBelowCounter, OutSequencesContiguous,
                settings
  <1>7. ConsumedOnce'
    <2>1. /\ in_packet_consumed = {pid(r) : r \in received}
          /\ \A r1, r2 \in received : pid(r1) = pid(r2) => r1 = r2
      BY DEF BridgeInv, ConsumedOnce
    <2>2. \A r \in received : pid(r) # pid(rcpt)
      BY <2>1, <1>1, <1>4
    <2>3. in_packet_consumed' = {pid(r) : r \in received'}
      BY <2>1, <1>1, <1>4
    <2>4. \A r1, r2 \in received' : pid(r1) = pid(r2) => r1 = r2
      BY <2>1, <2>2, <1>1
    <2> QED
      BY <2>3, <2>4 DEF ConsumedOnce
  <1> QED
    BY <1>1, <1>2, <1>5, <1>6, <1>7 DEF BridgeInv

(* Adding or removing one non-zero attestor moves the count by one.        *)
LEMMA AddAttestorCount ==
    ASSUME BridgeInv, owner_TB \in Owner, NEW a \in Address
    PROVE  /\ a \notin attestors =>
                Cardinality((attestors \cup {a}) \ {ZERO_ADDRESS}) = total_attestors + 1
           /\ a \in attestors /\ a # ZERO_ADDRESS =>
                Cardinality((attestors \ {a}) \ {ZERO_ADDRESS}) = total_attestors - 1
  <1> DEFINE A == attestors \ {ZERO_ADDRESS}
  <1>1. /\ attestors \subseteq Address /\ ZERO_ADDRESS \in attestors
        /\ total_attestors = Cardinality(A)
    BY BridgeAssumption DEF BridgeInv, BridgeTypeOK, AttestorSetSound
  <1>2. IsFiniteSet(A)
    BY <1>1, BridgeAssumption, FS_Subset
  <1>3. ASSUME a \notin attestors
        PROVE  Cardinality((attestors \cup {a}) \ {ZERO_ADDRESS}) = total_attestors + 1
    <2>1. (attestors \cup {a}) \ {ZERO_ADDRESS} = A \cup {a} /\ a \notin A
      BY <1>1, <1>3
    <2> QED
      BY <2>1, <1>1, <1>2, FS_AddElement
  <1>4. ASSUME a \in attestors, a # ZERO_ADDRESS
        PROVE  Cardinality((attestors \ {a}) \ {ZERO_ADDRESS}) = total_attestors - 1
    <2>1. (attestors \ {a}) \ {ZERO_ADDRESS} = A \ {a} /\ a \in A
      BY <1>4
    <2> QED
      BY <2>1, <1>1, <1>2, FS_RemoveElement
  <1> QED
    BY <1>3, <1>4

-----------------------------------------------------------------------------
(* BridgeInv holds initially and every step of the bridge preserves it.    *)
LEMMA BridgeInvInit == BridgeInit => BridgeInv
  <1> SUFFICES ASSUME BridgeInit PROVE BridgeInv
    OBVIOUS
  <1> USE DEF BridgeInit
  <1>0. U8_MAX \in Nat /\ DOMAIN out_packets = {}
    BY BridgeAssumption
  <1>1. BridgeTypeOK
    <2>1. threshold \in u8 /\ total_attestors \in u8 /\ block_height \in Nat
      BY <1>0 DEF u8
    <2>2. sequences \in [Chain -> Nat \ {0}]
      OBVIOUS
    <2>3. unpaused \in BOOLEAN /\ owner_TB \in Owner \cup {NoOwner}
      OBVIOUS
    <2> QED
      BY <1>0, <2>1, <2>2, <2>3 DEF BridgeTypeOK
  <1>2. AttestorSetSound /\ ConsumedOnce /\ PublishedBelowCounter /\ OutSequencesContiguous
    BY <1>0 DEF AttestorSetSound, ConsumedOnce, PublishedBelowCounter, OutSequencesContiguous
  <1> QED
    BY <1>1, <1>2 DEF BridgeInv

LEMMA OwnerStepInv ==
    ASSUME BridgeInv, NEW from \in Owner, OwnerStep(from)
    PROVE  BridgeInv' /\ UNCHANGED traffic
  <1>0. /\ BridgeTypeOK /\ AttestorSetSound
        /\ U8_MAX \in Nat /\ NoOwner \notin Owner
    BY BridgeAssumption DEF BridgeInv
  <1>1. ASSUME NEW o \in Owner, transfer_ownership_tb(from, o)
        PROVE  BridgeInv' /\ UNCHANGED traffic
    BY <1>1, <1>0, FrameStep DEF transfer_ownership_tb, BridgeTypeOK
  <1>2. ASSUME NEW a \in Address, NEW n \in u8, add_attestor_tb(from, a, n)
        PROVE  BridgeInv' /\ UNCHANGED traffic
    <2>1. total_attestors' = Cardinality(attestors' \ {ZERO_ADDRESS})
      BY <1>2, AddAttestorCount DEF add_attestor_tb
    <2>2. attestors' \subseteq Address /\ ZERO_ADDRESS \in attestors'
      BY <1>2, <1>0 DEF add_attestor_tb, BridgeTypeOK, AttestorSetSound
    <2> QED
      BY <1>2, <1>0, <2>1, <2>2, AttestorStep DEF add_attestor_tb, BridgeTypeOK, u8
  <1>3. ASSUME NEW a \in Address, NEW n \in u8, remove_attestor_tb(from, a, n)
        PROVE  BridgeInv' /\ UNCHANGED traffic
    <2>1. total_attestors' = Cardinality(attestors' \ {ZERO_ADDRESS})
      BY <1>3, AddAttestorCount DEF remove_attestor_tb
    <2>2. attestors' \subseteq Address /\ ZERO_ADDRESS \in attestors'
      BY <1>3, <1>0 DEF remove_attestor_tb, BridgeTypeOK, AttestorSetSound
    <2>3. total_attestors' \in u8
      BY <1>3, <1>0 DEF remove_attestor_tb, BridgeTypeOK, u8
    <2> QED
      BY <1>3, <1>0, <2>1, <2>2, <2>3, AttestorStep DEF remove_attestor_tb, BridgeTypeOK
  <1>4. ASSUME NEW n \in u8, update_threshold_tb(from, n)
        PROVE  BridgeInv' /\ UNCHANGED traffic
    <2>1. /\ owner_TB \in Owner /\ ZERO_ADDRESS \in attestors
          /\ total_attestors = Cardinality(attestors \ {ZERO_ADDRESS})
      BY <1>4, <1>0 DEF update_threshold_tb, AttestorSetSound
    <2> QED
      BY <1>4, <1>0, <2>1, AttestorStep DEF update_threshold_tb, BridgeTypeOK
  <1>5. ASSUME NEW c \in Chain, add_chain_tb(from, c) \/ remove_chain_tb(from, c)
        PROVE  BridgeInv' /\ UNCHANGED traffic
    BY <1>5, <1>0, FrameStep DEF add_chain_tb, remove_chain_tb, BridgeTypeOK
  <1>6. ASSUME NEW s \in Service, add_service_tb(from, s) \/ remove_service_tb(from, s)
        PROVE  BridgeInv' /\ UNCHANGED traffic
    BY <1>6, <1>0, FrameStep DEF add_service_tb, remove_service_tb, BridgeTypeOK
  <1>7. ASSUME pause_tb(from) \/ unpause_tb(from)
        PROVE  BridgeInv' /\ UNCHANGED traffic
    BY <1>7, <1>0, FrameStep DEF pause_tb, unpause_tb, BridgeTypeOK
  <1> QED
    BY <1>1, <1>2, <1>3, <1>4, <1>5, <1>6, <1>7 DEF OwnerStep

(* What any step guarantees: the invariant afterwards, a quorum for every  *)
(* new consumption, and no change to a published packet.                   *)
StepGuarantee ==
    /\ BridgeInv'
    /\ \A r \in received' \ received :
          /\ r.voters \subseteq attestors \ {ZERO_ADDRESS}
          /\ Cardinality(r.voters) >= threshold
    /\ \A id \in DOMAIN out_packets :
          id \in DOMAIN out_packets' /\ out_packets'[id] = out_packets[id]

LEMMA BridgeInvStep ==
    ASSUME BridgeInv, [BridgeNext]_bridgeVars
    PROVE  StepGuarantee
  <1>0. ASSUME BridgeInv', UNCHANGED traffic
        PROVE  StepGuarantee
    BY <1>0 DEF StepGuarantee, traffic
  <1>1. ASSUME NEW as \in [Slots -> Address], NEW n \in u8, NEW o \in Owner,
               initialize_tb(as, n, o)
        PROVE  StepGuarantee
    BY <1>0, <1>1, InitializeStep DEF initialize_tb
  <1>2. ASSUME NEW from \in Owner, OwnerStep(from)
        PROVE  StepGuarantee
    BY <1>0, <1>2, OwnerStepInv
  <1>3. CASE PublishStep
    <2>1. PICK p \in InPackets, c \in Chain :
            publish(p.dstService, c, p.srcService, p.token, p.sender, p.receiver, p.amount)
      BY <1>3 DEF PublishStep
    <2>2. p \in Packet
      BY BridgeAssumption
    <2>3. /\ p.dstService \in Service /\ p.srcService \in Service /\ p.token \in Token
          /\ p.sender \in Account /\ p.receiver \in Account /\ p.amount \in Nat
      BY <2>2 DEF Packet
    <2>4. UNCHANGED received
      BY <2>1 DEF publish
    <2> QED
      BY <2>1, <2>3, <2>4, PublishStepInv DEF StepGuarantee
  <1>4. CASE ConsumeStep
    <2>1. PICK p \in InPackets, signers \in [Slots -> Address],
               vs \in [Slots -> Verdict \cup {"NONE"}] :
            consume(p.dstService, p, signers, [i \in Slots |-> Sign(signers[i], p, vs[i])])
      BY <1>4 DEF ConsumeStep
    <2>2. p \in Packet
      BY BridgeAssumption
    <2>3. UNCHANGED out_packets
      BY <2>1 DEF consume
    <2> QED
      BY <2>1, <2>2, <2>3, ConsumeStepInv DEF StepGuarantee
  <1>5. CASE NewBlock
    <2>1. block_height' \in Nat /\ UNCHANGED <<settings, traffic>>
      BY <1>5 DEF NewBlock, BridgeInv, BridgeTypeOK
    <2>2. BridgeInv'
      BY <2>1 DEF BridgeInv, BridgeTypeOK, AttestorSetSound, ConsumedOnce, PublishedBelowCounter,
                  OutSequencesContiguous, settings, traffic
    <2> QED
      BY <2>1, <2>2, <1>0
  <1>6. CASE UNCHANGED bridgeVars
    <2>1. BridgeInv'
      BY <1>6 DEF BridgeInv, BridgeTypeOK, AttestorSetSound, ConsumedOnce, PublishedBelowCounter,
                  OutSequencesContiguous, bridgeVars, settings, traffic
    <2> QED
      BY <2>1, <1>6, <1>0 DEF bridgeVars
  <1> QED
    BY <1>1, <1>2, <1>3, <1>4, <1>5, <1>6 DEF BridgeNext

-----------------------------------------------------------------------------
(* The mappings of vlink_token_bridge_v1 keep their types.                 *)
THEOREM BridgeTypeCorrect == BridgeSpec => []BridgeTypeOK
  <1>1. BridgeInv => BridgeTypeOK
    BY DEF BridgeInv
  <1>2. BridgeInv /\ [BridgeNext]_bridgeVars => BridgeInv'
    BY BridgeInvStep DEF StepGuarantee
  <1> QED
    BY <1>1, <1>2, BridgeInvInit, PTL DEF BridgeSpec

(* Whatever the owner does, the threshold stays within reach of the        *)
(* attestors and total_attestors stays their number.                       *)
THEOREM AttestorSetAlwaysSound == BridgeSpec => []AttestorSetSound
  <1>1. BridgeInv => AttestorSetSound
    BY DEF BridgeInv
  <1>2. BridgeInv /\ [BridgeNext]_bridgeVars => BridgeInv'
    BY BridgeInvStep DEF StepGuarantee
  <1> QED
    BY <1>1, <1>2, BridgeInvInit, PTL DEF BridgeSpec

(* No packet id takes effect twice in consume.                             *)
THEOREM EveryPacketConsumedOnce == BridgeSpec => []ConsumedOnce
  <1>1. BridgeInv => ConsumedOnce
    BY DEF BridgeInv
  <1>2. BridgeInv /\ [BridgeNext]_bridgeVars => BridgeInv'
    BY BridgeInvStep DEF StepGuarantee
  <1> QED
    BY <1>1, <1>2, BridgeInvInit, PTL DEF BridgeSpec

(* Packets to a foreign chain are numbered without a hole by publish.      *)
THEOREM SequencesAlwaysContiguous == BridgeSpec => []OutSequencesContiguous
  <1>1. BridgeInv => OutSequencesContiguous
    BY DEF BridgeInv
  <1>2. BridgeInv /\ [BridgeNext]_bridgeVars => BridgeInv'
    BY BridgeInvStep DEF StepGuarantee
  <1> QED
    BY <1>1, <1>2, BridgeInvInit, PTL DEF BridgeSpec

(* consume needs the same verdict of threshold distinct attestors.         *)
THEOREM ConsumeNeedsQuorum == BridgeSpec => QuorumOnConsume
  <1>1. BridgeInv /\ [BridgeNext]_bridgeVars => BridgeInv'
    BY BridgeInvStep DEF StepGuarantee
  <1>2. BridgeInv /\ [BridgeNext]_bridgeVars
          => [\A r \in received' \ received :
                /\ r.voters \subseteq attestors \ {ZERO_ADDRESS}
                /\ Cardinality(r.voters) >= threshold]_bridgeVars
    BY BridgeInvStep DEF StepGuarantee
  <1> QED
    BY <1>1, <1>2, BridgeInvInit, PTL DEF BridgeSpec, QuorumOnConsume

(* publish never overwrites a packet that is already there to be read.     *)
THEOREM PublishedPacketsKept == BridgeSpec => OutPacketsKept
  <1>1. BridgeInv /\ [BridgeNext]_bridgeVars => BridgeInv'
    BY BridgeInvStep DEF StepGuarantee
  <1>2. BridgeInv /\ [BridgeNext]_bridgeVars
          => [\A id \in DOMAIN out_packets :
                id \in DOMAIN out_packets' /\ out_packets'[id] = out_packets[id]]_bridgeVars
    BY BridgeInvStep DEF StepGuarantee
  <1> QED
    BY <1>1, <1>2, BridgeInvInit, PTL DEF BridgeSpec, OutPacketsKept
-----------------------------------------------------------------------------
(* The token service and the holding program *)


(* What the packets carry that took token t since block h, by packet id;   *)
(* `sent' is the token of each packet that token_send published.           *)
SentIn(sent, packets, t, h) ==
    [id \in {i \in DOMAIN sent : sent[i] = t /\ packets[i].height >= h} |-> packets[id].amount]

SentMap(t, h) == SentIn(sent_token, out_packets, t, h)

(* What the holding program records in token t, by account. *)
HeldMap(t) == [a \in Account |-> holdings[a][t]]

RegistryInv ==
    /\ \A t \in Token : IsFiniteSet(UnitsOf(balances[t]))
    /\ SupplyMatchesRegistry

HoldingInv ==
    /\ \A t \in Token : IsFiniteSet(UnitsOf(HeldMap(t)))
    /\ ~delegated => owner_holding \in {TS, NoOwner}
    /\ owner_holding = NoOwner => ~delegated
    /\ HeldFundsBacked

(* The snapshot of t when all windows have the length and limit of `limit'. *)
SnapshotSound(t, limit) ==
    /\ token_snapshot[t].height <= block_height
    /\ IsFiniteSet(UnitsOf(SentMap(t, token_snapshot[t].height)))
    /\ SentSince(t, token_snapshot[t].height) <= token_snapshot[t].withdrawn
    /\ WithinLimit(limit, token_snapshot[t])
    /\ \A id \in DOMAIN sent_token :
          sent_token[id] = t => out_packets[id].height <= token_snapshot[t].height + limit.duration

WindowInv ==
    /\ \A id \in DOMAIN sent_token :
          /\ sent_token[id] \in DOMAIN token_snapshot
          /\ out_packets[id].height <= block_height
    /\ \A limit \in Limits :
          Limits = {limit} => \A t \in DOMAIN token_snapshot : SnapshotSound(t, limit)

ServiceInv == ServiceTypeOK /\ BridgeInv /\ RegistryInv /\ HoldingInv /\ WindowInv

-----------------------------------------------------------------------------
(* Each part of the invariant survives a step that leaves its state alone. *)
LEMMA RegistrySame ==
    ASSUME RegistryInv, UNCHANGED <<total_supply, balances>>
    PROVE  RegistryInv'
  BY DEF RegistryInv, SupplyMatchesRegistry, Supply

LEMMA HoldingSame ==
    ASSUME ServiceInv, UNCHANGED <<token_holding, holdings, held_by>>,
           \A t \in Token : /\ balances[t][HOLDING_ADDRESS] \in Nat
                            /\ balances'[t][HOLDING_ADDRESS] \in Nat
                            /\ balances'[t][HOLDING_ADDRESS] >= balances[t][HOLDING_ADDRESS]
    PROVE  HoldingInv'
  <1>1. \A t \in Token : IsFiniteSet(UnitsOf(HeldMap(t)))'
    BY DEF ServiceInv, HoldingInv, HeldMap
  <1>2. \A t \in Token : token_holding[t] \in Nat
    BY DEF ServiceInv, ServiceTypeOK
  <1>3. HeldFundsBacked'
    BY <1>2 DEF ServiceInv, HoldingInv, HeldFundsBacked, held_by
  <1> QED
    BY <1>1, <1>3 DEF ServiceInv, HoldingInv, held_by

LEMMA WindowSame ==
    ASSUME ServiceInv, UNCHANGED <<window, out_packets>>,
           block_height' \in Nat, block_height' >= block_height
    PROVE  WindowInv'
  <1>1. /\ block_height \in Nat
        /\ \A id \in DOMAIN sent_token : out_packets[id].height \in Nat
        /\ \A t \in DOMAIN token_snapshot : token_snapshot[t].height \in Nat
    BY DEF ServiceInv, ServiceTypeOK, BridgeTypeOK, Packet
  <1>2. \A id \in DOMAIN sent_token' :
          /\ sent_token'[id] \in DOMAIN token_snapshot'
          /\ out_packets'[id].height <= block_height'
    BY <1>1 DEF ServiceInv, WindowInv, window
  <1>3. ASSUME NEW limit \in Limits, Limits = {limit}, NEW t \in DOMAIN token_snapshot
        PROVE  SnapshotSound(t, limit)'
    <2>1. SnapshotSound(t, limit)
      BY <1>3 DEF ServiceInv, WindowInv
    <2>2. token_snapshot[t].height <= block_height'
      BY <1>1, <2>1 DEF SnapshotSound
    <2> QED
      BY <2>1, <2>2 DEF SnapshotSound, SentMap, SentIn, SentSince, WithinLimit, window
  <1> QED
    BY <1>2, <1>3 DEF WindowInv, window

-----------------------------------------------------------------------------
(* The registry. *)

(* The step changes one balance, that of u in t.                           *)
OneBalance(t, u) ==
    /\ balances' \in [Token -> [Account -> Nat]]
    /\ \A x \in Token, a \in Account : ~(x = t /\ a = u) => balances'[x][a] = balances[x][a]

(* The step moves n of t from one balance to another.                      *)
Moved(t, from, to, n) ==
    /\ balances' \in [Token -> [Account -> Nat]]
    /\ \A x \in Token \ {t} : balances'[x] = balances[x]
    /\ \A a \in Account :
          balances'[t][a] = balances[t][a] - (IF a = from THEN n ELSE 0)
                                           + (IF a = to THEN n ELSE 0)

LEMMA CreditEffect ==
    ASSUME ServiceTypeOK, NEW t \in Token, NEW u \in Account, NEW n \in Nat,
           balances' = [balances EXCEPT ![t][u] = @ + n]
    PROVE  OneBalance(t, u) /\ balances'[t][u] = balances[t][u] + n
  <1>1. balances \in [Token -> [Account -> Nat]]
    BY DEF ServiceTypeOK
  <1> QED
    BY <1>1 DEF OneBalance

LEMMA DebitEffect ==
    ASSUME ServiceTypeOK, NEW t \in Token, NEW u \in Account, NEW n \in Nat,
           balances[t][u] >= n,
           balances' = [balances EXCEPT ![t][u] = @ - n]
    PROVE  OneBalance(t, u) /\ balances'[t][u] = balances[t][u] - n
  <1>1. balances \in [Token -> [Account -> Nat]]
    BY DEF ServiceTypeOK
  <1> QED
    BY <1>1 DEF OneBalance

LEMMA MoveEffect ==
    ASSUME ServiceTypeOK, NEW t \in Token, NEW from \in Account, NEW to \in Account,
           NEW n \in Nat, balances[t][from] >= n,
           balances' = LET debited == [balances EXCEPT ![t][from] = @ - n]
                       IN  [debited EXCEPT ![t][to] = @ + n]
    PROVE  Moved(t, from, to, n)
  <1> DEFINE d == [balances EXCEPT ![t][from] = @ - n]
             g == [d EXCEPT ![t][to] = @ + n]
  <1>0. balances \in [Token -> [Account -> Nat]]
    BY DEF ServiceTypeOK
  <1>1. /\ d \in [Token -> [Account -> Nat]]
        /\ \A x \in Token \ {t} : d[x] = balances[x]
        /\ \A a \in Account : d[t][a] = balances[t][a] - (IF a = from THEN n ELSE 0)
    BY <1>0
  <1>2. /\ g \in [Token -> [Account -> Nat]]
        /\ \A x \in Token \ {t} : g[x] = d[x]
        /\ \A a \in Account : g[t][a] = d[t][a] + (IF a = to THEN n ELSE 0)
    <2> HIDE DEF d
    <2> QED
      BY <1>1
  <1>3. balances' = g
    OBVIOUS
  <1> HIDE DEF d, g
  <1> QED
    BY <1>1, <1>2, <1>3 DEF Moved

(* The supply stays right when it changes by as much as one balance.       *)
LEMMA RegistryChange ==
    ASSUME ServiceInv, NEW t \in Token, NEW u \in Account, OneBalance(t, u),
           NEW before \in Nat, before = balances[t][u],
           NEW after \in Nat, after = balances'[t][u],
           \A x \in Token \ {t} : Supply(x)' = Supply(x),
           Supply(t) \in Nat, Supply(t)' \in Nat,
           Supply(t)' + before = Supply(t) + after
    PROVE  RegistryInv'
  <1>1. ASSUME NEW x \in Token, x # t
        PROVE  IsFiniteSet(UnitsOf(balances'[x])) /\ Supply(x)' = SumOf(balances'[x])
    <2>1. /\ balances[x] \in [Account -> Nat] /\ balances'[x] \in [Account -> Nat]
          /\ \A a \in Account : balances'[x][a] = balances[x][a]
      BY <1>1 DEF ServiceInv, ServiceTypeOK, OneBalance
    <2>2. balances'[x] = balances[x]
      BY <2>1
    <2> QED
      BY <1>1, <2>2 DEF ServiceInv, RegistryInv, SupplyMatchesRegistry
  <1>2. IsFiniteSet(UnitsOf(balances'[t])) /\ Supply(t)' = SumOf(balances'[t])
    <2>1. PICK f \in [Account -> Nat], g \in [Account -> Nat] : f = balances[t] /\ g = balances'[t]
      BY DEF ServiceInv, ServiceTypeOK, OneBalance
    <2>2. \A a \in Account \ {u} : g[a] = f[a]
      BY <2>1 DEF OneBalance
    <2>3. IsFiniteSet(UnitsOf(f)) /\ Supply(t) = SumOf(f)
      BY <2>1 DEF ServiceInv, RegistryInv, SupplyMatchesRegistry
    <2>4. /\ IsFiniteSet(UnitsOf(g)) /\ SumOf(f) \in Nat /\ SumOf(g) \in Nat
          /\ SumOf(g) + f[u] = SumOf(f) + g[u]
      BY <2>2, <2>3, SumChange
    <2>5. f[u] = before /\ g[u] = after
      BY <2>1
    <2>6. Supply(t)' = SumOf(g)
      BY <2>3, <2>4, <2>5
    <2> QED
      BY <2>1, <2>4, <2>6
  <1>3. \A x \in Token : IsFiniteSet(UnitsOf(balances'[x])) /\ Supply(x)' = SumOf(balances'[x])
    BY <1>1, <1>2
  <1> QED
    BY <1>3 DEF RegistryInv, SupplyMatchesRegistry

(* A transfer between accounts keeps the supply.                           *)
LEMMA RegistryMoved ==
    ASSUME ServiceInv, NEW t \in Token, NEW from \in Account, NEW to \in Account,
           NEW n \in Nat, balances[t][from] >= n, Moved(t, from, to, n),
           UNCHANGED total_supply
    PROVE  RegistryInv'
  <1>1. \A x \in Token : Supply(x)' = Supply(x)
    BY DEF Supply
  <1>2. ASSUME NEW x \in Token, x # t
        PROVE  IsFiniteSet(UnitsOf(balances'[x])) /\ Supply(x)' = SumOf(balances'[x])
    <2>1. balances'[x] = balances[x]
      BY <1>2 DEF Moved
    <2> QED
      BY <1>1, <2>1 DEF ServiceInv, RegistryInv, SupplyMatchesRegistry
  <1>3. IsFiniteSet(UnitsOf(balances'[t])) /\ Supply(t)' = SumOf(balances'[t])
    <2>1. PICK f \in [Account -> Nat], g \in [Account -> Nat] : f = balances[t] /\ g = balances'[t]
      BY DEF ServiceInv, ServiceTypeOK, Moved
    <2>2. Shifted(f, g, from, to, n)
      BY <2>1 DEF Moved, Shifted
    <2>3. IsFiniteSet(UnitsOf(f)) /\ Supply(t) = SumOf(f) /\ n <= f[from]
      BY <2>1 DEF ServiceInv, RegistryInv, SupplyMatchesRegistry
    <2>4. IsFiniteSet(UnitsOf(g)) /\ SumOf(g) = SumOf(f)
      BY <2>2, <2>3, SumMove
    <2> QED
      BY <1>1, <2>1, <2>3, <2>4
  <1>4. \A x \in Token : IsFiniteSet(UnitsOf(balances'[x])) /\ Supply(x)' = SumOf(balances'[x])
    BY <1>2, <1>3
  <1> QED
    BY <1>4 DEF RegistryInv, SupplyMatchesRegistry

-----------------------------------------------------------------------------
(* The held funds. *)

(* The step changes one entry of the holding program.                      *)
OneHolding(u, t) ==
    /\ holdings' \in [Account -> [Token -> Nat]]
    /\ \A a \in Account, x \in Token : ~(a = u /\ x = t) => holdings'[a][x] = holdings[a][x]

(* What is held in a token changes by as much as the entry of one account. *)
LEMMA HeldChange ==
    ASSUME ServiceInv, NEW u \in Account, NEW t \in Token, OneHolding(u, t),
           NEW before \in Nat, before = holdings[u][t],
           NEW after \in Nat, after = holdings'[u][t],
           NEW x \in Token
    PROVE  /\ IsFiniteSet(UnitsOf(HeldMap(x)))'
           /\ SumOf(HeldMap(x)) \in Nat /\ SumOf(HeldMap(x))' \in Nat
           /\ x # t => SumOf(HeldMap(x))' = SumOf(HeldMap(x))
           /\ x = t => SumOf(HeldMap(x))' + before = SumOf(HeldMap(x)) + after
  <1>1. HeldMap(x) \in [Account -> Nat] /\ HeldMap(x)' \in [Account -> Nat]
    BY DEF ServiceInv, ServiceTypeOK, OneHolding, HeldMap
  <1>2. PICK f \in [Account -> Nat], g \in [Account -> Nat] : f = HeldMap(x) /\ g = HeldMap(x)'
    BY <1>1
  <1>3. \A a \in Account \ {u} : g[a] = f[a]
    BY <1>2 DEF OneHolding, HeldMap
  <1>4. IsFiniteSet(UnitsOf(f))
    BY <1>2 DEF ServiceInv, HoldingInv
  <1>5. /\ IsFiniteSet(UnitsOf(g)) /\ SumOf(f) \in Nat /\ SumOf(g) \in Nat
        /\ SumOf(g) + f[u] = SumOf(f) + g[u]
    BY <1>3, <1>4, SumChange
  <1>6. f[u] \in Nat /\ g[u] \in Nat
    OBVIOUS
  <1>7. x # t => g[u] = f[u]
    BY <1>2 DEF OneHolding, HeldMap
  <1>8. x = t => f[u] = before /\ g[u] = after
    BY <1>2 DEF HeldMap
  <1>9. x # t => SumOf(g) = SumOf(f)
    BY <1>5, <1>6, <1>7
  <1>10. x = t => SumOf(g) + before = SumOf(f) + after
    BY <1>5, <1>8
  <1> QED
    BY <1>2, <1>5, <1>9, <1>10

(* The service holds or releases: its counter follows the entry, and the   *)
(* account of the holding program still covers it.                         *)
LEMMA HoldingChanged ==
    ASSUME ServiceInv, NEW u \in Account, NEW t \in Token, OneHolding(u, t),
           NEW before \in Nat, before = holdings[u][t],
           NEW after \in Nat, after = holdings'[u][t],
           NEW counted \in Nat, counted = token_holding[t],
           NEW counts \in Nat, counts = token_holding'[t],
           \A x \in Token \ {t} : /\ token_holding'[x] = token_holding[x]
                                  /\ balances'[x][HOLDING_ADDRESS] = balances[x][HOLDING_ADDRESS],
           counts + before = counted + after,
           ~delegated => counts <= balances'[t][HOLDING_ADDRESS],
           UNCHANGED held_by
    PROVE  HoldingInv'
  <1>1. \A x \in Token :
           /\ IsFiniteSet(UnitsOf(HeldMap(x)))'
           /\ SumOf(HeldMap(x)) \in Nat /\ SumOf(HeldMap(x))' \in Nat
           /\ x # t => SumOf(HeldMap(x))' = SumOf(HeldMap(x))
           /\ x = t => SumOf(HeldMap(x))' + before = SumOf(HeldMap(x)) + after
    BY HeldChange
  <1>2. ~delegated => \A x \in Token : /\ token_holding[x] = SumOf(HeldMap(x))
                                       /\ token_holding[x] <= balances[x][HOLDING_ADDRESS]
    BY DEF ServiceInv, HoldingInv, HeldFundsBacked, HeldMap
  <1>3. ASSUME ~delegated, NEW x \in Token
        PROVE  /\ token_holding'[x] = SumOf(HeldMap(x))'
               /\ token_holding'[x] <= balances'[x][HOLDING_ADDRESS]
    <2>1. CASE x # t
      BY <1>1, <1>2, <1>3, <2>1
    <2>2. CASE x = t
      <3>1. /\ SumOf(HeldMap(x)) = counted /\ SumOf(HeldMap(x))' \in Nat
            /\ SumOf(HeldMap(x))' + before = SumOf(HeldMap(x)) + after
        BY <1>1, <1>2, <1>3, <2>2
      <3>2. SumOf(HeldMap(x))' = counts
        BY <3>1
      <3> QED
        BY <1>3, <2>2, <3>2
    <2> QED
      BY <2>1, <2>2
  <1>4. HeldFundsBacked'
    BY <1>3 DEF HeldFundsBacked, HeldMap, held_by
  <1> QED
    BY <1>1, <1>4 DEF ServiceInv, HoldingInv, held_by

(* A wallet that owns the holding program changes an entry: nothing is     *)
(* claimed of the held funds any more.                                     *)
LEMMA HoldingBypassed ==
    ASSUME ServiceInv, NEW u \in Account, NEW t \in Token, OneHolding(u, t),
           delegated, UNCHANGED held_by
    PROVE  HoldingInv'
  <1>1. holdings[u][t] \in Nat /\ holdings'[u][t] \in Nat
    BY DEF ServiceInv, ServiceTypeOK, OneHolding
  <1>2. \A x \in Token : IsFiniteSet(UnitsOf(HeldMap(x)))'
    BY <1>1, HeldChange
  <1> QED
    BY <1>2 DEF ServiceInv, HoldingInv, HeldFundsBacked, held_by

-----------------------------------------------------------------------------
(* Administration. *)

LEMMA BridgeSame ==
    ASSUME BridgeInv, UNCHANGED bridgeVars
    PROVE  BridgeInv'
  BY DEF BridgeInv, BridgeTypeOK, AttestorSetSound, ConsumedOnce, PublishedBelowCounter,
         OutSequencesContiguous, bridgeVars, settings, traffic

(* A step that touches nothing but the configuration of the service.       *)
LEMMA ConfigStep ==
    ASSUME ServiceInv, UNCHANGED <<bridgeVars, ledger, window, held_by>>,
           owner_TS' \in Owner \cup {NoOwner},
           DOMAIN token_info' \subseteq Token,
           \A t \in DOMAIN token_info' :
              token_info'[t] \in [min : Nat, max : Nat, limit : Limits, paused : BOOLEAN],
           DOMAIN other_chain' \subseteq Chain \X Token,
           \A k \in DOMAIN other_chain' : other_chain'[k] \in [service : Service, address : Token]
    PROVE  ServiceInv'
  <1>1. BridgeInv'
    BY BridgeSame DEF ServiceInv
  <1>2. ServiceTypeOK'
    BY <1>1 DEF ServiceInv, ServiceTypeOK, BridgeInv, bridgeVars, traffic, ledger, window, held_by
  <1>3. RegistryInv'
    BY RegistrySame DEF ServiceInv, ledger
  <1>4. \A t \in Token : balances[t][HOLDING_ADDRESS] \in Nat
    BY ServiceAssumption DEF ServiceInv, ServiceTypeOK
  <1>5. HoldingInv'
    BY <1>4, HoldingSame DEF ledger
  <1>6. block_height \in Nat
    BY DEF ServiceInv, BridgeInv, BridgeTypeOK
  <1>7. WindowInv'
    BY <1>6, WindowSame DEF bridgeVars, traffic
  <1> QED
    BY <1>1, <1>2, <1>3, <1>5, <1>7 DEF ServiceInv

(* The configuration has its types; so do its entries when one is put in,  *)
(* changed or dropped.                                                     *)
LEMMA ConfigTypes ==
    ASSUME ServiceInv
    PROVE  /\ owner_TS \in Owner \cup {NoOwner}
           /\ DOMAIN token_info \subseteq Token
           /\ \A t \in DOMAIN token_info :
                 token_info[t] \in [min : Nat, max : Nat, limit : Limits, paused : BOOLEAN]
           /\ DOMAIN other_chain \subseteq Chain \X Token
           /\ \A k \in DOMAIN other_chain : other_chain[k] \in [service : Service, address : Token]
  BY DEF ServiceInv, ServiceTypeOK

LEMMA SetOtherChainStep ==
    ASSUME ServiceInv, NEW from, NEW new, SetOtherChain(from, new),
           DOMAIN new \subseteq Chain \X Token,
           \A k \in DOMAIN new : new[k] \in [service : Service, address : Token]
    PROVE  ServiceInv'
  BY ConfigTypes, ConfigStep DEF SetOtherChain

LEMMA SetTokenInfoStep ==
    ASSUME ServiceInv, NEW from, NEW new, SetTokenInfo(from, new),
           DOMAIN new \subseteq Token,
           \A t \in DOMAIN new : new[t] \in [min : Nat, max : Nat, limit : Limits, paused : BOOLEAN]
    PROVE  ServiceInv'
  BY ConfigTypes, ConfigStep DEF SetTokenInfo

LEMMA OtherChainSteps ==
    ASSUME ServiceInv, NEW from, NEW t \in Token, NEW c \in Chain, NEW s \in Service,
           NEW a \in Token,
           \/ update_other_chain_tokenservice(from, c, t, s)
           \/ update_other_chain_tokenaddress(from, c, t, a)
           \/ remove_other_chain_addresses(from, c, t)
           \/ add_chain_to_existing_token(from, c, t, s, a)
    PROVE  ServiceInv'
  <1> DEFINE k0 == <<c, t>>
             Entry == [service : Service, address : Token]
  <1>0. k0 \in Chain \X Token
    OBVIOUS
  <1>1. CASE update_other_chain_tokenservice(from, c, t, s)
    <2> DEFINE new == [other_chain EXCEPT ![k0].service = s]
    <2>1. DOMAIN new \subseteq Chain \X Token /\ \A k \in DOMAIN new : new[k] \in Entry
      BY ConfigTypes
    <2>2. SetOtherChain(from, new)
      BY <1>1 DEF update_other_chain_tokenservice
    <2> HIDE DEF new
    <2> QED
      BY <2>1, <2>2, SetOtherChainStep
  <1>2. CASE update_other_chain_tokenaddress(from, c, t, a)
    <2> DEFINE new == [other_chain EXCEPT ![k0].address = a]
    <2>1. DOMAIN new \subseteq Chain \X Token /\ \A k \in DOMAIN new : new[k] \in Entry
      BY ConfigTypes
    <2>2. SetOtherChain(from, new)
      BY <1>2 DEF update_other_chain_tokenaddress
    <2> HIDE DEF new
    <2> QED
      BY <2>1, <2>2, SetOtherChainStep
  <1>3. CASE remove_other_chain_addresses(from, c, t)
    <2> DEFINE new == Drop(other_chain, k0)
    <2>1. DOMAIN new \subseteq Chain \X Token /\ \A k \in DOMAIN new : new[k] \in Entry
      BY ConfigTypes DEF Drop
    <2>2. SetOtherChain(from, new)
      BY <1>3 DEF remove_other_chain_addresses
    <2> HIDE DEF new
    <2> QED
      BY <2>1, <2>2, SetOtherChainStep
  <1>4. CASE add_chain_to_existing_token(from, c, t, s, a)
    <2> DEFINE new == Put(other_chain, k0, [service |-> s, address |-> a])
    <2>1. DOMAIN new \subseteq Chain \X Token /\ \A k \in DOMAIN new : new[k] \in Entry
      BY <1>0, ConfigTypes DEF Put
    <2>2. SetOtherChain(from, new)
      BY <1>4 DEF add_chain_to_existing_token
    <2> HIDE DEF new
    <2> QED
      BY <2>1, <2>2, SetOtherChainStep
  <1> QED
    BY <1>1, <1>2, <1>3, <1>4

LEMMA TokenInfoSteps ==
    ASSUME ServiceInv, NEW from, NEW t \in Token,
           \/ remove_token_ts(from, t)
           \/ pause_token_ts(from, t)
           \/ unpause_token_ts(from, t)
           \/ \E n \in Amounts : update_min_transfer_ts(from, t, n)
           \/ \E n \in Amounts : update_max_transfer_ts(from, t, n)
           \/ \E l \in Limits : update_withdrawal_limit(from, t, l)
    PROVE  ServiceInv'
  <1> DEFINE Info == [min : Nat, max : Nat, limit : Limits, paused : BOOLEAN]
  <1>0. Amounts \subseteq Nat
    BY ServiceAssumption
  <1>1. CASE remove_token_ts(from, t)
    <2> DEFINE new == Drop(token_info, t)
    <2>1. DOMAIN new \subseteq Token /\ \A x \in DOMAIN new : new[x] \in Info
      BY ConfigTypes DEF Drop
    <2>2. SetTokenInfo(from, new)
      BY <1>1 DEF remove_token_ts
    <2> HIDE DEF new
    <2> QED
      BY <2>1, <2>2, SetTokenInfoStep
  <1>2. ASSUME NEW b \in BOOLEAN, SetTokenInfo(from, [token_info EXCEPT ![t].paused = b])
        PROVE  ServiceInv'
    <2> DEFINE new == [token_info EXCEPT ![t].paused = b]
    <2>1. DOMAIN new \subseteq Token /\ \A x \in DOMAIN new : new[x] \in Info
      BY ConfigTypes
    <2>2. SetTokenInfo(from, new)
      BY <1>2
    <2> HIDE DEF new
    <2> QED
      BY <2>1, <2>2, SetTokenInfoStep
  <1>3. ASSUME NEW n \in Amounts, SetTokenInfo(from, [token_info EXCEPT ![t].min = n])
        PROVE  ServiceInv'
    <2> DEFINE new == [token_info EXCEPT ![t].min = n]
    <2>1. DOMAIN new \subseteq Token /\ \A x \in DOMAIN new : new[x] \in Info
      BY <1>0, ConfigTypes
    <2>2. SetTokenInfo(from, new)
      BY <1>3
    <2> HIDE DEF new
    <2> QED
      BY <2>1, <2>2, SetTokenInfoStep
  <1>4. ASSUME NEW n \in Amounts, SetTokenInfo(from, [token_info EXCEPT ![t].max = n])
        PROVE  ServiceInv'
    <2> DEFINE new == [token_info EXCEPT ![t].max = n]
    <2>1. DOMAIN new \subseteq Token /\ \A x \in DOMAIN new : new[x] \in Info
      BY <1>0, ConfigTypes
    <2>2. SetTokenInfo(from, new)
      BY <1>4
    <2> HIDE DEF new
    <2> QED
      BY <2>1, <2>2, SetTokenInfoStep
  <1>5. ASSUME NEW l \in Limits, SetTokenInfo(from, [token_info EXCEPT ![t].limit = l])
        PROVE  ServiceInv'
    <2> DEFINE new == [token_info EXCEPT ![t].limit = l]
    <2>1. DOMAIN new \subseteq Token /\ \A x \in DOMAIN new : new[x] \in Info
      BY ConfigTypes
    <2>2. SetTokenInfo(from, new)
      BY <1>5
    <2> HIDE DEF new
    <2> QED
      BY <2>1, <2>2, SetTokenInfoStep
  <1> QED
    BY <1>1, <1>2, <1>3, <1>4, <1>5
       DEF pause_token_ts, unpause_token_ts, update_min_transfer_ts, update_max_transfer_ts,
           update_withdrawal_limit

LEMMA AddTokenStep ==
    ASSUME ServiceInv, NEW from, NEW t \in Token, NEW min \in Amounts, NEW max \in Amounts,
           NEW l \in Limits, NEW c \in Chain, NEW s \in Service, NEW a \in Token,
           add_token_ts(from, t, min, max, l, c, s, a)
    PROVE  ServiceInv'
  <1> DEFINE Info == [min : Nat, max : Nat, limit : Limits, paused : BOOLEAN]
             info == [min |-> min, max |-> max, limit |-> l, paused |-> TRUE]
             entry == [service |-> s, address |-> a]
             k0 == <<c, t>>
  <1>1. min \in Nat /\ max \in Nat
    BY ServiceAssumption
  <1>2. info \in Info /\ entry \in [service : Service, address : Token]
    BY <1>1
  <1>3. k0 \in Chain \X Token
    OBVIOUS
  <1>4. token_info' = Put(token_info, t, info) /\ other_chain' = Put(other_chain, k0, entry)
    BY DEF add_token_ts
  <1> HIDE DEF info, entry, k0
  <1>5. DOMAIN token_info' \subseteq Token /\ \A x \in DOMAIN token_info' : token_info'[x] \in Info
    BY <1>2, <1>4, ConfigTypes DEF Put
  <1>6. /\ DOMAIN other_chain' \subseteq Chain \X Token
        /\ \A k \in DOMAIN other_chain' : other_chain'[k] \in [service : Service, address : Token]
    BY <1>2, <1>3, <1>4, ConfigTypes DEF Put
  <1>7. UNCHANGED <<bridgeVars, owner_TS, ledger, window, held_by>>
    BY DEF add_token_ts
  <1> QED
    BY <1>5, <1>6, <1>7, ConfigTypes, ConfigStep

LEMMA OwnershipStep ==
    ASSUME ServiceInv, NEW o \in Owner,
           initialize_ts(o) \/ \E from \in Owner : transfer_ownership_ts(from, o)
    PROVE  ServiceInv'
  <1>1. /\ owner_TS' = o
        /\ UNCHANGED <<bridgeVars, token_info, other_chain, ledger, window, held_by>>
    BY DEF initialize_ts, transfer_ownership_ts
  <1> QED
    BY <1>1, ConfigTypes, ConfigStep

-----------------------------------------------------------------------------
(* The holding program. *)

(* The types after a step that leaves the configuration and the window     *)
(* alone.                                                                  *)
LEMMA LedgerTypes ==
    ASSUME ServiceInv, BridgeInv', UNCHANGED <<config, window, out_packets>>,
           DOMAIN total_supply' \subseteq Token,
           \A t \in DOMAIN total_supply' : total_supply'[t] \in Nat,
           token_holding' \in [Token -> Nat],
           holdings' \in [Account -> [Token -> Nat]],
           balances' \in [Token -> [Account -> Nat]],
           owner_holding' \in Owner \cup {TS, NoOwner},
           delegated' \in BOOLEAN
    PROVE  ServiceTypeOK'
  BY DEF ServiceInv, ServiceTypeOK, BridgeInv, config, window

(* The same, when no money moves either.                                   *)
LEMMA OwnerOfHoldingStep ==
    ASSUME ServiceInv, UNCHANGED <<bridgeVars, config, ledger, window>>,
           owner_holding' \in Owner \cup {TS},
           owner_holding = NoOwner \/ delegated' = (delegated \/ owner_holding' # TS),
           owner_holding = NoOwner => delegated' = (owner_holding' # TS)
    PROVE  ServiceInv'
  <1>1. BridgeInv'
    BY BridgeSame DEF ServiceInv
  <1>2. /\ ServiceTypeOK /\ HoldingInv
        /\ delegated \in BOOLEAN /\ delegated' \in BOOLEAN
        /\ TS # NoOwner /\ NoOwner \notin Owner
    BY ServiceAssumption, BridgeAssumption DEF ServiceInv, ServiceTypeOK
  <1>3. ServiceTypeOK'
    BY <1>1, <1>2, LedgerTypes DEF ServiceTypeOK, bridgeVars, traffic, ledger
  <1>4. RegistryInv'
    BY RegistrySame DEF ServiceInv, ledger
  <1>5. ~delegated' => ~delegated /\ owner_holding' = TS
    BY <1>2 DEF HoldingInv
  <1>6. owner_holding' # NoOwner
    BY <1>2
  <1>7. HoldingInv'
    BY <1>2, <1>5, <1>6 DEF HoldingInv, HeldFundsBacked, HeldMap, ledger
  <1>8. block_height \in Nat
    BY DEF ServiceInv, BridgeInv, BridgeTypeOK
  <1>9. WindowInv'
    BY <1>8, WindowSame DEF bridgeVars, traffic
  <1> QED
    BY <1>1, <1>3, <1>4, <1>7, <1>9 DEF ServiceInv

LEMMA HoldingOwnershipSteps ==
    ASSUME ServiceInv, NEW o \in Owner \cup {TS},
           \/ initialize_holding(o)
           \/ \E from \in Owner : transfer_ownership_holding(from, o)
           \/ \E from \in Owner : holding_transfer_ownership(from, o)
    PROVE  ServiceInv'
  <1>1. TS # NoOwner /\ NoOwner \notin Owner
    BY ServiceAssumption, BridgeAssumption
  <1>2. CASE initialize_holding(o)
    BY <1>1, <1>2, OwnerOfHoldingStep DEF initialize_holding
  <1>3. ASSUME NEW from \in Owner \cup {TS}, transfer_ownership_holding(from, o)
        PROVE  ServiceInv'
    BY <1>1, <1>3, OwnerOfHoldingStep DEF transfer_ownership_holding
  <1> QED
    BY <1>2, <1>3 DEF holding_transfer_ownership

(* What hold_fund and release_fund do to the entries.                      *)
LEMMA HoldEffect ==
    ASSUME ServiceTypeOK, NEW u \in Account, NEW t \in Token, NEW n \in Nat,
           holdings' = [holdings EXCEPT ![u][t] = @ + n]
    PROVE  OneHolding(u, t) /\ holdings'[u][t] = holdings[u][t] + n
  <1>1. holdings \in [Account -> [Token -> Nat]]
    BY DEF ServiceTypeOK
  <1> QED
    BY <1>1 DEF OneHolding

LEMMA ReleaseEffect ==
    ASSUME ServiceTypeOK, NEW u \in Account, NEW t \in Token, NEW n \in Nat,
           holdings[u][t] >= n,
           holdings' = [holdings EXCEPT ![u][t] = @ - n]
    PROVE  OneHolding(u, t) /\ holdings'[u][t] = holdings[u][t] - n
  <1>1. holdings \in [Account -> [Token -> Nat]]
    BY DEF ServiceTypeOK
  <1> QED
    BY <1>1 DEF OneHolding

(* The values the steps compute with are natural numbers.                  *)
LEMMA MoneyIsNat ==
    ASSUME ServiceTypeOK
    PROVE  /\ \A t \in Token, a \in Account : balances[t][a] \in Nat /\ holdings[a][t] \in Nat
           /\ \A t \in Token : token_holding[t] \in Nat /\ Supply(t) \in Nat
           /\ block_height \in Nat
           /\ HOLDING_ADDRESS \in Account
           /\ Amounts \subseteq Nat
  BY ServiceAssumption DEF ServiceTypeOK, Supply, BridgeTypeOK

(* A wallet that owns the holding program records or pays funds itself.    *)
LEMMA DirectSteps ==
    ASSUME ServiceInv, NEW from \in Owner, NEW u \in Account, NEW t \in Token,
           NEW n \in Amounts, DirectHold(from, u, t, n) \/ DirectRelease(from, u, t, n)
    PROVE  ServiceInv'
  <1>0. ServiceTypeOK /\ HoldingInv /\ n \in Nat /\ NoOwner \notin Owner
    BY MoneyIsNat, BridgeAssumption DEF ServiceInv
  <1>1. /\ from # TS /\ from = owner_holding
        /\ UNCHANGED <<bridgeVars, config, total_supply, token_holding, window, held_by>>
    BY DEF DirectHold, DirectRelease, hold_fund, release_fund
  <1>2. delegated
    BY <1>0, <1>1 DEF HoldingInv
  <1>3. BridgeInv'
    BY <1>1, BridgeSame DEF ServiceInv
  <1>4. OneHolding(u, t)
    BY <1>0, HoldEffect, ReleaseEffect DEF DirectHold, DirectRelease, hold_fund, release_fund
  <1>5. RegistryInv' /\ balances' \in [Token -> [Account -> Nat]]
    <2>1. CASE DirectHold(from, u, t, n)
      <3>1. UNCHANGED <<total_supply, balances>>
        BY <2>1 DEF DirectHold
      <3> QED
        BY <3>1, <1>0, RegistrySame DEF ServiceInv, ServiceTypeOK
    <2>2. CASE DirectRelease(from, u, t, n)
      <3>1. balances[t][HOLDING_ADDRESS] >= n /\ Moved(t, HOLDING_ADDRESS, u, n)
        BY <2>2, <1>0, MoveEffect, MoneyIsNat DEF DirectRelease, release_fund
      <3>2. RegistryInv'
        BY <3>1, <1>0, <1>1, RegistryMoved, MoneyIsNat
      <3> QED
        BY <3>1, <3>2 DEF Moved
    <2> QED
      BY <2>1, <2>2
  <1>6. ServiceTypeOK'
    BY <1>0, <1>1, <1>3, <1>4, <1>5, LedgerTypes
       DEF ServiceTypeOK, OneHolding, bridgeVars, traffic, held_by
  <1>7. HoldingInv'
    BY <1>1, <1>2, <1>4, HoldingBypassed
  <1>8. WindowInv'
    BY <1>0, <1>1, MoneyIsNat, WindowSame DEF bridgeVars, traffic
  <1> QED
    BY <1>3, <1>5, <1>6, <1>7, <1>8 DEF ServiceInv

(* The service releases held funds to their user.                          *)
LEMMA ReleaseStep ==
    ASSUME ServiceInv, NEW from, NEW t \in Token, NEW u \in Account, NEW n \in Amounts,
           holding_release(from, t, u, n)
    PROVE  ServiceInv'
  <1>0. ServiceTypeOK /\ HoldingInv /\ n \in Nat
    BY MoneyIsNat DEF ServiceInv
  <1>1. UNCHANGED <<bridgeVars, config, total_supply, window, held_by>>
    BY DEF holding_release, release_fund
  <1>2. BridgeInv'
    BY <1>1, BridgeSame DEF ServiceInv
  <1>3. OneHolding(u, t) /\ holdings'[u][t] = holdings[u][t] - n /\ holdings[u][t] >= n
    BY <1>0, ReleaseEffect DEF holding_release, release_fund
  <1>4. balances[t][HOLDING_ADDRESS] >= n /\ Moved(t, HOLDING_ADDRESS, u, n)
    BY <1>0, MoveEffect, MoneyIsNat DEF holding_release, release_fund
  <1>5. /\ token_holding' \in [Token -> Nat]
        /\ token_holding[t] >= n /\ token_holding'[t] = token_holding[t] - n
        /\ \A x \in Token \ {t} : token_holding'[x] = token_holding[x]
    BY <1>0 DEF holding_release, ServiceTypeOK
  <1>6. ServiceTypeOK'
    BY <1>0, <1>1, <1>2, <1>3, <1>4, <1>5, LedgerTypes
       DEF ServiceTypeOK, OneHolding, Moved, bridgeVars, traffic, held_by
  <1>7. RegistryInv'
    BY <1>0, <1>1, <1>4, RegistryMoved, MoneyIsNat
  <1>8. HoldingInv'
    <2> DEFINE before == holdings[u][t]
               after == holdings'[u][t]
               counted == token_holding[t]
               counts == token_holding'[t]
               covered == balances[t][HOLDING_ADDRESS]
               covers == balances'[t][HOLDING_ADDRESS]
    <2>1. /\ before \in Nat /\ after \in Nat /\ counted \in Nat /\ counts \in Nat
          /\ covered \in Nat /\ covers \in Nat
      BY <1>0, <1>3, <1>4, <1>5, MoneyIsNat DEF OneHolding, Moved
    <2>2. after = before - n /\ counts = counted - n /\ covers >= covered - n
      BY <1>0, <1>3, <1>4, <1>5, MoneyIsNat DEF Moved
    <2>3. ~delegated => counted <= covered
      BY DEF ServiceInv, HoldingInv, HeldFundsBacked
    <2>4. \A x \in Token \ {t} : balances'[x][HOLDING_ADDRESS] = balances[x][HOLDING_ADDRESS]
      BY <1>4 DEF Moved
    <2>5. counts + before = counted + after /\ (~delegated => counts <= covers)
      <3> HIDE DEF before, after, counted, counts, covered, covers
      <3> QED
        BY <1>0, <2>1, <2>2, <2>3
    <2> QED
      BY <1>1, <1>3, <1>5, <2>1, <2>4, <2>5, HoldingChanged
  <1>9. WindowInv'
    BY <1>0, <1>1, MoneyIsNat, WindowSame DEF bridgeVars, traffic
  <1> QED
    BY <1>2, <1>6, <1>7, <1>8, <1>9 DEF ServiceInv

(* A holder of the token transfers it in the registry.                     *)
LEMMA TransferStep ==
    ASSUME ServiceInv, NEW t \in Token, NEW from \in Account, NEW to \in Account,
           NEW n \in Amounts, transfer_public(t, from, to, n)
    PROVE  ServiceInv'
  <1>0. ServiceTypeOK /\ n \in Nat
    BY MoneyIsNat DEF ServiceInv
  <1>1. /\ from # HOLDING_ADDRESS /\ balances[t][from] >= n
        /\ UNCHANGED <<bridgeVars, config, total_supply, token_holding, holdings, window, held_by>>
    BY DEF transfer_public
  <1>2. BridgeInv'
    BY <1>1, BridgeSame DEF ServiceInv
  <1>3. Moved(t, from, to, n)
    BY <1>0, <1>1, MoveEffect DEF transfer_public
  <1>4. ServiceTypeOK'
    BY <1>0, <1>1, <1>2, <1>3, LedgerTypes DEF ServiceTypeOK, Moved, bridgeVars, traffic, held_by
  <1>5. RegistryInv'
    BY <1>0, <1>1, <1>3, RegistryMoved
  <1>6. \A x \in Token : /\ balances[x][HOLDING_ADDRESS] \in Nat
                         /\ balances'[x][HOLDING_ADDRESS] \in Nat
                         /\ balances'[x][HOLDING_ADDRESS] >= balances[x][HOLDING_ADDRESS]
    BY <1>0, <1>1, <1>3, MoneyIsNat DEF Moved
  <1>7. HoldingInv'
    BY <1>1, <1>6, HoldingSame
  <1>8. WindowInv'
    BY <1>0, <1>1, MoneyIsNat, WindowSame DEF bridgeVars, traffic
  <1> QED
    BY <1>2, <1>4, <1>5, <1>7, <1>8 DEF ServiceInv

-----------------------------------------------------------------------------
(* token_receive *)

(* total_supply grows by what is received, from 0 if there was no entry.   *)
LEMMA SupplyGrows ==
    ASSUME ServiceTypeOK, NEW t \in Token, NEW n \in Nat,
           total_supply' = Put(total_supply, t, Supply(t) + n)
    PROVE  /\ DOMAIN total_supply' \subseteq Token
           /\ \A x \in DOMAIN total_supply' : total_supply'[x] \in Nat
           /\ Supply(t)' = Supply(t) + n
           /\ \A x \in Token \ {t} : Supply(x)' = Supply(x)
  <1>1. Supply(t) + n \in Nat
    BY MoneyIsNat
  <1>2. /\ DOMAIN total_supply' = DOMAIN total_supply \cup {t}
        /\ total_supply'[t] = Supply(t) + n
        /\ \A x \in DOMAIN total_supply : x # t => total_supply'[x] = total_supply[x]
    BY DEF Put
  <1>3. Supply(t)' = Supply(t) + n /\ \A x \in Token \ {t} : Supply(x)' = Supply(x)
    BY <1>2 DEF Supply
  <1> QED
    BY <1>1, <1>2, <1>3 DEF ServiceTypeOK

LEMMA ReceiveStep ==
    ASSUME ServiceInv, NEW p \in Packet, NEW signers \in [Slots -> Address], NEW signs,
           token_receive(p, signers, signs)
    PROVE  ServiceInv'
  <1> DEFINE t == p.token
             u == p.receiver
             n == p.amount
             held == HeldAmount(p, signers, signs)
             to == IF screening_passed(p, signers, signs) THEN u ELSE HOLDING_ADDRESS
  <1>0. ServiceTypeOK /\ HoldingInv /\ BridgeInv
    BY DEF ServiceInv
  <1>1. /\ t \in Token /\ u \in Account /\ n \in Nat
        /\ to \in Account /\ held \in Nat
        /\ held = 0 \/ (held = n /\ to = HOLDING_ADDRESS)
    BY <1>0, MoneyIsNat DEF Packet, HeldAmount
  <1>2. /\ consume(TS, p, signers, signs)
        /\ balances' = [balances EXCEPT ![t][to] = @ + n]
        /\ holdings' = [holdings EXCEPT ![u][t] = @ + held]
        /\ token_holding' = [token_holding EXCEPT ![t] = @ + held]
        /\ total_supply' = Put(total_supply, t, Supply(t) + n)
        /\ UNCHANGED <<config, window, held_by>>
    BY DEF token_receive, hold_fund
  <1>3. BridgeInv' /\ UNCHANGED <<out_packets, block_height>>
    <2>1. UNCHANGED <<out_packets, block_height>>
      BY <1>2 DEF consume
    <2> QED
      BY <2>1, <1>0, <1>2, ConsumeStepInv
  <1> HIDE DEF t, u, n, held, to
  <1>4. OneBalance(t, to) /\ balances'[t][to] = balances[t][to] + n
    BY <1>0, <1>1, <1>2, CreditEffect
  <1>5. OneHolding(u, t) /\ holdings'[u][t] = holdings[u][t] + held
    BY <1>0, <1>1, <1>2, HoldEffect
  <1>6. /\ token_holding' \in [Token -> Nat]
        /\ token_holding'[t] = token_holding[t] + held
        /\ \A x \in Token \ {t} : token_holding'[x] = token_holding[x]
    BY <1>0, <1>1, <1>2 DEF ServiceTypeOK
  <1>7. /\ DOMAIN total_supply' \subseteq Token
        /\ \A x \in DOMAIN total_supply' : total_supply'[x] \in Nat
        /\ Supply(t)' = Supply(t) + n
        /\ \A x \in Token \ {t} : Supply(x)' = Supply(x)
    BY <1>0, <1>1, <1>2, SupplyGrows
  <1>8. ServiceTypeOK'
    BY <1>0, <1>2, <1>3, <1>4, <1>5, <1>6, <1>7, LedgerTypes
       DEF ServiceTypeOK, OneBalance, OneHolding, held_by
  <1>9. RegistryInv'
    <2> DEFINE before == balances[t][to]
               after == balances'[t][to]
               S0 == Supply(t)
               S1 == Supply(t)'
    <2>1. before \in Nat /\ after \in Nat /\ S0 \in Nat /\ after = before + n /\ S1 = S0 + n
      BY <1>0, <1>1, <1>4, <1>7, MoneyIsNat DEF OneBalance
    <2>2. S1 \in Nat /\ S1 + before = S0 + after
      <3> HIDE DEF before, after, S0, S1
      <3> QED
        BY <1>1, <2>1
    <2> QED
      BY <1>1, <1>4, <1>7, <2>1, <2>2, RegistryChange
  <1>10. HoldingInv'
    <2> DEFINE before == holdings[u][t]
               after == holdings'[u][t]
               counted == token_holding[t]
               counts == token_holding'[t]
               covered == balances[t][HOLDING_ADDRESS]
               covers == balances'[t][HOLDING_ADDRESS]
    <2>1. /\ before \in Nat /\ after \in Nat /\ counted \in Nat /\ counts \in Nat
          /\ covered \in Nat /\ covers \in Nat
      BY <1>0, <1>1, <1>4, <1>5, <1>6, MoneyIsNat DEF OneHolding, OneBalance
    <2>2. after = before + held /\ counts = counted + held
      BY <1>5, <1>6
    <2>3. IF to = HOLDING_ADDRESS THEN covers = covered + n ELSE covers = covered
      BY <1>0, <1>1, <1>4, MoneyIsNat DEF OneBalance
    <2>4. ~delegated => counted <= covered
      BY <1>1 DEF ServiceInv, HoldingInv, HeldFundsBacked
    <2>5. \A x \in Token \ {t} : balances'[x][HOLDING_ADDRESS] = balances[x][HOLDING_ADDRESS]
      BY <1>0, <1>4, MoneyIsNat DEF OneBalance
    <2>6. counts + before = counted + after /\ (~delegated => counts <= covers)
      <3> HIDE DEF before, after, counted, counts, covered, covers
      <3> QED
        BY <1>1, <2>1, <2>2, <2>3, <2>4
    <2> QED
      BY <1>1, <1>2, <1>5, <1>6, <2>1, <2>5, <2>6, HoldingChanged
  <1>11. WindowInv'
    BY <1>0, <1>2, <1>3, MoneyIsNat, WindowSame
  <1> QED
    BY <1>3, <1>8, <1>9, <1>10, <1>11 DEF ServiceInv

-----------------------------------------------------------------------------
(* token_send *)

(* One packet, that took token t, joins those sent so far.                 *)
Joins(sent, packets, sent1, packets1, id, t) ==
    /\ DOMAIN sent \subseteq DOMAIN packets /\ id \notin DOMAIN packets
    /\ \A i \in DOMAIN packets : packets1[i] = packets[i]
    /\ DOMAIN sent1 = DOMAIN sent \cup {id}
    /\ sent1[id] = t
    /\ \A i \in DOMAIN sent : sent1[i] = sent[i]

LEMMA SentOther ==
    ASSUME NEW sent, NEW packets, NEW sent1, NEW packets1, NEW id, NEW t,
           Joins(sent, packets, sent1, packets1, id, t),
           NEW x, x # t, NEW h
    PROVE  SentIn(sent1, packets1, x, h) = SentIn(sent, packets, x, h)
  <1> DEFINE D == {i \in DOMAIN sent : sent[i] = x /\ packets[i].height >= h}
             D1 == {i \in DOMAIN sent1 : sent1[i] = x /\ packets1[i].height >= h}
  <1>1. D1 = D /\ \A i \in D : packets1[i] = packets[i]
    BY DEF Joins
  <1> QED
    BY <1>1 DEF SentIn

LEMMA SentMore ==
    ASSUME NEW sent, NEW packets, NEW sent1, NEW packets1, NEW id, NEW t,
           Joins(sent, packets, sent1, packets1, id, t),
           NEW h, packets1[id].height >= h,
           \A i \in DOMAIN packets : packets[i].amount \in Nat,
           packets1[id].amount \in Nat,
           IsFiniteSet(UnitsOf(SentIn(sent, packets, t, h)))
    PROVE  /\ IsFiniteSet(UnitsOf(SentIn(sent1, packets1, t, h)))
           /\ SumOf(SentIn(sent, packets, t, h)) \in Nat
           /\ SumOf(SentIn(sent1, packets1, t, h))
                = SumOf(SentIn(sent, packets, t, h)) + packets1[id].amount
  <1> DEFINE D == {i \in DOMAIN sent : sent[i] = t /\ packets[i].height >= h}
             D1 == {i \in DOMAIN sent1 : sent1[i] = t /\ packets1[i].height >= h}
  <1>1. D1 = D \cup {id} /\ id \notin D
    BY DEF Joins
  <1>2. /\ SentIn(sent, packets, t, h) \in [D -> Nat]
        /\ SentIn(sent1, packets1, t, h) \in [D1 -> Nat]
        /\ \A i \in D : SentIn(sent1, packets1, t, h)[i] = SentIn(sent, packets, t, h)[i]
        /\ SentIn(sent1, packets1, t, h)[id] = packets1[id].amount
    BY <1>1 DEF SentIn, Joins
  <1> HIDE DEF D, D1
  <1>3. PICK f \in [D -> Nat], g \in [D1 -> Nat] :
          f = SentIn(sent, packets, t, h) /\ g = SentIn(sent1, packets1, t, h)
    BY <1>2
  <1>4. (\A i \in D : g[i] = f[i]) /\ IsFiniteSet(UnitsOf(f)) /\ g[id] = packets1[id].amount
    BY <1>2, <1>3
  <1>5. /\ IsFiniteSet(UnitsOf(g)) /\ SumOf(f) \in Nat
        /\ SumOf(g) = SumOf(f) + g[id]
    BY <1>1, <1>4, SumExtend
  <1> QED
    BY <1>3, <1>4, <1>5

(* What token_send does to the window of its token; id and h are those of  *)
(* the packet it publishes.                                                *)
LEMMA SnapshotAfterSend ==
    ASSUME ServiceInv, NEW t \in Token, NEW n \in Nat, NEW id,
           Joins(sent_token, out_packets, sent_token', out_packets', id, t),
           out_packets'[id].amount = n, out_packets'[id].height = block_height,
           NEW limit \in Limits, Limits = {limit}, token_info[t].limit = limit,
           SnapshotExpired(t) => total_supply[t] >= token_holding[t],
           ~SnapshotExpired(t) => t \in DOMAIN token_snapshot,
           WithinLimit(limit, NextSnapshot(t, n)),
           t \in DOMAIN token_snapshot', token_snapshot'[t] = NextSnapshot(t, n),
           block_height' = block_height
    PROVE  SnapshotSound(t, limit)'
  <1> DEFINE s1 == token_snapshot'[t]
             old(h) == SentIn(sent_token, out_packets, t, h)
             new(h) == SentIn(sent_token', out_packets', t, h)
             bh == block_height
             dur == limit.duration
  <1>0. /\ ServiceTypeOK /\ WindowInv /\ bh \in Nat
        /\ limit \in Limits /\ dur \in Nat
        /\ \A i \in DOMAIN out_packets : out_packets[i].amount \in Nat /\ out_packets[i].height \in Nat
        /\ \A i \in DOMAIN sent_token : i \in DOMAIN out_packets
    BY ServiceAssumption DEF ServiceInv, ServiceTypeOK, BridgeTypeOK, Packet
  <1>1. /\ DOMAIN sent_token' = DOMAIN sent_token \cup {id}
        /\ \A i \in DOMAIN sent_token : /\ sent_token'[i] = sent_token[i]
                                        /\ out_packets'[i] = out_packets[i]
    BY <1>0 DEF Joins
  <1>2. t \in DOMAIN token_snapshot => SnapshotSound(t, limit)
    BY <1>0 DEF WindowInv
  <1>3. WithinLimit(limit, s1)
    OBVIOUS
  <1>4. CASE SnapshotExpired(t)
    <2>1. s1.height = bh /\ s1.withdrawn = n
      BY <1>4 DEF NextSnapshot
    <2>2. \A i \in DOMAIN sent_token : sent_token[i] = t => ~(out_packets[i].height >= bh)
      <3> SUFFICES ASSUME NEW i \in DOMAIN sent_token, sent_token[i] = t
                   PROVE  ~(out_packets[i].height >= bh)
        OBVIOUS
      <3> DEFINE s0 == token_snapshot[t]
      <3>1. t \in DOMAIN token_snapshot
        BY <1>0 DEF WindowInv
      <3>2. out_packets[i].height <= s0.height + dur
        BY <1>2, <3>1 DEF SnapshotSound
      <3>3. bh - s0.height > dur
        BY <1>4, <3>1 DEF SnapshotExpired
      <3>4. s0.height \in Nat /\ out_packets[i].height \in Nat
        BY <1>0, <3>1 DEF ServiceTypeOK
      <3> HIDE DEF s0, bh, dur
      <3> QED
        BY <1>0, <3>2, <3>3, <3>4
    <2>3. DOMAIN old(bh) = {}
      BY <2>2 DEF SentIn
    <2>4. IsFiniteSet(UnitsOf(old(bh))) /\ SumOf(old(bh)) = 0
      BY <2>3, SumZero
    <2>5. IsFiniteSet(UnitsOf(new(bh))) /\ SumOf(new(bh)) = 0 + n
      <3>1. bh >= bh /\ n \in Nat
        BY <1>0
      <3> HIDE DEF bh
      <3>2. out_packets'[id].height >= bh
        BY <3>1 DEF bh
      <3>3. \A i \in DOMAIN out_packets : out_packets[i].amount \in Nat
        BY <1>0
      <3> QED
        BY <2>4, <3>1, <3>2, <3>3, SentMore
    <2>6. \A i \in DOMAIN sent_token' :
             sent_token'[i] = t => out_packets'[i].height <= s1.height + dur
      <3>1. \A i \in DOMAIN sent_token : out_packets[i].height <= bh
        BY <1>0 DEF WindowInv
      <3> HIDE DEF dur, s1
      <3> QED
        BY <1>0, <1>1, <2>1, <3>1
    <2>7. s1.height <= bh /\ SumOf(new(s1.height)) <= s1.withdrawn
          /\ IsFiniteSet(UnitsOf(new(s1.height)))
      BY <1>0, <2>1, <2>5
    <2> QED
      BY <1>3, <2>6, <2>7 DEF SnapshotSound, SentSince, SentMap, SentIn, WithinLimit
  <1>5. CASE ~SnapshotExpired(t)
    <2> DEFINE s0 == token_snapshot[t]
               k == s0.height
               wd == s0.withdrawn
    <2>1. /\ t \in DOMAIN token_snapshot /\ s0 \in [supply : Nat, height : Nat, withdrawn : Nat]
          /\ k \in Nat /\ wd \in Nat
      BY <1>0, <1>5 DEF ServiceTypeOK
    <2>2. s1.height = k /\ s1.withdrawn = wd + n
      BY <1>5, <2>1 DEF NextSnapshot
    <2>3. /\ k <= bh /\ IsFiniteSet(UnitsOf(old(k))) /\ SumOf(old(k)) <= wd
          /\ \A i \in DOMAIN sent_token : sent_token[i] = t => out_packets[i].height <= k + dur
      BY <1>2, <2>1 DEF SnapshotSound, SentSince, SentMap, SentIn
    <2>4. bh - k <= dur
      <3>1. ~(bh - k > dur)
        BY <1>5, <2>1 DEF SnapshotExpired
      <3> HIDE DEF bh, k, dur
      <3> QED
        BY <1>0, <2>1, <3>1
    <2>5. /\ IsFiniteSet(UnitsOf(new(k))) /\ SumOf(old(k)) \in Nat
          /\ SumOf(new(k)) = SumOf(old(k)) + n
      <3>1. out_packets'[id].height >= k /\ out_packets'[id].amount \in Nat
        BY <1>0, <2>1, <2>3
      <3>2. \A i \in DOMAIN out_packets : out_packets[i].amount \in Nat
        BY <1>0
      <3> HIDE DEF k
      <3> QED
        BY <2>3, <3>1, <3>2, SentMore
    <2>6. \A i \in DOMAIN sent_token' :
             sent_token'[i] = t => out_packets'[i].height <= k + dur
      <3> HIDE DEF dur, k
      <3>1. bh <= k + dur
        BY <1>0, <2>1, <2>4
      <3> QED
        BY <1>1, <2>3, <3>1
    <2>7. SumOf(new(k)) <= wd + n
      <3> HIDE DEF old, new, wd
      <3> QED
        BY <2>1, <2>3, <2>5
    <2>8. /\ s1.height <= bh /\ SumOf(new(s1.height)) <= s1.withdrawn
          /\ IsFiniteSet(UnitsOf(new(s1.height)))
          /\ \A i \in DOMAIN sent_token' :
               sent_token'[i] = t => out_packets'[i].height <= s1.height + dur
      BY <2>2, <2>3, <2>5, <2>6, <2>7
    <2> QED
      BY <1>3, <2>8 DEF SnapshotSound, SentSince, SentMap, SentIn, WithinLimit
  <1> QED
    BY <1>4, <1>5

(* publish, as token_send uses it: the packet it adds and what it keeps.   *)
LEMMA PublishedBySend ==
    ASSUME ServiceInv, NEW u \in Account, NEW t \in Token, NEW v \in Account, NEW n \in Nat,
           NEW c \in Chain, NEW s \in Service, NEW a \in Token,
           token_send(u, t, v, n, c, s, a),
           NEW id, id = <<c, sequences[c]>>
    PROVE  /\ BridgeInv'
           /\ Joins(sent_token, out_packets, sent_token', out_packets', id, t)
           /\ DOMAIN out_packets' = DOMAIN out_packets \cup {id}
           /\ out_packets'[id].amount = n /\ out_packets'[id].height = block_height
           /\ block_height' = block_height
  <1>1. publish(TS, c, s, a, u, v, n) /\ sent_token' = Put(sent_token, id, t)
    BY DEF token_send
  <1>2. /\ BridgeInv'
        /\ \A i \in DOMAIN out_packets :
              i \in DOMAIN out_packets' /\ out_packets'[i] = out_packets[i]
    BY <1>1, ServiceAssumption, PublishStepInv DEF ServiceInv
  <1>3. id \notin DOMAIN out_packets
    BY DEF ServiceInv, ServiceTypeOK, BridgeTypeOK, BridgeInv, PublishedBelowCounter
  <1>4. /\ DOMAIN out_packets' = DOMAIN out_packets \cup {id}
        /\ out_packets'[id] = OutPacket(TS, c, s, a, u, v, n)
        /\ block_height' = block_height
    BY <1>1 DEF publish
  <1>5. /\ DOMAIN sent_token' = DOMAIN sent_token \cup {id}
        /\ sent_token'[id] = t
        /\ \A i \in DOMAIN sent_token : i # id => sent_token'[i] = sent_token[i]
    BY <1>1 DEF Put
  <1>6. DOMAIN sent_token \subseteq DOMAIN out_packets
    BY DEF ServiceInv, ServiceTypeOK
  <1>7. Joins(sent_token, out_packets, sent_token', out_packets', id, t)
    BY <1>2, <1>3, <1>5, <1>6 DEF Joins
  <1> QED
    BY <1>2, <1>4, <1>7 DEF OutPacket

LEMMA SnapshotType ==
    ASSUME ServiceInv, NEW t \in DOMAIN total_supply, NEW n \in Nat,
           SnapshotExpired(t) => total_supply[t] >= token_holding[t],
           ~SnapshotExpired(t) => t \in DOMAIN token_snapshot
    PROVE  NextSnapshot(t, n) \in [supply : Nat, height : Nat, withdrawn : Nat]
  <1>1. /\ total_supply[t] \in Nat /\ token_holding[t] \in Nat /\ block_height \in Nat
    BY DEF ServiceInv, ServiceTypeOK, BridgeTypeOK
  <1>2. CASE SnapshotExpired(t)
    <2>1. total_supply[t] - token_holding[t] \in Nat
      BY <1>1, <1>2
    <2> QED
      BY <1>1, <1>2, <2>1 DEF NextSnapshot
  <1>3. CASE ~SnapshotExpired(t)
    <2>1. token_snapshot[t] \in [supply : Nat, height : Nat, withdrawn : Nat]
      BY <1>3 DEF ServiceInv, ServiceTypeOK
    <2> QED
      BY <1>3, <2>1 DEF NextSnapshot
  <1> QED
    BY <1>2, <1>3

LEMMA SendStep ==
    ASSUME ServiceInv, NEW u \in Account \ {HOLDING_ADDRESS}, NEW t \in Token, NEW v \in Account,
           NEW n \in Amounts, NEW c \in Chain, NEW s \in Service, NEW a \in Token,
           token_send(u, t, v, n, c, s, a)
    PROVE  ServiceInv'
  <1> DEFINE id == <<c, sequences[c]>>
             s1 == NextSnapshot(t, n)
  <1>0. ServiceTypeOK /\ n \in Nat /\ t \in DOMAIN total_supply
    BY MoneyIsNat DEF ServiceInv, token_send
  <1>1. /\ BridgeInv'
        /\ Joins(sent_token, out_packets, sent_token', out_packets', id, t)
        /\ DOMAIN out_packets' = DOMAIN out_packets \cup {id}
        /\ out_packets'[id].amount = n /\ out_packets'[id].height = block_height
        /\ block_height' = block_height
    BY <1>0, PublishedBySend
  <1>2. /\ token_snapshot' = Put(token_snapshot, t, s1)
        /\ total_supply' = [total_supply EXCEPT ![t] = @ - n]
        /\ balances' = [balances EXCEPT ![t][u] = @ - n]
        /\ total_supply[t] >= n /\ balances[t][u] >= n
        /\ t \in DOMAIN token_info
        /\ SnapshotExpired(t) => total_supply[t] >= token_holding[t]
        /\ ~SnapshotExpired(t) => t \in DOMAIN token_snapshot
        /\ WithinLimit(token_info[t].limit, s1)
        /\ UNCHANGED <<config, token_holding, holdings, held_by>>
    BY DEF token_send
  <1>3. s1 \in [supply : Nat, height : Nat, withdrawn : Nat]
    BY <1>0, <1>2, SnapshotType
  <1> HIDE DEF id, s1
  <1>4. /\ DOMAIN token_snapshot' = DOMAIN token_snapshot \cup {t}
        /\ token_snapshot'[t] = s1
        /\ \A x \in DOMAIN token_snapshot : x # t => token_snapshot'[x] = token_snapshot[x]
    BY <1>2 DEF Put
  <1>5. /\ DOMAIN sent_token' = DOMAIN sent_token \cup {id} /\ sent_token'[id] = t
        /\ \A i \in DOMAIN sent_token : /\ sent_token'[i] = sent_token[i]
                                        /\ out_packets'[i] = out_packets[i]
    BY <1>1 DEF Joins
  <1>6. OneBalance(t, u) /\ balances'[t][u] = balances[t][u] - n
    BY <1>0, <1>2, DebitEffect
  <1>7. /\ DOMAIN total_supply' = DOMAIN total_supply
        /\ total_supply'[t] = total_supply[t] - n
        /\ \A x \in DOMAIN total_supply : x # t => total_supply'[x] = total_supply[x]
        /\ total_supply[t] \in Nat /\ total_supply'[t] \in Nat
    BY <1>0, <1>2 DEF ServiceTypeOK
  <1>8. ServiceTypeOK'
    <2>1. /\ BridgeTypeOK' /\ token_holding' \in [Token -> Nat]
          /\ holdings' \in [Account -> [Token -> Nat]]
          /\ balances' \in [Token -> [Account -> Nat]]
          /\ owner_holding' \in Owner \cup {TS, NoOwner} /\ delegated' \in BOOLEAN
      BY <1>0, <1>1, <1>2, <1>6 DEF ServiceTypeOK, OneBalance, BridgeInv, held_by
    <2>2. /\ DOMAIN total_supply' \subseteq Token
          /\ \A x \in DOMAIN total_supply' : total_supply'[x] \in Nat
          /\ DOMAIN token_snapshot' \subseteq Token
          /\ \A x \in DOMAIN token_snapshot' :
                token_snapshot'[x] \in [supply : Nat, height : Nat, withdrawn : Nat]
      BY <1>0, <1>3, <1>4, <1>7 DEF ServiceTypeOK
    <2>3. /\ DOMAIN sent_token' \subseteq DOMAIN out_packets'
          /\ \A i \in DOMAIN sent_token' : sent_token'[i] \in Token
      BY <1>0, <1>1, <1>5 DEF ServiceTypeOK
    <2>4. UNCHANGED <<owner_TS, token_info, other_chain>>
      BY <1>2 DEF config
    <2> QED
      BY <1>0, <2>1, <2>2, <2>3, <2>4 DEF ServiceTypeOK
  <1>9. RegistryInv'
    <2> DEFINE before == balances[t][u]
               after == balances'[t][u]
               S0 == Supply(t)
               S1 == Supply(t)'
    <2>1. /\ before \in Nat /\ after \in Nat /\ after = before - n
          /\ S0 = total_supply[t] /\ S1 = total_supply'[t]
      BY <1>0, <1>6, <1>7, MoneyIsNat DEF OneBalance, Supply
    <2>2. \A x \in Token \ {t} : Supply(x)' = Supply(x)
      BY <1>7 DEF Supply
    <2>3. S0 \in Nat /\ S1 \in Nat /\ S1 + before = S0 + after
      <3> HIDE DEF before, after, S0, S1
      <3> QED
        BY <1>0, <1>7, <2>1
    <2> QED
      BY <1>6, <2>1, <2>2, <2>3, RegistryChange
  <1>10. HoldingInv'
    <2>1. \A x \in Token : /\ balances[x][HOLDING_ADDRESS] \in Nat
                           /\ balances'[x][HOLDING_ADDRESS] = balances[x][HOLDING_ADDRESS]
      BY <1>0, <1>6, MoneyIsNat DEF OneBalance
    <2> QED
      BY <1>2, <2>1, HoldingSame
  <1>11. WindowInv'
    <2>1. WindowInv /\ block_height \in Nat
      BY <1>0, MoneyIsNat DEF ServiceInv
    <2>2. \A i \in DOMAIN sent_token' :
             /\ sent_token'[i] \in DOMAIN token_snapshot'
             /\ out_packets'[i].height <= block_height'
      BY <1>1, <1>4, <1>5, <2>1 DEF WindowInv
    <2>3. ASSUME NEW limit \in Limits, Limits = {limit}, NEW x \in DOMAIN token_snapshot'
          PROVE  SnapshotSound(x, limit)'
      <3>1. token_info[t].limit = limit
        BY <1>0, <1>2, <2>3 DEF ServiceTypeOK
      <3>2. CASE x = t
        <4>1. t \in DOMAIN token_snapshot' /\ token_snapshot'[t] = NextSnapshot(t, n)
          BY <1>4 DEF s1
        <4>2. WithinLimit(limit, NextSnapshot(t, n))
          BY <1>2, <3>1 DEF s1
        <4> QED
          BY <1>0, <1>1, <1>2, <2>3, <3>1, <3>2, <4>1, <4>2, SnapshotAfterSend
      <3>3. CASE x # t
        <4> DEFINE h == token_snapshot[x].height
        <4>1. x \in DOMAIN token_snapshot /\ token_snapshot'[x] = token_snapshot[x]
          BY <1>4, <2>3, <3>3
        <4>2. SnapshotSound(x, limit)
          BY <2>1, <2>3, <4>1 DEF WindowInv
        <4>3. SentIn(sent_token', out_packets', x, h) = SentIn(sent_token, out_packets, x, h)
          BY <1>1, <3>3, SentOther
        <4>4. \A i \in DOMAIN sent_token' :
                 sent_token'[i] = x => out_packets'[i].height <= h + limit.duration
          BY <1>5, <3>3, <4>2 DEF SnapshotSound
        <4> QED
          BY <1>1, <4>1, <4>2, <4>3, <4>4
             DEF SnapshotSound, SentSince, SentMap, SentIn, WithinLimit
      <3> QED
        BY <3>2, <3>3
    <2> QED
      BY <2>2, <2>3 DEF WindowInv
  <1> QED
    BY <1>1, <1>8, <1>9, <1>10, <1>11 DEF ServiceInv

-----------------------------------------------------------------------------
(* The block height advances, or nothing happens.                          *)
LEMMA BlockStep ==
    ASSUME ServiceInv, UNCHANGED <<settings, traffic, serviceVars>>,
           block_height' = block_height \/ block_height' = block_height + 1
    PROVE  ServiceInv'
  <1>0. ServiceTypeOK /\ block_height \in Nat
    BY MoneyIsNat DEF ServiceInv
  <1>1. block_height' \in Nat /\ block_height' >= block_height
    BY <1>0
  <1>2. BridgeInv'
    BY <1>1 DEF ServiceInv, BridgeInv, BridgeTypeOK, AttestorSetSound, ConsumedOnce,
                PublishedBelowCounter, OutSequencesContiguous, settings, traffic
  <1>3. ServiceTypeOK'
    BY <1>0, <1>2 DEF ServiceTypeOK, BridgeInv, serviceVars, config, ledger, window, held_by, traffic
  <1>4. RegistryInv'
    BY RegistrySame DEF ServiceInv, serviceVars, ledger
  <1>5. HoldingInv'
    BY <1>0, MoneyIsNat, HoldingSame DEF serviceVars, ledger
  <1>6. WindowInv'
    BY <1>1, WindowSame DEF serviceVars, traffic
  <1> QED
    BY <1>2, <1>3, <1>4, <1>5, <1>6 DEF ServiceInv

LEMMA ServiceInvInit == Init => ServiceInv
  <1> SUFFICES ASSUME Init PROVE ServiceInv
    OBVIOUS
  <1> DEFINE others == Cardinality(Address \ {ZERO_ADDRESS})
  <1>0. DOMAIN out_packets = {} /\ DOMAIN token_info = {} /\ DOMAIN other_chain = {}
        /\ DOMAIN total_supply = {} /\ DOMAIN token_snapshot = {} /\ DOMAIN sent_token = {}
    BY DEF Init, BridgeReady
  <1>1. BridgeInv
    <2>1. others \in Nat /\ others <= U8_MAX /\ InitialThreshold \in 1 .. others /\ U8_MAX \in Nat
      <3>1. IsFiniteSet(Address \ {ZERO_ADDRESS})
        BY BridgeAssumption, FS_Subset
      <3> QED
        BY <3>1, FS_CardinalityType, ServiceAssumption, BridgeAssumption
    <2>2. threshold = InitialThreshold /\ total_attestors = others
      BY DEF Init, BridgeReady
    <2>3. threshold \in u8 /\ total_attestors \in u8 /\ threshold \in 1 .. total_attestors
      <3> HIDE DEF others
      <3> QED
        BY <2>1, <2>2 DEF u8
    <2>4. BridgeTypeOK
      <3>1. /\ owner_TB \in Owner /\ unpaused = TRUE /\ attestors = Address
            /\ supported_chains \subseteq Chain /\ supported_services = {TS}
            /\ sequences \in [Chain -> Nat \ {0}]
            /\ in_packet_consumed = {} /\ received = {} /\ block_height = 1
        BY DEF Init, BridgeReady
      <3> QED
        BY <1>0, <2>3, <3>1, ServiceAssumption DEF BridgeTypeOK
    <2>5. AttestorSetSound
      BY <2>2, <2>3, BridgeAssumption DEF Init, BridgeReady, AttestorSetSound
    <2>6. ConsumedOnce /\ PublishedBelowCounter /\ OutSequencesContiguous
      BY <1>0 DEF Init, BridgeReady, ConsumedOnce, PublishedBelowCounter, OutSequencesContiguous
    <2> QED
      BY <2>4, <2>5, <2>6 DEF BridgeInv
  <1>2. ServiceTypeOK
    <2>1. BridgeTypeOK
      BY <1>1 DEF BridgeInv
    <2> QED
      BY <1>0, <2>1 DEF Init, ServiceTypeOK
  <1>3. RegistryInv
    <2>1. ASSUME NEW t \in Token
          PROVE  IsFiniteSet(UnitsOf(balances[t])) /\ SumOf(balances[t]) = 0 /\ Supply(t) = 0
      <3>1. \A a \in DOMAIN balances[t] : balances[t][a] = 0
        BY DEF Init
      <3> QED
        BY <1>0, <3>1, SumZero DEF Supply
    <2> QED
      BY <2>1 DEF RegistryInv, SupplyMatchesRegistry
  <1>4. HoldingInv
    <2>1. ASSUME NEW t \in Token
          PROVE  IsFiniteSet(UnitsOf(HeldMap(t))) /\ SumOf(HeldMap(t)) = 0
      <3>1. \A a \in DOMAIN HeldMap(t) : HeldMap(t)[a] = 0
        BY DEF Init, HeldMap
      <3> QED
        BY <3>1, SumZero
    <2>2. HeldFundsBacked
      BY <2>1, ServiceAssumption DEF Init, HeldFundsBacked, HeldMap
    <2> QED
      BY <2>1, <2>2 DEF HoldingInv, Init
  <1>5. WindowInv
    BY <1>0 DEF WindowInv
  <1> QED
    BY <1>1, <1>2, <1>3, <1>4, <1>5 DEF ServiceInv

LEMMA AdministerStep ==
    ASSUME ServiceInv, NEW from \in Owner, Administer(from)
    PROVE  ServiceInv'
  <1>1. ASSUME NEW o \in Owner, transfer_ownership_ts(from, o)
        PROVE  ServiceInv'
    BY <1>1, OwnershipStep
  <1>2. ASSUME NEW t \in Token, NEW c \in Chain \ {ALEO_CHAIN_ID}, NEW s \in Service, NEW a \in Token,
               \/ update_other_chain_tokenservice(from, c, t, s)
               \/ update_other_chain_tokenaddress(from, c, t, a)
               \/ remove_other_chain_addresses(from, c, t)
               \/ add_chain_to_existing_token(from, c, t, s, a)
        PROVE  ServiceInv'
    BY <1>2, OtherChainSteps
  <1>3. ASSUME NEW t \in Token, NEW c \in Chain \ {ALEO_CHAIN_ID}, NEW s \in Service, NEW a \in Token,
               NEW min \in Amounts, NEW max \in Amounts, NEW l \in Limits,
               add_token_ts(from, t, min, max, l, c, s, a)
        PROVE  ServiceInv'
    BY <1>3, AddTokenStep
  <1>4. ASSUME NEW t \in Token,
               \/ remove_token_ts(from, t)
               \/ pause_token_ts(from, t)
               \/ unpause_token_ts(from, t)
               \/ \E n \in Amounts : update_min_transfer_ts(from, t, n)
               \/ \E n \in Amounts : update_max_transfer_ts(from, t, n)
               \/ \E l \in Limits : update_withdrawal_limit(from, t, l)
        PROVE  ServiceInv'
    BY <1>4, TokenInfoSteps
  <1>5. ASSUME NEW t \in Token, NEW u \in Account, NEW n \in Amounts, holding_release(from, t, u, n)
        PROVE  ServiceInv'
    BY <1>5, ReleaseStep
  <1>6. ASSUME NEW o \in Owner \cup {TS}, holding_transfer_ownership(from, o)
        PROVE  ServiceInv'
    BY <1>6, HoldingOwnershipSteps
  <1> QED
    BY <1>1, <1>2, <1>3, <1>4, <1>5, <1>6 DEF Administer

LEMMA ServiceInvStep ==
    ASSUME ServiceInv, [Next]_vars
    PROVE  ServiceInv'
  <1>1. ASSUME NEW o \in Owner, initialize_ts(o)
        PROVE  ServiceInv'
    BY <1>1, OwnershipStep
  <1>2. ASSUME NEW o \in Owner \cup {TS}, initialize_holding(o)
        PROVE  ServiceInv'
    BY <1>2, HoldingOwnershipSteps
  <1>3. ASSUME NEW from \in Owner, Administer(from)
        PROVE  ServiceInv'
    BY <1>3, AdministerStep
  <1>4. ASSUME NEW from \in Owner, HoldingOwnerStep(from)
        PROVE  ServiceInv'
    <2>1. ASSUME NEW o \in Owner \cup {TS}, transfer_ownership_holding(from, o)
          PROVE  ServiceInv'
      BY <2>1, HoldingOwnershipSteps
    <2>2. ASSUME NEW u \in Account, NEW t \in Token, NEW n \in Amounts,
                 DirectHold(from, u, t, n) \/ DirectRelease(from, u, t, n)
          PROVE  ServiceInv'
      BY <2>2, DirectSteps
    <2> QED
      BY <1>4, <2>1, <2>2 DEF HoldingOwnerStep
  <1>5. CASE Receive
    <2>1. PICK p \in InPackets, signers \in [Slots -> Address], vs \in [Slots -> Verdict] :
            token_receive(p, signers, [i \in Slots |-> Sign(signers[i], p, vs[i])])
      BY <1>5 DEF Receive
    <2>2. p \in Packet
      BY BridgeAssumption
    <2> QED
      BY <2>1, <2>2, ReceiveStep
  <1>6. CASE Send
    BY <1>6, SendStep DEF Send
  <1>7. ASSUME NEW t \in Token, NEW u \in Account, NEW v \in Account, NEW n \in Amounts,
               transfer_public(t, u, v, n)
        PROVE  ServiceInv'
    BY <1>7, TransferStep
  <1>8. CASE NewBlock /\ UNCHANGED serviceVars
    BY <1>8, BlockStep DEF NewBlock
  <1>9. CASE UNCHANGED vars
    BY <1>9, BlockStep DEF vars, bridgeVars
  <1> QED
    BY <1>1, <1>2, <1>3, <1>4, <1>5, <1>6, <1>7, <1>8, <1>9 DEF Next

(* The mappings of the service, the holding program and the registry keep  *)
(* their types: no subtraction of a transaction underflows.                *)
THEOREM ServiceTypeCorrect == Spec => []ServiceTypeOK
  <1>1. ServiceInv => ServiceTypeOK
    BY DEF ServiceInv
  <1>2. ServiceInv /\ [Next]_vars => ServiceInv'
    BY ServiceInvStep
  <1> QED
    BY <1>1, <1>2, ServiceInvInit, PTL DEF Spec

(* total_supply is what exists in the registry, through every send,        *)
(* receive, release and transfer.                                          *)
THEOREM SupplyAlwaysRegistered == Spec => []SupplyMatchesRegistry
  <1>1. ServiceInv => SupplyMatchesRegistry
    BY DEF ServiceInv, RegistryInv
  <1>2. ServiceInv /\ [Next]_vars => ServiceInv'
    BY ServiceInvStep
  <1> QED
    BY <1>1, <1>2, ServiceInvInit, PTL DEF Spec

(* As long as only the service owns the holding program, its counter, the  *)
(* entries of the holding program and its account agree.                   *)
THEOREM HeldFundsAlwaysBacked == Spec => []HeldFundsBacked
  <1>1. ServiceInv => HeldFundsBacked
    BY DEF ServiceInv, HoldingInv
  <1>2. ServiceInv /\ [Next]_vars => ServiceInv'
    BY ServiceInvStep
  <1> QED
    BY <1>1, <1>2, ServiceInvInit, PTL DEF Spec

(* What token_send published in a window stays within the withdrawal       *)
(* limit.                                                                  *)
THEOREM WindowLimitAlwaysHolds == Spec => []WindowLimitHolds
  <1>1. ServiceInv => WindowLimitHolds
    <2> SUFFICES ASSUME ServiceInv, NEW t \in DOMAIN token_snapshot, NEW limit \in Limits,
                        Limits = {limit}, token_snapshot[t].supply >= limit.threshold_no_limit
                 PROVE  SentSince(t, token_snapshot[t].height)
                          <= get_x_percent_of_y(limit.percentage, token_snapshot[t].supply)
      BY DEF WindowLimitHolds
    <2> DEFINE sum == SentSince(t, token_snapshot[t].height)
               wd == token_snapshot[t].withdrawn
               bound == get_x_percent_of_y(limit.percentage, token_snapshot[t].supply)
    <2>1. SnapshotSound(t, limit)
      BY DEF ServiceInv, WindowInv
    <2>2. sum <= wd /\ wd <= bound
      BY <2>1 DEF SnapshotSound, WithinLimit
    <2>3. sum \in Nat
      BY <2>1, FS_CardinalityType DEF SnapshotSound, SentMap, SentIn, SentSince, SumOf
    <2>4. wd \in Nat
      BY DEF ServiceInv, ServiceTypeOK
    <2>5. bound \in Int
      <3>1. /\ limit.percentage \in Nat /\ token_snapshot[t].supply \in Nat
            /\ HUNDRED_PERCENTAGE \in Nat \ {0}
        BY ServiceAssumption DEF ServiceInv, ServiceTypeOK
      <3> QED
        BY <3>1 DEF get_x_percent_of_y
    <2>6. sum <= bound
      <3> HIDE DEF sum, wd, bound
      <3> QED
        BY <2>2, <2>3, <2>4, <2>5
    <2> QED
      BY <2>6
  <1>2. ServiceInv /\ [Next]_vars => ServiceInv'
    BY ServiceInvStep
  <1> QED
    BY <1>1, <1>2, ServiceInvInit, PTL DEF Spec
=============================================================================
