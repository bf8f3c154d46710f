-------------------------- MODULE AleoTokenBridge --------------------------
(***************************************************************************)
(* The Aleo bridge program, aleo/programs/vlink_token_bridge_v1.leo.       *)
(*                                                                         *)
(* Each mapping of the program is a variable: bridge_settings is split     *)
(* into threshold, total_attestors and unpaused.  Each transition with its *)
(* finalize block is one action: an Aleo transaction is applied in full or *)
(* rejected, so an assert that fails, in either part, disables the action. *)
(* publish and consume are called by a service program within its own      *)
(* transaction; AleoTokenService composes them with the service's steps.   *)
(***************************************************************************)
EXTENDS Packets, VoteCounting

CONSTANTS
    Address,         \* addresses that can be attestors, as numbers
    Owner,           \* wallets and programs that can own a program
    ALEO_CHAIN_ID,   \* the chain this program runs on
    NoOwner,         \* owner_TB before initialize_tb
    U8_MAX,          \* the largest u8
    InPackets,       \* packets a service may present to consume
    MaxSequence,     \* bound: packets published per chain
    MaxHeight        \* bound: last block height

ASSUME BridgeAssumption ==
    /\ Address \subseteq Nat
    /\ ZERO_ADDRESS \in Address
    /\ IsFiniteSet(Address)
    /\ ALEO_CHAIN_ID \in Chain
    /\ NoOwner \notin Owner
    /\ U8_MAX \in Nat /\ SUPPORTED_THRESHOLD <= U8_MAX
    /\ InPackets \subseteq Packet
    /\ MaxSequence \in Nat /\ MaxHeight \in Nat

VARIABLES
    owner_TB,            \* the owner, NoOwner until initialized
    threshold,           \* bridge_settings[THRESHOLD_INDEX], 0 when absent
    total_attestors,     \* bridge_settings[TOTAL_ATTESTORS_INDEX], 0 when absent
    unpaused,            \* bridge_settings[PAUSABILITY_INDEX] = UNPAUSED_VALUE
    attestors,           \* addresses in the attestors mapping
    supported_chains,
    supported_services,
    sequences,           \* next sequence per chain (absent entries read as 1)
    out_packets,         \* <<chain_id, sequence>> -> packet, domain grows
    in_packet_consumed,  \* consumed packet ids <<chain_id, sequence>>
    received,            \* history: one record per consumption
    block_height

settings == <<owner_TB, threshold, total_attestors, unpaused, attestors,
              supported_chains, supported_services>>
traffic == <<sequences, out_packets, in_packet_consumed, received>>
bridgeVars == <<settings, traffic, block_height>>

u8 == 0 .. U8_MAX

PacketId == Chain \X Nat

(* Every mapping is empty when the program is deployed. *)
BridgeInit ==
    /\ owner_TB = NoOwner
    /\ threshold = 0
    /\ total_attestors = 0
    /\ unpaused = FALSE
    /\ attestors = {}
    /\ supported_chains = {}
    /\ supported_services = {}
    /\ sequences = [c \in Chain |-> 1]
    /\ out_packets = <<>>
    /\ in_packet_consumed = {}
    /\ received = {}
    /\ block_height = 1

-----------------------------------------------------------------------------
(* Initialization and administration *)

initialize_tb(initial_attestors, new_threshold, owner) ==
    /\ UniqueAddresses(initial_attestors)
    /\ new_threshold \in 1 .. get_valid_unique_address_count(initial_attestors)
    /\ owner_TB = NoOwner
    /\ threshold' = new_threshold
    /\ total_attestors' = get_valid_unique_address_count(initial_attestors)
    /\ attestors' = {initial_attestors[i] : i \in Slots} \cup {ZERO_ADDRESS}
    /\ owner_TB' = owner
    /\ unpaused' = FALSE
    /\ UNCHANGED <<supported_chains, supported_services, traffic, block_height>>

transfer_ownership_tb(from, new_owner) ==
    /\ from = owner_TB
    /\ owner_TB' = new_owner
    /\ UNCHANGED <<threshold, total_attestors, unpaused, attestors,
                   supported_chains, supported_services, traffic, block_height>>

(* Mutant of add_attestor_tb: an attestor may be added again. *)
AddAttestorTwice(from, new_attestor, new_threshold) ==
    /\ from = owner_TB
    /\ total_attestors + 1 \in u8
    /\ new_threshold \in 1 .. total_attestors + 1
    /\ attestors' = attestors \cup {new_attestor}
    /\ threshold' = new_threshold
    /\ total_attestors' = total_attestors + 1
    /\ UNCHANGED <<owner_TB, unpaused, supported_chains, supported_services,
                   traffic, block_height>>

add_attestor_tb(from, new_attestor, new_threshold) ==
    /\ from = owner_TB
    /\ total_attestors + 1 \in u8
    /\ new_threshold \in 1 .. total_attestors + 1
    /\ new_attestor \notin attestors
    /\ attestors' = attestors \cup {new_attestor}
    /\ threshold' = new_threshold
    /\ total_attestors' = total_attestors + 1
    /\ UNCHANGED <<owner_TB, unpaused, supported_chains, supported_services,
                   traffic, block_height>>

(* Mutant of remove_attestor_tb: neither the attestor nor the threshold is  *)
(* checked.                                                                *)
RemoveUnchecked(from, attestor, new_threshold) ==
    /\ from = owner_TB
    /\ attestors' = attestors \ {attestor}
    /\ threshold' = new_threshold
    /\ total_attestors' = total_attestors - 1
    /\ UNCHANGED <<owner_TB, unpaused, supported_chains, supported_services,
                   traffic, block_height>>

remove_attestor_tb(from, attestor, new_threshold) ==
    /\ attestor # ZERO_ADDRESS
    /\ from = owner_TB
    /\ new_threshold \in 1 .. total_attestors - 1
    /\ attestor \in attestors
    /\ attestors' = attestors \ {attestor}
    /\ threshold' = new_threshold
    /\ total_attestors' = total_attestors - 1
    /\ UNCHANGED <<owner_TB, unpaused, supported_chains, supported_services,
                   traffic, block_height>>

update_threshold_tb(from, new_threshold) ==
    /\ from = owner_TB
    /\ new_threshold \in 1 .. total_attestors
    /\ threshold' = new_threshold
    /\ UNCHANGED <<owner_TB, total_attestors, unpaused, attestors,
                   supported_chains, supported_services, traffic, block_height>>

add_chain_tb(from, chain_id) ==
    /\ from = owner_TB
    /\ supported_chains' = supported_chains \cup {chain_id}
    /\ UNCHANGED <<owner_TB, threshold, total_attestors, unpaused, attestors,
                   supported_services, traffic, block_height>>

remove_chain_tb(from, chain_id) ==
    /\ from = owner_TB
    /\ chain_id \in supported_chains
    /\ supported_chains' = supported_chains \ {chain_id}
    /\ UNCHANGED <<owner_TB, threshold, total_attestors, unpaused, attestors,
                   supported_services, traffic, block_height>>

add_service_tb(from, service) ==
    /\ from = owner_TB
    /\ supported_services' = supported_services \cup {service}
    /\ UNCHANGED <<owner_TB, threshold, total_attestors, unpaused, attestors,
                   supported_chains, traffic, block_height>>

remove_service_tb(from, service) ==
    /\ from = owner_TB
    /\ service \in supported_services
    /\ supported_services' = supported_services \ {service}
    /\ UNCHANGED <<owner_TB, threshold, total_attestors, unpaused, attestors,
                   supported_chains, traffic, block_height>>

pause_tb(from) ==
    /\ from = owner_TB
    /\ unpaused' = FALSE
    /\ UNCHANGED <<owner_TB, threshold, total_attestors, attestors,
                   supported_chains, supported_services, traffic, block_height>>

unpause_tb(from) ==
    /\ from = owner_TB
    /\ unpaused' = TRUE
    /\ UNCHANGED <<owner_TB, threshold, total_attestors, attestors,
                   supported_chains, supported_services, traffic, block_height>>

-----------------------------------------------------------------------------
(* Traffic, called from a service program *)

OutPacket(service, chain_id, contract, token, sender, receiver, amount) ==
    [src |-> ALEO_CHAIN_ID, dst |-> chain_id, srcService |-> service,
     dstService |-> contract, sequence |-> sequences[chain_id], token |-> token,
     amount |-> amount, sender |-> sender, receiver |-> receiver,
     height |-> block_height]

(* Mutant of publish: only the counter of this bridge is written. *)
PublishSameSequence(service, chain_id, contract, token, sender, receiver, amount) ==
    /\ unpaused
    /\ chain_id \in supported_chains
    /\ service \in supported_services
    /\ sequences' = [sequences EXCEPT ![ALEO_CHAIN_ID] = sequences[ALEO_CHAIN_ID] + 1]
    /\ LET id  == <<chain_id, sequences[chain_id]>>
           pkt == OutPacket(service, chain_id, contract, token, sender, receiver, amount)
       IN  out_packets' = [i \in DOMAIN out_packets \cup {id} |->
                              IF i = id THEN pkt ELSE out_packets[i]]
    /\ UNCHANGED <<settings, in_packet_consumed, received, block_height>>

(* Both counters are read before either is written, and the counter of     *)
(* this bridge is written last.                                            *)
publish(service, chain_id, contract, token, sender, receiver, amount) ==
    /\ unpaused
    /\ chain_id \in supported_chains
    /\ service \in supported_services
    /\ sequences' = [sequences EXCEPT ![chain_id] = sequences[chain_id] + 1,
                                      ![ALEO_CHAIN_ID] = sequences[ALEO_CHAIN_ID] + 1]
    /\ LET id  == <<chain_id, sequences[chain_id]>>
           pkt == OutPacket(service, chain_id, contract, token, sender, receiver, amount)
       IN  out_packets' = [i \in DOMAIN out_packets \cup {id} |->
                              IF i = id THEN pkt ELSE out_packets[i]]
    /\ UNCHANGED <<settings, in_packet_consumed, received, block_height>>

(* What the history records of a consumption: the packet, the majority      *)
(* verdict and who voted for it.                                           *)
Receipt(pkt, signers, signs) ==
    LET v == Majority(pkt, signers, signs)
    IN  [packet |-> pkt, verdict |-> v,
         voters |-> {signers[i] : i \in VotedSlots(pkt, signers, signs, v)}]

(* Mutant of consume: in_packet_consumed is written but not looked up. *)
ConsumeAgain(service, pkt, signers, signs) ==
    /\ pkt.dst = ALEO_CHAIN_ID /\ pkt.dstService = service
    /\ unpaused
    /\ pkt.src \in supported_chains
    /\ service \in supported_services
    /\ \A i \in Slots : signers[i] \in attestors
    /\ MajorityExists(pkt, signers, signs)
    /\ votes(pkt, signers, signs) >= threshold
    /\ in_packet_consumed' = in_packet_consumed \cup {<<pkt.src, pkt.sequence>>}
    /\ received' = received \cup {Receipt(pkt, signers, signs)}
    /\ UNCHANGED <<settings, sequences, out_packets, block_height>>

(* pkt.dst and pkt.dstService are ALEO_CHAIN_ID and the calling service:   *)
(* the program fills them in itself before it hashes the packet.           *)
consume(service, pkt, signers, signs) ==
    /\ pkt.dst = ALEO_CHAIN_ID /\ pkt.dstService = service
    /\ unpaused
    /\ pkt.src \in supported_chains
    /\ service \in supported_services
    /\ <<pkt.src, pkt.sequence>> \notin in_packet_consumed
    /\ \A i \in Slots : signers[i] \in attestors
    /\ MajorityExists(pkt, signers, signs)
    /\ votes(pkt, signers, signs) >= threshold
    /\ in_packet_consumed' = in_packet_consumed \cup {<<pkt.src, pkt.sequence>>}
    /\ received' = received \cup {Receipt(pkt, signers, signs)}
    /\ UNCHANGED <<settings, sequences, out_packets, block_height>>

(* block.height advances (external: the Aleo network). *)
NewBlock ==
    /\ block_height' = block_height + 1
    /\ UNCHANGED <<settings, traffic>>

-----------------------------------------------------------------------------
(* The bridge on its own: its owner administers it, any service calls it,  *)
(* and any attestor may have signed any packet with any verdict.           *)

OwnerStep(from) ==
    \/ \E o \in Owner : transfer_ownership_tb(from, o)
    \/ \E a \in Address, n \in u8 : add_attestor_tb(from, a, n)
    \/ \E a \in Address, n \in u8 : remove_attestor_tb(from, a, n)
    \/ \E n \in u8 : update_threshold_tb(from, n)
    \/ \E c \in Chain : add_chain_tb(from, c)
    \/ \E c \in Chain : remove_chain_tb(from, c)
    \/ \E s \in Service : add_service_tb(from, s)
    \/ \E s \in Service : remove_service_tb(from, s)
    \/ pause_tb(from)
    \/ unpause_tb(from)

PublishStep ==
    \E p \in InPackets, c \in Chain :
        /\ sequences[c] <= MaxSequence
        /\ publish(p.dstService, c, p.srcService, p.token, p.sender, p.receiver, p.amount)

ConsumeStep ==
    \E p \in InPackets, signers \in [Slots -> Address], vs \in [Slots -> Verdict \cup {"NONE"}] :
        consume(p.dstService, p, signers, [i \in Slots |-> Sign(signers[i], p, vs[i])])

BridgeNext ==
    \/ \E as \in [Slots -> Address], n \in u8, o \in Owner : initialize_tb(as, n, o)
    \/ \E from \in Owner : OwnerStep(from)
    \/ PublishStep
    \/ ConsumeStep
    \/ block_height < MaxHeight /\ NewBlock

BridgeSpec == BridgeInit /\ [][BridgeNext]_bridgeVars

-----------------------------------------------------------------------------
(* Properties *)

(* Type invariant of the bridge program's mappings. *)
BridgeTypeOK ==
    /\ owner_TB \in Owner \cup {NoOwner}
    /\ threshold \in u8 /\ total_attestors \in u8
    /\ unpaused \in BOOLEAN
    /\ attestors \subseteq Address
    /\ supported_chains \subseteq Chain
    /\ supported_services \subseteq Service
    /\ sequences \in [Chain -> Nat \ {0}]
    /\ DOMAIN out_packets \subseteq PacketId
    /\ \A id \in DOMAIN out_packets : out_packets[id] \in Packet
    /\ in_packet_consumed \subseteq PacketId
    /\ received \subseteq [packet : Packet, verdict : Verdict, voters : SUBSET Address]
    /\ block_height \in Nat

(* After any mix of add_attestor_tb, remove_attestor_tb and                *)
(* update_threshold_tb the counter total_attestors is the number of        *)
(* attestors, the zero address that pads the signer arrays is still an     *)
(* attestor, and the threshold is one the attestors can reach.             *)
AttestorSetSound ==
    owner_TB # NoOwner =>
        /\ ZERO_ADDRESS \in attestors
        /\ total_attestors = Cardinality(attestors \ {ZERO_ADDRESS})
        /\ threshold \in 1 .. total_attestors

(* consume takes effect once per packet id: the history holds exactly one  *)
(* record for each id marked consumed.                                     *)
ConsumedOnce ==
    /\ in_packet_consumed = {<<r.packet.src, r.packet.sequence>> : r \in received}
    /\ \A r1, r2 \in received :
          <<r1.packet.src, r1.packet.sequence>> = <<r2.packet.src, r2.packet.sequence>> => r1 = r2

(* A packet is consumed only with the same verdict of at least threshold   *)
(* distinct attestors: no padding slot and no repeated signer counts.      *)
QuorumOnConsume ==
    [][\A r \in received' \ received :
          /\ r.voters \subseteq attestors \ {ZERO_ADDRESS}
          /\ Cardinality(r.voters) >= threshold]_bridgeVars

(* publish numbers the packets of each foreign chain 1, 2, 3, ... without  *)
(* a hole, also when the chain is removed and added again in between.      *)
OutSequencesContiguous ==
    \A c \in Chain \ {ALEO_CHAIN_ID} :
        /\ {id \in DOMAIN out_packets : id[1] = c} = {c} \X (1 .. sequences[c] - 1)
        /\ \A n \in 1 .. sequences[c] - 1 : out_packets[<<c, n>>].sequence = n

(* No step changes or removes a published packet: an attestor may already  *)
(* have read and signed it.                                                *)
OutPacketsKept ==
    [][\A id \in DOMAIN out_packets :
          id \in DOMAIN out_packets' /\ out_packets'[id] = out_packets[id]]_bridgeVars
=============================================================================
