----------------------------- MODULE EthBridge -----------------------------
(***************************************************************************)
(* The Ethereum bridge contract, solidity/contracts/main/Bridge.sol with   *)
(* its base contracts AttestorManager, BridgeTokenServiceManager,          *)
(* ConsumedPacketManagerImpl, OutgoingPacketManagerImpl and Pausable.      *)
(*                                                                         *)
(* A call is one action; a require that fails reverts the transaction and  *)
(* disables the action.  onlyOwner functions are steps of the owner, who   *)
(* is fixed (Ownable comes from OpenZeppelin).  A mapping to a packet hash *)
(* holds the packet itself.                                                *)
(***************************************************************************)
EXTENDS Packets, VoteCounting

CONSTANTS
    Address,        \* addresses that can be attestors, as numbers
    ETH_CHAIN_ID,   \* the chain this contract runs on
    InPackets,      \* packets a token service may present to consume
    MaxQuorum,      \* bound: quorum values the owner uses
    MaxSequence,    \* bound: packets sent
    MaxHeight       \* bound: last block number

ASSUME EthBridgeAssumption ==
    /\ Address \subseteq Nat
    /\ IsFiniteSet(Address)
    /\ ETH_CHAIN_ID \in Chain
    /\ InPackets \subseteq Packet
    /\ MaxQuorum \in Nat /\ MaxSequence \in Nat /\ MaxHeight \in Nat

VARIABLES
    isAttestor,          \* set of attestors
    quorumRequired,
    tokenServices,       \* registered token services
    destinationChainId,
    bridgePaused,
    sequence,            \* sequence number of the last packet sent
    outgoingPackets,     \* sequence -> packet
    consumedPackets,     \* sequence -> packet
    consumptions,        \* history: one record per consumption
    blockNumber

bridgeSettings == <<isAttestor, quorumRequired, tokenServices, destinationChainId, bridgePaused>>
bridgeTraffic == <<sequence, outgoingPackets, consumedPackets, consumptions>>
ethBridgeVars == <<bridgeSettings, bridgeTraffic, blockNumber>>

(* Bridge_init: no attestor, no quorum, no service yet; not paused.        *)
EthBridgeInit ==
    /\ isAttestor = {}
    /\ quorumRequired = 0
    /\ tokenServices = {}
    /\ destinationChainId \in Chain
    /\ bridgePaused = FALSE
    /\ sequence = 0
    /\ outgoingPackets = <<>>
    /\ consumedPackets = <<>>
    /\ consumptions = {}
    /\ blockNumber = 1

-----------------------------------------------------------------------------
(* AttestorManager *)

(* The quorum is checked against zero only, not against the number of      *)
(* attestors.                                                              *)
SetAttestors(new, newQuorumRequired) ==
    /\ newQuorumRequired > 0
    /\ isAttestor' = new
    /\ quorumRequired' = newQuorumRequired
    /\ UNCHANGED <<tokenServices, destinationChainId, bridgePaused, bridgeTraffic, blockNumber>>

addAttestor(attestor, newQuorumRequired) ==
    /\ attestor # ZERO_ADDRESS
    /\ attestor \notin isAttestor
    /\ SetAttestors(isAttestor \cup {attestor}, newQuorumRequired)

(* The loop adds the entries one by one: a repeated entry reverts all.     *)
addAttestors(_attestors, newQuorumRequired) ==
    /\ \A i \in DOMAIN _attestors :
         /\ _attestors[i] # ZERO_ADDRESS
         /\ _attestors[i] \notin isAttestor
         /\ \A j \in DOMAIN _attestors : i # j => _attestors[i] # _attestors[j]
    /\ SetAttestors(isAttestor \cup {_attestors[i] : i \in DOMAIN _attestors}, newQuorumRequired)

removeAttestor(attestor, newQuorumRequired) ==
    /\ attestor \in isAttestor
    /\ SetAttestors(isAttestor \ {attestor}, newQuorumRequired)

updateQuorum(newQuorumRequired) == SetAttestors(isAttestor, newQuorumRequired)

(* BridgeTokenServiceManager, Pausable and the destination chain *)

addTokenService(service) ==
    /\ service \notin tokenServices
    /\ tokenServices' = tokenServices \cup {service}
    /\ UNCHANGED <<isAttestor, quorumRequired, destinationChainId, bridgePaused, bridgeTraffic,
                   blockNumber>>

removeTokenService(service) ==
    /\ service \in tokenServices
    /\ tokenServices' = tokenServices \ {service}
    /\ UNCHANGED <<isAttestor, quorumRequired, destinationChainId, bridgePaused, bridgeTraffic,
                   blockNumber>>

pause ==
    /\ ~bridgePaused
    /\ bridgePaused' = TRUE
    /\ UNCHANGED <<isAttestor, quorumRequired, tokenServices, destinationChainId, bridgeTraffic,
                   blockNumber>>

unpause ==
    /\ bridgePaused
    /\ bridgePaused' = FALSE
    /\ UNCHANGED <<isAttestor, quorumRequired, tokenServices, destinationChainId, bridgeTraffic,
                   blockNumber>>

updateDestinationChainId(newDestChainId) ==
    /\ newDestChainId # destinationChainId
    /\ destinationChainId' = newDestChainId
    /\ UNCHANGED <<isAttestor, quorumRequired, tokenServices, bridgePaused, bridgeTraffic,
                   blockNumber>>

-----------------------------------------------------------------------------
(* Traffic, called from a token service *)

(* _sendMessage numbers the packet: packet.sequence = ++sequence.          *)
Dispatched(packet) == [packet EXCEPT !.sequence = sequence + 1]

(* Mutant of sendMessage: sequence++ instead of ++sequence. *)
SendPostIncrement(service, packet) ==
    /\ ~bridgePaused
    /\ packet.dst = destinationChainId
    /\ service \in tokenServices
    /\ sequence' = sequence + 1
    /\ outgoingPackets' = [n \in DOMAIN outgoingPackets \cup {sequence} |->
                              IF n = sequence THEN [packet EXCEPT !.sequence = sequence]
                              ELSE outgoingPackets[n]]
    /\ UNCHANGED <<bridgeSettings, consumedPackets, consumptions, blockNumber>>

sendMessage(service, packet) ==
    /\ ~bridgePaused
    /\ packet.dst = destinationChainId
    /\ service \in tokenServices
    /\ sequence' = sequence + 1
    /\ outgoingPackets' = [n \in DOMAIN outgoingPackets \cup {sequence + 1} |->
                              IF n = sequence + 1 THEN Dispatched(packet) ELSE outgoingPackets[n]]
    /\ UNCHANGED <<bridgeSettings, consumedPackets, consumptions, blockNumber>>

(* The verdict consume returns. *)
quorumOf(packet, signatures) == _checkSignatures(packet, signatures, quorumRequired)

(* What the history records of a consumption: the packet, the verdict, and *)
(* the attestors who voted for that verdict.                               *)
Consumption(packet, signatures) ==
    LET v == quorumOf(packet, signatures)
    IN  [packet |-> packet, verdict |-> v,
         voters |-> {signatures[i].signer : i \in Voted(packet, signatures, v)}]

(* Mutant of consume: a consumed packet is not refused. *)
ConsumeTwice(service, packet, signatures) ==
    /\ ~bridgePaused
    /\ service \in tokenServices
    /\ SignaturesValid(packet, signatures, isAttestor, quorumRequired)
    /\ consumedPackets' = [n \in DOMAIN consumedPackets \cup {packet.sequence} |->
                              IF n = packet.sequence THEN packet ELSE consumedPackets[n]]
    /\ consumptions' = consumptions \cup {Consumption(packet, signatures)}
    /\ UNCHANGED <<bridgeSettings, sequence, outgoingPackets, blockNumber>>

(* consumedPackets is keyed by the sequence number alone. *)
consume(service, packet, signatures) ==
    /\ ~bridgePaused
    /\ service \in tokenServices
    /\ packet.sequence \notin DOMAIN consumedPackets
    /\ SignaturesValid(packet, signatures, isAttestor, quorumRequired)
    /\ consumedPackets' = [n \in DOMAIN consumedPackets \cup {packet.sequence} |->
                              IF n = packet.sequence THEN packet ELSE consumedPackets[n]]
    /\ consumptions' = consumptions \cup {Consumption(packet, signatures)}
    /\ UNCHANGED <<bridgeSettings, sequence, outgoingPackets, blockNumber>>

(* block.number advances (external: the Ethereum network). *)
NewEthBlock ==
    /\ blockNumber' = blockNumber + 1
    /\ UNCHANGED <<bridgeSettings, bridgeTraffic>>

-----------------------------------------------------------------------------
(* The bridge on its own *)

Quorums == 0 .. MaxQuorum

OwnerCall ==
    \/ \E a \in Address, q \in Quorums : addAttestor(a, q)
    \/ \E a, b \in Address, q \in Quorums : addAttestors(<<a, b>>, q)
    \/ \E a \in Address, q \in Quorums : removeAttestor(a, q)
    \/ \E q \in Quorums : updateQuorum(q)
    \/ \E s \in Service : addTokenService(s)
    \/ \E s \in Service : removeTokenService(s)
    \/ pause
    \/ unpause
    \/ \E c \in Chain : updateDestinationChainId(c)

SignatureLists(packet) ==
    UNION {[1 .. n -> {Sign(a, packet, v) : a \in Address, v \in Verdict \cup {"NONE"}}]
             : n \in 0 .. Cardinality(Address)}

EthBridgeNext ==
    \/ OwnerCall
    \/ \E p \in InPackets, c \in Chain :
         /\ sequence < MaxSequence
         /\ sendMessage(p.dstService, [p EXCEPT !.src = p.dst, !.dst = c, !.height = blockNumber])
    \/ \E p \in InPackets : \E sigs \in SignatureLists(p) : consume(p.dstService, p, sigs)
    \/ blockNumber < MaxHeight /\ NewEthBlock

EthBridgeSpec == EthBridgeInit /\ [][EthBridgeNext]_ethBridgeVars

-----------------------------------------------------------------------------
(* Properties *)

(* Type invariant of the bridge contract's storage.                        *)
EthBridgeTypeOK ==
    /\ isAttestor \subseteq Address \ {ZERO_ADDRESS}
    /\ quorumRequired \in Nat
    /\ tokenServices \subseteq Service
    /\ destinationChainId \in Chain
    /\ bridgePaused \in BOOLEAN
    /\ sequence \in Nat
    /\ DOMAIN outgoingPackets \subseteq Nat
    /\ \A n \in DOMAIN outgoingPackets : outgoingPackets[n] \in Packet
    /\ DOMAIN consumedPackets \subseteq Nat
    /\ \A n \in DOMAIN consumedPackets : consumedPackets[n] \in Packet
    /\ consumptions \subseteq [packet : Packet, verdict : Verdict \cup {"NULL"},
                               voters : SUBSET Address]
    /\ blockNumber \in Nat

(* consume takes effect once per sequence number, and consumedPackets      *)
(* keeps the packet that took effect.                                      *)
ConsumedOnceEth ==
    /\ \A n \in DOMAIN consumedPackets :
          \E r \in consumptions : r.packet = consumedPackets[n] /\ r.packet.sequence = n
    /\ \A r \in consumptions :
          /\ r.packet.sequence \in DOMAIN consumedPackets
          /\ consumedPackets[r.packet.sequence] = r.packet
    /\ \A r1, r2 \in consumptions : r1.packet.sequence = r2.packet.sequence => r1 = r2

(* sendMessage numbers the packets 1, 2, 3, ... over all destinations.     *)
OutgoingContiguous ==
    /\ DOMAIN outgoingPackets = 1 .. sequence
    /\ \A n \in 1 .. sequence : outgoingPackets[n].sequence = n

(* A verdict YEA or NAY has quorumRequired distinct attestors behind it,   *)
(* and never the zero address, which a failed recovery of a signer gives.  *)
VerdictNeedsQuorum ==
    [][\A r \in consumptions' \ consumptions :
          r.verdict \in Verdict =>
              /\ r.voters \subseteq isAttestor \ {ZERO_ADDRESS}
              /\ Cardinality(r.voters) >= quorumRequired]_ethBridgeVars
=============================================================================
