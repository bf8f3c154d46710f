------------------------------ MODULE Verulink ------------------------------
(***************************************************************************)
(* The whole bridge: the Aleo programs of AleoTokenService, the Ethereum   *)
(* contracts of EthTokenService and the attestors between them.            *)
(*                                                                         *)
(* The two chains share no state: what connects them is signatures.  An    *)
(* attestor reads a packet from its source chain and signs it with the     *)
(* verdict of its screening (attestor/chainService/relay, signer); it      *)
(* stores the signature with the collector service, and whoever presents   *)
(* the packet to the destination chain picks signatures from there.  The   *)
(* collector may serve them late, twice or never, and serves every caller, *)
(* so it is the growing set `collected'.  The members of Faulty sign       *)
(* anything at any time.                                                   *)
(*                                                                         *)
(* Both services are configured: the steps here are the ones of users,     *)
(* attestors, the blacklist and the owners' holding and vault operations.  *)
(* Administration is explored in the modules of the two chains.            *)
(***************************************************************************)
EXTENDS Packets, VoteCounting

CONSTANTS
    Address, Owner, ALEO_CHAIN_ID, ETH_CHAIN_ID, NoOwner, U8_MAX, HUNDRED_PERCENTAGE,
    AleoTS, EthTS,          \* the token services of the two chains
    HOLDING_ADDRESS,        \* the account of the Aleo holding program
    ETH_TOKEN, User,
    TSAccount, HOLDING, VAULT, OWNER, NoVault,
    Amounts, Limits, InitialFunds,
    Threshold,              \* threshold of both bridges
    Faulty,                 \* attestors that sign anything
    Forged,                 \* packets that faulty attestors may make up
    MaxSequence,            \* bound: packets Aleo sends
    MaxSent,                \* bound: packets Ethereum sends
    MaxHeight               \* bound: last block of either chain

VARIABLES
    \* the Aleo programs
    owner_TB, threshold, total_attestors, unpaused, attestors, supported_chains,
    supported_services, sequences, out_packets, in_packet_consumed, received,
    block_height, owner_TS, token_info, other_chain, total_supply, token_snapshot,
    sent_token, token_holding, holdings, owner_holding, delegated, balances,
    \* the Ethereum contracts
    isAttestor, quorumRequired, tokenServices, destinationChainId, bridgePaused,
    sequence, outgoingPackets, consumedPackets, consumptions, blockNumber,
    supportedTokens, servicePaused, holdingSet, blackLists, issuerLists, locked,
    unlocked, holdingServices, holdingPaused, funds, vaultFlow,
    \* the collector service
    collected

A == INSTANCE AleoTokenService
        WITH TS <- AleoTS, InPackets <- Forged, InitialThreshold <- Threshold, MaxHeld <- 0

E == INSTANCE EthTokenService
        WITH TS <- TSAccount, TokenServiceAddr <- EthTS, AleoService <- AleoTS,
             ALEO <- ALEO_CHAIN_ID, InPackets <- Forged, InitialQuorum <- Threshold,
             MaxQuorum <- Threshold

Attestor == Address \ {ZERO_ADDRESS}

ASSUME VerulinkAssumption ==
    /\ ALEO_CHAIN_ID \in Chain /\ ETH_CHAIN_ID \in Chain /\ ALEO_CHAIN_ID # ETH_CHAIN_ID
    /\ Address \subseteq Nat /\ IsFiniteSet(Address) /\ ZERO_ADDRESS \in Address
    /\ Faulty \subseteq Attestor
    /\ Threshold \in 1 .. Cardinality(Attestor)
    /\ Cardinality(Faulty) < Threshold
    /\ Forged \subseteq Packet
    /\ HOLDING_ADDRESS \in Account \ User /\ User \subseteq Account
    /\ AleoTS \in Service /\ EthTS \in Service /\ AleoTS # EthTS
    /\ Amounts \subseteq Nat \ {0} /\ InitialFunds \in Nat
    /\ TSAccount \notin {HOLDING, VAULT, OWNER} \cup User

aleo ==
    <<owner_TB, threshold, total_attestors, unpaused, attestors, supported_chains,
      supported_services, sequences, out_packets, in_packet_consumed, received,
      block_height, owner_TS, token_info, other_chain, total_supply, token_snapshot,
      sent_token, token_holding, holdings, owner_holding, delegated, balances>>
ethereum ==
    <<isAttestor, quorumRequired, tokenServices, destinationChainId, bridgePaused,
      sequence, outgoingPackets, consumedPackets, consumptions, blockNumber,
      supportedTokens, servicePaused, holdingSet, blackLists, issuerLists, locked,
      unlocked, holdingServices, holdingPaused, funds, vaultFlow>>
verulinkVars == <<aleo, ethereum, collected>>

-----------------------------------------------------------------------------
(* What the chains publish *)

SentByAleo == {out_packets[id] : id \in DOMAIN out_packets}
SentByEth  == {outgoingPackets[n] : n \in DOMAIN outgoingPackets}

ConsumedByAleo == {r.packet : r \in received}
ConsumedByEth  == {consumedPackets[n] : n \in DOMAIN consumedPackets}

-----------------------------------------------------------------------------
(* Attestors and the collector *)

(* Mutant of Attest: the packet is not looked up on its source chain. *)
AttestUnseen(a, pkt, v) ==
    /\ a \notin Faulty
    /\ collected' = collected \cup {Sign(a, pkt, v)}
    /\ UNCHANGED <<aleo, ethereum>>

(* An honest attestor signs a packet it read on the source chain.  A       *)
(* retry after a failed delivery may sign it again, and may then come to   *)
(* the other verdict.                                                      *)
Attest(a, pkt, v) ==
    /\ a \notin Faulty
    /\ pkt \in SentByAleo \cup SentByEth
    /\ collected' = collected \cup {Sign(a, pkt, v)}
    /\ UNCHANGED <<aleo, ethereum>>

(* The signatures of attestor a over pkt that anyone can get hold of. *)
Available(a, pkt) ==
    {s \in {Sign(a, pkt, v) : v \in Verdict} : s \in collected \/ a \in Faulty}

-----------------------------------------------------------------------------
(* Deliveries *)

(* The unused slots of the Leo arrays hold the zero address. *)
Padding(pkt) == Sign(ZERO_ADDRESS, pkt, "NONE")

DeliverToAleo(pkt) ==
    \E signs \in [A!Slots -> (UNION {Available(a, pkt) : a \in Attestor}) \cup {Padding(pkt)}] :
        /\ A!token_receive(pkt, [i \in A!Slots |-> signs[i].signer], signs)
        /\ UNCHANGED <<ethereum, collected>>

DeliverToEth(pkt) ==
    \E n \in 0 .. Cardinality(Attestor) :
    \E signatures \in [1 .. n -> UNION {Available(a, pkt) : a \in Attestor}] :
        /\ E!withdraw(pkt, signatures)
        /\ UNCHANGED <<aleo, collected>>

-----------------------------------------------------------------------------
(* Both services configured: every token is enabled on both chains. *)

Init ==
    /\ A!BridgeReady
    /\ owner_TS \in Owner
    /\ token_info \in [Token -> [min : {0}, max : Nat \cap Amounts, limit : Limits, paused : {FALSE}]]
    /\ other_chain = [k \in {ETH_CHAIN_ID} \X Token |-> [service |-> EthTS, address |-> k[2]]]
    /\ total_supply = <<>> /\ token_snapshot = <<>> /\ sent_token = <<>>
    /\ token_holding = [t \in Token |-> 0]
    /\ holdings = [a \in Account |-> [t \in Token |-> 0]]
    /\ owner_holding = AleoTS /\ delegated = FALSE
    /\ balances = [t \in Token |-> [a \in Account |-> 0]]
    /\ E!EthBridgeReady
    /\ supportedTokens \in [Token -> [vault : {VAULT}, min : {0}, max : Nat \cap Amounts, enabled : {TRUE}]]
    /\ servicePaused = FALSE /\ holdingSet = TRUE
    /\ blackLists = {} /\ issuerLists = {}
    /\ locked = [u \in Account |-> [t \in Token |-> 0]]
    /\ unlocked = [u \in Account |-> [t \in Token |-> 0]]
    /\ holdingServices = {EthTS} /\ holdingPaused = FALSE
    /\ funds = [t \in Token |-> [a \in E!Accounts |-> IF a \in User THEN InitialFunds ELSE 0]]
    /\ vaultFlow = [t \in Token |-> 0]
    /\ collected = {}

AleoSend(u, t, r, n) ==
    /\ sequences[ETH_CHAIN_ID] <= MaxSequence
    /\ A!token_send(u, t, r, n, ETH_CHAIN_ID, EthTS, t)

EthSend(u, t, n, r) ==
    /\ sequence < MaxSent
    /\ E!transfer(u, t, n, r)

(* A new block on either chain. *)
AleoBlock ==
    /\ A!NewBlock
    /\ UNCHANGED <<owner_TS, token_info, other_chain, total_supply, token_snapshot,
                   sent_token, token_holding, holdings, owner_holding, delegated, balances>>

EthBlock ==
    /\ E!NewEthBlock
    /\ UNCHANGED <<supportedTokens, servicePaused, holdingSet, blackLists, issuerLists, locked,
                   unlocked, holdingServices, holdingPaused, funds, vaultFlow>>

AleoStep ==
    /\ \/ \E u, r \in User, t \in Token, n \in Amounts : AleoSend(u, t, r, n)
       \/ \E t \in Token, u \in User, n \in Amounts : A!holding_release(owner_TS, t, u, n)
       \/ block_height < MaxHeight /\ AleoBlock
    /\ UNCHANGED <<ethereum, collected>>

EthStep ==
    /\ \/ \E u, r \in User, t \in Token, n \in Amounts : EthSend(u, t, n, r)
       \/ \E u \in User, t \in Token, n \in Amounts : E!unlock(u, t, n)
       \/ \E u \in User, t \in Token : E!release(u, t)
       \/ \E t \in Token, n \in Amounts :
             E!transferToVault(t, n) \/ E!vaultTransfer(t, n) \/ E!receive(t, n)
       \/ \E u \in User : E!addToBlackList(u) \/ E!removeFromBlackList(u)
       \/ blockNumber < MaxHeight /\ EthBlock
    /\ UNCHANGED <<aleo, collected>>

Next ==
    \/ AleoStep
    \/ EthStep
    \/ \E a \in Attestor, pkt \in SentByAleo \cup SentByEth \cup Forged, v \in Verdict :
          Attest(a, pkt, v)
    \/ \E pkt \in SentByEth \cup Forged : DeliverToAleo(pkt)
    \/ \E pkt \in SentByAleo \cup Forged : DeliverToEth(pkt)

Spec == Init /\ [][Next]_verulinkVars

-----------------------------------------------------------------------------
(* Properties *)

(* Neither chain acts on a packet the other one did not publish, in every  *)
(* field, as long as fewer attestors than the threshold misbehave.         *)
OnlySentConsumed ==
    /\ ConsumedByAleo \subseteq SentByEth
    /\ ConsumedByEth \subseteq SentByAleo

Reserve(t) == funds[t][TSAccount] + vaultFlow[t]

(* The reserve on Ethereum (with what the owner moved to the vault) covers *)
(* the supply on Aleo and everything on its way in either direction, to    *)
(* the unit.                                                               *)
FullyBacked ==
    \A t \in Token :
        Reserve(t) = A!Supply(t) + Total(SentByEth \ ConsumedByAleo, t)
                                 + Total(SentByAleo \ ConsumedByEth, t)

Ideal == INSTANCE IdealBridge
            WITH reserve <- [t \in Token |-> Reserve(t)],
                 supply <- [t \in Token |-> A!Supply(t)],
                 toAleo <- SentByEth \ ConsumedByAleo,
                 toEth <- SentByAleo \ ConsumedByEth,
                 used <- SentByEth \cup SentByAleo

(* Every step of the two chains and the attestors is a step of the ideal   *)
(* bridge, or changes nothing it speaks of: a packet is sent once and acts *)
(* once, and holding, vault, blacklist and signing steps neither create    *)
(* nor destroy a unit.                                                     *)
ImplementsIdealBridge == Ideal!IdealSpec
=============================================================================
