---------------------------- MODULE SigningService ----------------------------
(***************************************************************************)
(* The attestor's signing service (attestor/signingService): the digest of *)
(* a screened packet for its destination chain, the answers of the HTTP    *)
(* handler, and the key check at start; next to them the digests that the  *)
(* two bridges compute for themselves.                                     *)
(*                                                                         *)
(* A hash is the record of what is hashed, so that two hashes are equal    *)
(* exactly when their inputs are; a signature names its signer and digest. *)
(* Byte strings are sequences of chunks that carry their width.            *)
(***************************************************************************)
EXTENDS AttestorPackets

CONSTANTS
    U128,        \* numbers of 128 bits, as the Aleo hasher accepts them
    Attestors    \* addresses registered at the bridges

Word(n) == [width |-> 32, number |-> n]       \* uint256, big-endian
Byte(n) == [width |-> 1, number |-> n]
EthAddress(a) == [width |-> 20, address |-> a]
Text(s) == [string |-> s]
Keccak(bytes) == [keccak256 |-> bytes]
BHP(struct) == [bhp256 |-> struct]

SignedMessagePrefix == Text("\\x19Ethereum Signed Message:\\n32")

-----------------------------------------------------------------------------
(* Ethereum (signingService/chain/ethereum) *)

packetBytes(p) ==
    <<Word(p.version), Word(p.sequence), Word(p.srcChain), Text(p.srcAddr), Word(p.dstChain),
      EthAddress(p.dstAddr), Text(p.sender), EthAddress(p.token), Word(p.amount),
      EthAddress(p.receiver), Word(p.height)>>

getEthBoolByte(isWhite) == Byte(IF isWhite THEN 1 ELSE 0)

hashEthereum(p, isWhite) ==
    Keccak(<<SignedMessagePrefix, Keccak(<<Keccak(packetBytes(p)), getEthBoolByte(isWhite)>>)>>)

(* PacketLibrary: enum Vote and the hash of an InPacket. *)
Vote == [NULL |-> 0, YEA |-> 1, NAY |-> 2]

hashInPacket(p) ==
    Keccak(<<Word(p.version), Word(p.sequence), Word(p.srcChain), Text(p.srcAddr),
             Word(p.dstChain), EthAddress(p.dstAddr), Text(p.sender), EthAddress(p.token),
             Word(p.amount), EthAddress(p.receiver), Word(p.height)>>)

(* _recover: the address that signed the packet hash with tryVote. *)
_recover(p, signature, tryVote) ==
    IF signature.digest =
         Keccak(<<SignedMessagePrefix, Keccak(<<hashInPacket(p), Byte(Vote[tryVote])>>)>>)
    THEN signature.signer ELSE "unknown signer"

(* What _checkSignatures counts one signature as. *)
CountedAs(p, signature) ==
    IF _recover(p, signature, "NAY") \in Attestors THEN "NAY"
    ELSE IF _recover(p, signature, "YEA") \in Attestors THEN "YEA"
    ELSE "revert"

-----------------------------------------------------------------------------
(* Aleo (signingService/chain/aleo) *)

constructAleoPacket(p) ==
    <<Name("version"), Val(p.version, "u8"), Name("sequence"), Val(p.sequence, "u64"),
      Name("source"), Name("chain_id"), Val(p.srcChain, "u128"), Name("addr")>>
    \o constructEthAddressForAleoParameter(p.srcAddr)
    \o <<Name("destination"), Name("chain_id"), Val(p.dstChain, "u128"), Name("addr")>> \o p.dstAddr
    \o <<Name("message"), Name("sender_address")>> \o constructEthAddressForAleoParameter(p.sender)
    \o <<Name("dest_token_id")>> \o p.token
    \o <<Name("amount"), Val(p.amount, "u128"), Name("receiver_address")>> \o p.receiver
    \o <<Name("height"), Val(p.height, "u64")>>

(* Mutant of constructAleoScreeningPacket: the verdict is left out. *)
verdictLeftOut(packetHash, isWhite) == <<Name("packet_hash"), packetHash>>

constructAleoScreeningPacket(packetHash, isWhite) ==
    <<Name("packet_hash"), packetHash, Name("screening_passed"), isWhite>>

(* The hasher (external) refuses a number that does not fit its type. *)
hashAleo(p, isWhite) ==
    IF p.amount \notin U128 THEN Failed
    ELSE BHP(constructAleoScreeningPacket(BHP(constructAleoPacket(p)), isWhite))

(* struct InPacket of the bridge program, and the digest that consume and  *)
(* get_majority_count make of it.                                          *)
InPacket(p) ==
    LET source      == <<Name("chain_id"), Val(p.srcChain, "u128"), Name("addr")>>
                       \o ArrayText(p.srcAddr)
        destination == <<Name("chain_id"), Val(p.dstChain, "u128"), Name("addr")>> \o p.dstAddr
        message     == <<Name("sender_address")>> \o ArrayText(p.sender)
                       \o <<Name("dest_token_id")>> \o p.token
                       \o <<Name("amount"), Val(p.amount, "u128")>>
                       \o <<Name("receiver_address")>> \o p.receiver
    IN  <<Name("version"), Val(p.version, "u8"), Name("sequence"), Val(p.sequence, "u64")>>
        \o <<Name("source")>> \o source \o <<Name("destination")>> \o destination
        \o <<Name("message")>> \o message \o <<Name("height"), Val(p.height, "u64")>>

InPacketWithScreening(p, screening_passed) ==
    BHP(<<Name("packet_hash"), BHP(InPacket(p)), Name("screening_passed"), screening_passed>>)

-----------------------------------------------------------------------------
(* The service: credentials, chains [id -> name] and keys [name -> signer] *)

(* Bodies of a request that are no screened packet *)
Unreadable == [unreadable |-> TRUE]
NoPacket == [null |-> TRUE]

(* The keys of a service name the signer.  Without its key the Aleo signer *)
(* fails; the Ethereum one panics, and net/http drops the connection.      *)
signAleo(keys, digest) ==
    IF "aleo" \in DOMAIN keys
    THEN [hash |-> digest, signature |-> [signer |-> keys["aleo"], digest |-> digest]]
    ELSE [error |-> "signing failed"]

signEthereum(keys, digest) ==
    IF "ethereum" \in DOMAIN keys
    THEN [hash |-> digest, signature |-> [signer |-> keys["ethereum"], digest |-> digest]]
    ELSE [panic |-> TRUE]

(* A body without a packet panics as well. *)
HashAndSign(service, sp) ==
    IF sp = Unreadable THEN [error |-> "bad body"]
    ELSE IF sp = NoPacket THEN [panic |-> TRUE]
    ELSE IF sp.packet.dstChain \notin DOMAIN service.chains THEN [error |-> "chain-id not supported"]
    ELSE CASE service.chains[sp.packet.dstChain] = "ethereum" ->
                signEthereum(service.keys, hashEthereum(sp.packet, sp.isWhite))
           [] service.chains[sp.packet.dstChain] = "aleo" ->
                LET digest == hashAleo(sp.packet, sp.isWhite)
                IN  IF digest = Failed THEN [error |-> "hashing failed"]
                    ELSE signAleo(service.keys, digest)
           [] OTHER -> [error |-> "chain not supported"]

(* The /sign handler: the status, 0 for a dropped connection. *)
signStatus(service, request) ==
    IF request.cred # service.cred THEN 403
    ELSE IF request.method # "POST" THEN 400
    ELSE LET r == HashAndSign(service, request.body)
         IN  IF "panic" \in DOMAIN r THEN 0 ELSE IF "error" \in DOMAIN r THEN 400 ELSE 200

(* SetUpPrivateKey of either chain: the key must derive the address that   *)
(* is given with it.                                                       *)
validateKey(keyPair) == keyPair.derived = keyPair.wallet_address

(* main: a key whose address is not the one given with it, or a key for a  *)
(* chain there is no signer for, ends the service; a missing key does not. *)
setUp(cred, chains, keyFile) ==
    IF \E name \in DOMAIN keyFile : name \notin {"aleo", "ethereum"} \/ ~validateKey(keyFile[name])
    THEN Failed
    ELSE [cred |-> cred, chains |-> chains,
          keys |-> [name \in DOMAIN keyFile |-> keyFile[name].derived]]

-----------------------------------------------------------------------------
(* The chain service's side (relay/signer/sign.go) *)

(* dial: a POST without a body must be answered with a status of 4xx. *)
dial(service, cred) ==
    LET status == signStatus(service, [cred |-> cred, method |-> "POST", body |-> Unreadable])
    IN  status >= 400 /\ status <= 499

HashAndSignScreenedPacket(service, cred, sp) ==
    IF signStatus(service, [cred |-> cred, method |-> "POST", body |-> sp]) # 200
    THEN Failed ELSE HashAndSign(service, sp)

-----------------------------------------------------------------------------
CONSTANTS
    ToEthereum,   \* packets of the Aleo bridge, as it stores them
    ServiceChains,  \* chain id -> name, as the signing service has it
    ToAleo        \* packets of the Ethereum bridge, as its events carry them

(* A packet has its fields and no other; an Ethereum address has EthLen    *)
(* bytes, and an address or token of Aleo is one value.                    *)
IsPacket(p, ethFields, aleoFields) ==
    /\ p = [version |-> p.version, sequence |-> p.sequence, height |-> p.height,
            amount |-> p.amount, srcChain |-> p.srcChain, dstChain |-> p.dstChain,
            srcAddr |-> p.srcAddr, dstAddr |-> p.dstAddr, sender |-> p.sender,
            token |-> p.token, receiver |-> p.receiver]
    /\ \A f \in ethFields : p[f] = [i \in 1 .. EthLen |-> p[f][i]]
    /\ \A f \in aleoFields : p[f] = <<p[f][1]>> /\ "type" \in DOMAIN p[f][1]

(* The signing service knows the chains of the packets by their names, and *)
(* the numbers in an event of Bridge.sol fit the types the packet has for  *)
(* them: the version is 1, a sequence number and a height count upwards.   *)
ASSUME SigningAssumption ==
    /\ \A p \in ToEthereum :
         /\ IsPacket(p, {"dstAddr", "token", "receiver"}, {"srcAddr", "sender"})
         /\ p.dstChain \in DOMAIN ServiceChains /\ ServiceChains[p.dstChain] = "ethereum"
    /\ \A p \in ToAleo :
         /\ IsPacket(p, {"srcAddr", "sender"}, {"dstAddr", "token", "receiver"})
         /\ p.dstChain \in DOMAIN ServiceChains /\ ServiceChains[p.dstChain] = "aleo"
         /\ p.version \in 0 .. U8Modulus - 1
         /\ p.sequence \in 0 .. U64Modulus - 1 /\ p.height \in 0 .. U64Modulus - 1
    /\ "unknown signer" \notin Attestors

(* What the attestor makes of a packet it reads from its source chain. *)
ReadFromAleo(p) == getPktWithSeq(PacketText(p))
ReadFromEthereum(p) == filterPacketLogs(<<p>>)[1]

(* A packet read from the text of a node is the packet that was stored.  A *)
(* text that ends early is refused, or read as that packet but for the     *)
(* height, of which the first digits may be read: the parser does not ask  *)
(* for the type of a number.  One that is reported as missed is found      *)
(* among the events of its block.                                          *)
PacketReadBack ==
    /\ \A p \in ToEthereum :
         /\ getPktWithSeq(PacketText(p)) = p
         /\ \A cut \in Cuts(PacketText(p)) :
              getPktWithSeq(cut) \in
                {Failed} \cup {[p EXCEPT !.height = h] : h \in DigitPrefixes(p.height)}
    /\ \A p, q \in ToAleo :
         <<p.sequence, p.dstChain>> # <<q.sequence, q.dstChain>> =>
            GetMissedPacketEth(filterPacketLogs(<<q, p>>), p) = p

(* What an attestor signs is what the destination bridge recomputes for    *)
(* the packet that was really sent, and nothing else: the digest of one    *)
(* packet and verdict is never that of another.  A signature for what was  *)
(* read of a text that ended early is counted for a packet with the height *)
(* that was read, and for no other.  (Ethereum: for a YEA.)                *)
SignedHashIsChecked ==
    /\ \A p \in ToEthereum, signer \in Attestors :
         \A answer \in {PacketText(p)} \cup Cuts(PacketText(p)) :
           LET read == getPktWithSeq(answer)
               signature == [signer |-> signer, digest |-> hashEthereum(read, TRUE)]
           IN  read # Failed =>
                 \A q \in ToEthereum : CountedAs(q, signature) = IF q = read THEN "YEA" ELSE "revert"
    /\ \A p \in ToAleo, q \in ToAleo, v \in BOOLEAN, w \in BOOLEAN :
         p.amount \in U128 =>
            ( hashAleo(ReadFromEthereum(p), v) = InPacketWithScreening(q, w) <=> p = q /\ v = w )

(* An attestor's verdict on a packet to Ethereum is counted as what it is. *)
VerdictHashesAgree ==
    \A p \in ToEthereum, signer \in Attestors, isWhite \in BOOLEAN :
        CountedAs(p, [signer |-> signer, digest |-> hashEthereum(ReadFromAleo(p), isWhite)])
            = IF isWhite THEN "YEA" ELSE "NAY"

SignedAs(service, cred, p) ==
    LET answer == HashAndSignScreenedPacket(service, cred, [packet |-> p, isWhite |-> TRUE])
    IN  IF answer = Failed THEN {} ELSE {answer.signature.signer}

KeyFiles ==
    UNION {[keyed -> [derived : Attestors, wallet_address : Attestors]] :
             keyed \in SUBSET {"aleo", "ethereum"}}

(* A signing service that starts and answers the dial of the chain service *)
(* signs as the attestor whose address its configuration names, or not at  *)
(* all: not for a chain without a key, not a packet to Aleo whose amount   *)
(* does not fit there, and nothing when the credentials are wrong.  The    *)
(* dial does not tell: a status of 403 is in its range as well.            *)
DialedServiceSigns ==
    \A keyFile \in KeyFiles, cred \in {"cred", "other"} :
        LET service == setUp("cred", ServiceChains, keyFile)
            signed(name) == IF cred = service.cred /\ name \in DOMAIN keyFile
                            THEN {keyFile[name].wallet_address} ELSE {}
        IN  service # Failed =>
              /\ dial(service, cred)
              /\ \A p \in ToEthereum : SignedAs(service, cred, p) = signed("ethereum")
              /\ \A p \in ToAleo : SignedAs(service, cred, p) =
                   IF p.amount \in U128 THEN signed("aleo") ELSE {}
===============================================================================
