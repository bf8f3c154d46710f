---------------------------- MODULE AttestorPackets ----------------------------
(***************************************************************************)
(* How the attestor reads a packet of either bridge                        *)
(* (attestor/chainService/chain).                                          *)
(*                                                                         *)
(* The Aleo node answers a query for an entry of out_packets with the text *)
(* of a struct, which is cut into tokens and parsed by position.  A token  *)
(* is a field name or a value; a value carries its number and its Aleo     *)
(* type.  Brackets, quotes, blanks, commas and colons only separate tokens *)
(* (trim and the two Splits) and are left out.                             *)
(*                                                                         *)
(* An Ethereum node returns decoded events of the bridge contract.         *)
(***************************************************************************)
EXTENDS Integers, Sequences, SequencesExt, FiniteSetsExt

CONSTANTS
    AddrLen,     \* bytes of an address as the Aleo bridge stores it (32)
    EthLen,      \* bytes of an Ethereum address (20)
    U8Modulus,   \* numbers of a uint8 (256)
    U64Modulus,  \* numbers of a uint64 (2^64)
    Powers       \* of the base in which numbers are written (1, 10, 100, ...)

ASSUME TextAssumption ==
    /\ EthLen \in Nat /\ AddrLen \in Nat /\ AddrLen > EthLen
    /\ U8Modulus \in Nat /\ U64Modulus \in Nat /\ U8Modulus <= U64Modulus
    /\ Powers \subseteq Nat \ {0}

Name(s) == [name |-> s]
Val(n, t) == [value |-> n, type |-> t]

HasType(token, type) == "type" \in DOMAIN token /\ token.type = type

(* An error of the Go code, a recovered panic among them. *)
Failed == [failed |-> TRUE]

-----------------------------------------------------------------------------
(* The node (external): the text of an OutPacket, its fields in the order  *)
(* in which the Leo program declares them.                                 *)

(* an Ethereum address as the Leo program stores it, padded on the left *)
ArrayText(addr) ==
    [i \in 1 .. AddrLen |-> Val(IF i <= AddrLen - EthLen THEN 0
                                ELSE addr[i - (AddrLen - EthLen)], "u8")]

FieldText(p, f) ==
    CASE f = "version"  -> <<Name(f), Val(p.version, "u8")>>
      [] f = "sequence" -> <<Name(f), Val(p.sequence, "u64")>>
      [] f = "height"   -> <<Name(f), Val(p.height, "u64")>>
      [] f = "source"   -> <<Name(f), Name("chain_id"), Val(p.srcChain, "u128"),
                             Name("addr")>> \o p.srcAddr
      [] f = "destination" -> <<Name(f), Name("chain_id"), Val(p.dstChain, "u128"), Name("addr")>>
                              \o ArrayText(p.dstAddr)
      [] f = "message"  -> <<Name(f), Name("sender_address")>> \o p.sender
                           \o <<Name("dest_token_address")>> \o ArrayText(p.token)
                           \o <<Name("amount"), Val(p.amount, "u128"), Name("receiver_address")>>
                           \o ArrayText(p.receiver)

PacketText(p) ==
    FieldText(p, "version") \o FieldText(p, "sequence") \o FieldText(p, "source")
    \o FieldText(p, "destination") \o FieldText(p, "message") \o FieldText(p, "height")

(* A text that ends early, after a token or within one.  Of a number some  *)
(* digits may be left, without a type; anything else that is left of a     *)
(* token, a part of a number's type included, is neither name nor value.   *)
Broken == [broken |-> TRUE]

DigitPrefixes(n) == {n} \cup ({n \div k : k \in Powers} \ {0})

CutToken(token) ==
    {Broken} \cup IF \E type \in {"u8", "u64", "u128"} : HasType(token, type)
                  THEN {Val(n, "none") : n \in DigitPrefixes(token.value)} ELSE {}

Cuts(text) ==
    {SubSeq(text, 1, n) : n \in 0 .. Len(text) - 1}
    \cup UNION {{Append(SubSeq(text, 1, n - 1), token) : token \in CutToken(text[n])} :
                  n \in 1 .. Len(text)}

-----------------------------------------------------------------------------
(* parseMessage *)

RequiredFields == {"version", "sequence", "source", "destination", "message", "height"}

SliceLength(f) ==
    CASE f = "source" -> 4 [] f = "destination" -> AddrLen + 3 [] f = "message" -> 2 * AddrLen + 6
      [] OTHER -> 1

(* Where name s stands in the slice of field f (the last place counts). *)
FieldAt(tokens, f) == Max({0} \cup {i \in DOMAIN tokens : tokens[i] = Name(f)})

NameAt(tokens, f, s) ==
    LET m == FieldAt(tokens, f)
    IN  Max({0} \cup {i \in m + 1 .. m + SliceLength(f) : tokens[i] = Name(s)})

(* The n values after it; a name that is not there leaves the field empty. *)
ValuesOf(tokens, f, s, n) ==
    LET i == NameAt(tokens, f, s) IN IF i = 0 THEN <<>> ELSE SubSeq(tokens, i + 1, i + n)

(* Slicing past the end of the tokens, or reading past a slice, panics. *)
SlicePanics(tokens, f) == FieldAt(tokens, f) + SliceLength(f) > Len(tokens)

ValuesPanic(tokens, f, s, n) ==
    LET i == NameAt(tokens, f, s)
    IN  /\ i # 0
        /\ i + n > IF n = 1 THEN FieldAt(tokens, f) + SliceLength(f) ELSE Len(tokens)

StructValues == {<<"source", "chain_id", 1>>, <<"source", "addr", 1>>,
                 <<"destination", "chain_id", 1>>, <<"destination", "addr", AddrLen>>,
                 <<"message", "dest_token_address", AddrLen>>, <<"message", "sender_address", 1>>,
                 <<"message", "receiver_address", AddrLen>>, <<"message", "amount", 1>>}

parseMessage(tokens) ==
    IF \/ \E f \in RequiredFields : FieldAt(tokens, f) = 0 \/ SlicePanics(tokens, f)
       \/ \E v \in StructValues : ValuesPanic(tokens, v[1], v[2], v[3])
    THEN Failed
    ELSE LET number(f) == <<tokens[FieldAt(tokens, f) + 1]>>
         IN  [version  |-> number("version"), sequence |-> number("sequence"),
              height   |-> number("height"),
              srcChain |-> ValuesOf(tokens, "source", "chain_id", 1),
              srcAddr  |-> ValuesOf(tokens, "source", "addr", 1),
              dstChain |-> ValuesOf(tokens, "destination", "chain_id", 1),
              dstAddr  |-> ValuesOf(tokens, "destination", "addr", AddrLen),
              token    |-> ValuesOf(tokens, "message", "dest_token_address", AddrLen),
              sender   |-> ValuesOf(tokens, "message", "sender_address", 1),
              receiver |-> ValuesOf(tokens, "message", "receiver_address", AddrLen),
              amount   |-> ValuesOf(tokens, "message", "amount", 1)]

-----------------------------------------------------------------------------
(* parseAleoPacket *)

(* strings.Replace removes the type if it is there, and big.Int.SetString  *)
(* wants digits only: a number without a type is one, too.                 *)
IsNumber(v, type) == Len(v) = 1 /\ (HasType(v[1], type) \/ HasType(v[1], "none"))

(* The 32 types of an array are counted. *)
IsArray(v) == Len(v) = AddrLen /\ \A i \in DOMAIN v : HasType(v[i], "u8")

(* The padding of the first bytes is dropped without a look at it. *)
parseAleoEthAddrToHexString(v) == [i \in 1 .. EthLen |-> v[AddrLen - EthLen + i].value]

(* The Aleo addresses are copied as they stand, or are empty. *)
parseAleoPacket(m) ==
    IF \/ ~IsNumber(m.version, "u8") \/ ~IsNumber(m.sequence, "u64") \/ ~IsNumber(m.height, "u64")
       \/ \E v \in {m.srcChain, m.dstChain, m.amount} : ~IsNumber(v, "u128")
       \/ \E v \in {m.dstAddr, m.token, m.receiver} : ~IsArray(v)
    THEN Failed
    ELSE [version  |-> m.version[1].value, sequence |-> m.sequence[1].value,
          height   |-> m.height[1].value,  amount   |-> m.amount[1].value,
          srcChain |-> m.srcChain[1].value, dstChain |-> m.dstChain[1].value,
          srcAddr  |-> m.srcAddr, sender |-> m.sender,
          dstAddr  |-> parseAleoEthAddrToHexString(m.dstAddr),
          token    |-> parseAleoEthAddrToHexString(m.token),
          receiver |-> parseAleoEthAddrToHexString(m.receiver)]

-----------------------------------------------------------------------------
(* getPktWithSeq.  The body of the node's answer is taken as it is, its    *)
(* HTTP status and its brackets aside; the text null says that the mapping *)
(* has no such entry.                                                      *)

NullText == <<Name("null")>>

NotFound == [notFound |-> TRUE]

getPktWithSeq(answer) ==
    IF answer = NullText THEN NotFound
    ELSE LET m == parseMessage(answer)
         IN  IF m = Failed THEN Failed ELSE parseAleoPacket(m)

-----------------------------------------------------------------------------
(* constructEthAddressForAleoParameter: an Ethereum address as an array of *)
(* AddrLen bytes, padded on the left.                                      *)
constructEthAddressForAleoParameter(addr) ==
    [i \in 1 .. AddrLen |-> Val(IF i <= AddrLen - EthLen THEN 0
                                ELSE addr[i - (AddrLen - EthLen)], "u8")]

-----------------------------------------------------------------------------
(* filterPacketLogs, Ethereum: numbers of 256 bits are cut to the width    *)
(* the packet has for them; chain ids and the amount are kept whole.       *)
filterPacketLogs(events) ==
    [i \in DOMAIN events |->
        [events[i] EXCEPT !.version  = (@ % U64Modulus) % U8Modulus,
                          !.sequence = @ % U64Modulus,
                          !.height   = @ % U64Modulus]]

(* GetMissedPacket, Ethereum: among the packets of the block reported. *)
GetMissedPacketEth(packets, missed) ==
    LET found == {i \in DOMAIN packets : packets[i].sequence = missed.sequence
                                         /\ packets[i].dstChain = missed.dstChain}
    IN  IF found = {} THEN NotFound ELSE packets[Min(found)]
=================================================================================
