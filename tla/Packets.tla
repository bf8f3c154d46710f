------------------------------ MODULE Packets ------------------------------
(***************************************************************************)
(* The packet both chains exchange, and the total amount a set of packets  *)
(* carries.                                                                *)
(*                                                                         *)
(* A packet is what the Leo structs InPacket/OutPacket and the Solidity    *)
(* structs of PacketLibrary hold once the two encodings are stripped off:  *)
(* the source and destination chain and service, the sequence number the   *)
(* source bridge gave it, the token message and the source height.  The    *)
(* version byte is the constant 1 on both sides and is left out.  A hash   *)
(* of a packet is the packet itself (hashing is taken to be injective).    *)
(*                                                                         *)
(* `token' is the token as the destination chain names it.                 *)
(***************************************************************************)
EXTENDS Integers, FiniteSets

CONSTANTS
    Chain,      \* chain identifiers, ALEO_CHAIN_ID among them
    Service,    \* token service programs and contracts
    Token,      \* token addresses / token ids
    Account     \* senders and receivers

Packet == [src : Chain, dst : Chain, srcService : Service, dstService : Service,
           sequence : Nat, token : Token, amount : Nat,
           sender : Account, receiver : Account, height : Nat]

(***************************************************************************)
(* The units of token t that the packets of S carry, one pair per unit,    *)
(* and their number: the sum of the amounts of the packets of S in t.      *)
(***************************************************************************)
Units(S, t) == UNION {{p} \X (1 .. p.amount) : p \in {q \in S : q.token = t}}

Total(S, t) == Cardinality(Units(S, t))

(* The sum of the values of a function with finitely many positive values, *)
(* counted in the same way.                                                *)
UnitsOf(f) == UNION {{x} \X (1 .. f[x]) : x \in DOMAIN f}

SumOf(f) == Cardinality(UnitsOf(f))
=============================================================================
