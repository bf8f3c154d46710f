---------------------------- MODULE VoteCounting ----------------------------
(***************************************************************************)
(* How each bridge counts the attestor signatures that come with a packet. *)
(*                                                                         *)
(* A signature is a record: who made it, over which packet, and with which *)
(* screening verdict (YEA / NAY).  "NONE" stands for bytes that verify     *)
(* under neither verdict.  Addresses are natural numbers, because the      *)
(* Solidity bridge compares them; 0 is the zero address of both chains.    *)
(***************************************************************************)
EXTENDS Integers, FiniteSets, Sequences

CONSTANT SUPPORTED_THRESHOLD    \* slots of the Leo arrays (5 in the code)

ASSUME SupportedThresholdAssumption == SUPPORTED_THRESHOLD \in Nat \ {0}

ZERO_ADDRESS == 0

Verdict == {"YEA", "NAY"}

Sign(a, pkt, v) == [signer |-> a, packet |-> pkt, verdict |-> v]

(* signature::verify and ecrecover: only the signer's own signature over   *)
(* this packet and verdict verifies.                                       *)
Verify(sig, a, pkt, v) == sig = Sign(a, pkt, v)

-----------------------------------------------------------------------------
(* The Leo bridge: arrays of SUPPORTED_THRESHOLD signers and signatures,   *)
(* unused slots padded with the zero address.                              *)

Slots == 1 .. SUPPORTED_THRESHOLD

UsedSlots(addresses) == {i \in Slots : addresses[i] # ZERO_ADDRESS}

(* The assertions of get_valid_unique_address_count. *)
UniqueAddresses(addresses) ==
    \A i, j \in UsedSlots(addresses) : i # j => addresses[i] # addresses[j]

get_valid_unique_address_count(addresses) == Cardinality(UsedSlots(addresses))

VotedSlots(pkt, signers, signs, v) ==
    {i \in UsedSlots(signers) : Verify(signs[i], signers[i], pkt, v)}

VoteCount(pkt, signers, signs, v) == Cardinality(VotedSlots(pkt, signers, signs, v))

(* Mutant of MajorityExists: the uniqueness of the signers is not asserted. *)
MajorityOfRepeated(pkt, signers, signs) ==
    /\ \A i \in UsedSlots(signers) : \E v \in Verdict : Verify(signs[i], signers[i], pkt, v)
    /\ VoteCount(pkt, signers, signs, "YEA") # VoteCount(pkt, signers, signs, "NAY")

(* The assertions of get_majority_count: unique signers, each of whose     *)
(* signature verifies under one verdict, and no tie.                       *)
MajorityExists(pkt, signers, signs) ==
    /\ UniqueAddresses(signers)
    /\ \A i \in UsedSlots(signers) : \E v \in Verdict : Verify(signs[i], signers[i], pkt, v)
    /\ VoteCount(pkt, signers, signs, "YEA") # VoteCount(pkt, signers, signs, "NAY")
    /\ get_valid_unique_address_count(signers)
         = VoteCount(pkt, signers, signs, "YEA") + VoteCount(pkt, signers, signs, "NAY")

(* What get_majority_count returns once its assertions hold. *)
screening_passed(pkt, signers, signs) ==
    VoteCount(pkt, signers, signs, "YEA") > VoteCount(pkt, signers, signs, "NAY")

Majority(pkt, signers, signs) ==
    IF screening_passed(pkt, signers, signs) THEN "YEA" ELSE "NAY"

votes(pkt, signers, signs) == VoteCount(pkt, signers, signs, Majority(pkt, signers, signs))

-----------------------------------------------------------------------------
(* The Solidity bridge: a list of 65-byte signatures of any length.  The   *)
(* signer is recovered from the signature, first as a NAY, then as a YEA.  *)

Voted(pkt, signatures, v) ==
    {i \in DOMAIN signatures : Verify(signatures[i], signatures[i].signer, pkt, v)}

yeas(pkt, signatures) == Cardinality(Voted(pkt, signatures, "YEA"))

nays(pkt, signatures) == Cardinality(Voted(pkt, signatures, "NAY"))

(* Mutant of SignaturesValid: the signers are not compared with each other. *)
SignaturesUnordered(pkt, signatures, attestors, quorum) ==
    /\ Len(signatures) >= quorum
    /\ \A i \in DOMAIN signatures :
         /\ signatures[i].signer \in attestors
         /\ \E v \in Verdict : Verify(signatures[i], signatures[i].signer, pkt, v)

(* The require statements of _checkSignatures.  The loop compares each     *)
(* signer with the one before it: the list is strictly increasing.         *)
SignaturesValid(pkt, signatures, attestors, quorum) ==
    /\ Len(signatures) >= quorum
    /\ \A i \in DOMAIN signatures :
         /\ signatures[i].signer \in attestors
         /\ \E v \in Verdict : Verify(signatures[i], signatures[i].signer, pkt, v)
    /\ \A i, j \in DOMAIN signatures : i < j => signatures[i].signer < signatures[j].signer

_checkSignatures(pkt, signatures, quorum) ==
    IF yeas(pkt, signatures) > nays(pkt, signatures) /\ yeas(pkt, signatures) >= quorum
    THEN "YEA"
    ELSE IF nays(pkt, signatures) >= quorum THEN "NAY" ELSE "NULL"
=============================================================================
