------------------------------- MODULE Attestor -------------------------------
(***************************************************************************)
(* The attestor: its process with the configuration it reads, the signing  *)
(* service it calls, and the functions that turn packets into bytes.  The  *)
(* states are those of AttestorProcess; each property says what must be    *)
(* true of the other parts once the process has come to use them.          *)
(***************************************************************************)
EXTENDS AttestorProcess, SigningService, AttestorConfig

Doing(stage) == \E w \in Workers : worker[w].at = stage

(* The keys of the store order and give back the numbers they stand for:   *)
(* its cursors, which find the first and the last number completed, rely   *)
(* on it (getKeyByteForKeyConstraint, convertType).                        *)
KeysKeepOrder ==
    \A base \in 2 .. 4, width \in 1 .. 3 :
        LET numbers == {k \in 0 .. 63 : Fits(k, base, width)}
            key(k)  == getKeyByteForKeyConstraint(k, base, width)
        IN  \A k, l \in numbers :
              /\ convertType(key(k), base) = k
              /\ k < l => KeyBefore(key(k), key(l))

(* What a start has made sure of.  The signing service that has answered   *)
(* signs with the keys of the wallets it was given, or not at all.  The    *)
(* feeds of an accepted configuration are for configured chains, and those *)
(* to destinations have the buckets they read, whose keys are in the order *)
(* of the numbers.  It has not made sure of the credentials, nor that the  *)
(* start numbers are for destinations (dial, setUp, InitConfig,            *)
(* NewClient).                                                             *)
StartIsSound ==
    main = "select" /\ registered = {} =>
        /\ DialedServiceSigns
        /\ FeedsHaveNamespaces
        /\ KeysKeepOrder

(* What a worker delivers is counted for the packet that the source bridge *)
(* stored, and for no other; of a text that ends early nothing but the     *)
(* height is read wrongly, and the signature is not counted for the packet *)
(* then (getPktWithSeq; hash of both chains against the bridges').         *)
SignaturesCheckOut == Doing("send") => PacketReadBack /\ SignedHashIsChecked

(* The verdict that a worker delivers is counted as the one it came to     *)
(* (getEthBoolByte against PacketLibrary.Vote).                            *)
VerdictsCheckOut == Doing("send") => VerdictHashesAgree
===============================================================================
