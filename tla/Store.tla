-------------------------------- MODULE Store --------------------------------
(***************************************************************************)
(* The attestor's key-value store (attestor/chainService/store): bolt      *)
(* buckets and the operations on the attestor's namespaces.                *)
(*                                                                         *)
(* A bucket is a function from keys to values; a cursor runs through it in *)
(* the order of the keys.  A transaction of bolt is one operator.  Writes  *)
(* that bolt itself rejects (a full disk) are left out.                    *)
(***************************************************************************)
EXTENDS Integers, FiniteSets, Sequences, SequencesExt

-----------------------------------------------------------------------------
(* Keys: numbers are stored as big-endian bytes (constraint.go), so that   *)
(* the order of the bytes, which bolt follows, is that of the numbers.     *)
(* Base is 256 and Width 8 in the code.                                    *)

(* k shifted to the right by n bytes *)
shifted(k, Base, Width) ==
    LET s[n \in 0 .. Width] == IF n = 0 THEN k ELSE s[n - 1] \div Base IN s

(* The numbers of Width bytes *)
Fits(k, Base, Width) == k \in Nat /\ shifted(k, Base, Width)[Width] = 0

getKeyByteForKeyConstraint(k, Base, Width) ==
    [i \in 1 .. Width |-> shifted(k, Base, Width)[Width - i] % Base]

convertType(bytes, Base) ==
    LET n[i \in 0 .. Len(bytes)] == IF i = 0 THEN 0 ELSE n[i - 1] * Base + bytes[i]
    IN  n[Len(bytes)]

(* bytes.Compare, by which bolt orders keys of equal length *)
KeyBefore(a, b) ==
    \E i \in DOMAIN a : a[i] < b[i] /\ \A j \in 1 .. i - 1 : a[j] = b[j]

-----------------------------------------------------------------------------
(* Buckets (bolt.go) *)

EmptyBucket == [k \in {} |-> 0]

Put(bucket, key, value) ==
    [k \in DOMAIN bucket \cup {key} |-> IF k = key THEN value ELSE bucket[k]]

(* Deleting a key that is not there is no error. *)
Delete(bucket, key) == [k \in DOMAIN bucket \ {key} |-> bucket[k]]

existsInGivenBucket(bucket, key) == key \in DOMAIN bucket

getFirstKey(bucket) == Min(DOMAIN bucket)

getLastKey(bucket) == Max(DOMAIN bucket)

(* The first n keys in their order, and the entries a cursor reads there. *)
firstKeys(bucket, n) == {k \in DOMAIN bucket : Cardinality({j \in DOMAIN bucket : j < k}) < n}

retrieveNKeyValuesFromFirst(bucket, n) == Restrict(bucket, firstKeys(bucket, n))

(* One transaction; an empty bucket is an error that changes nothing. *)
retrieveAndDeleteNKeysFromFirst(bucket, n) ==
    LET first == retrieveNKeyValuesFromFirst(bucket, n)
    IN  [values |-> Range(first),
         bucket |-> Restrict(bucket, DOMAIN bucket \ DOMAIN first)]

(* A value that is read is deleted in the same transaction. *)
getAndDelete(bucket, key) ==
    IF key \in DOMAIN bucket
    THEN [found |-> TRUE, value |-> bucket[key], bucket |-> Delete(bucket, key)]
    ELSE [found |-> FALSE, value |-> FALSE, bucket |-> bucket]

-----------------------------------------------------------------------------
(* The attestor's namespaces (db.go) *)

(* Completed sequence numbers, with the height where the chain has one     *)
(* (0: no value is stored).                                                *)
StoreBaseSeqNum(ns, k, v) == Put(ns, k, v)

StoreRetryPacket(ns, pkt) == Put(ns, pkt.sequence, pkt)

RetrieveAndDeleteNPackets(ns, n) == retrieveAndDeleteNKeysFromFirst(ns, n)

RemoveKey(ns, key) == Delete(ns, key)

(* 0 stands for the type's zero value GetFirstKey returns on an empty one. *)
GetFirstKey(ns) == IF ns = EmptyBucket THEN 0 ELSE getFirstKey(ns)

ExistInGivenNamespace(ns, key) == existsInGivenBucket(ns, key)

GetStartingSeqNumAndHeight(ns) ==
    IF ns = EmptyBucket THEN [seqNum |-> 0, height |-> 0]
    ELSE [seqNum |-> getLastKey(ns) + 1,
          height |-> IF ns[getLastKey(ns)] = 0 THEN 0 ELSE ns[getLastKey(ns)] + 1]

NoEntry == <<0, 0>>

(* Mutant of PruneBaseSeqNum: the loop deletes the key it has just read. *)
PruneDeletesRead(ns, n) ==
    LET keys  == firstKeys(ns, n)
        last  == Min({k \in keys : k + 1 \notin keys})
        after == {k \in keys : k > last}
    IN  [base        |-> IF keys = {} THEN NoEntry ELSE <<last, ns[last]>>,
         next        |-> IF after = {} THEN NoEntry ELSE <<Min(after), ns[Min(after)]>>,
         toDelete    |-> {k \in keys : Min(keys) < k /\ k <= last},
         shouldFetch |-> after # {}]

(* Mutant of PruneBaseSeqNum: the end of the run is deleted too. *)
PruneDeletesRun(ns, n) ==
    LET keys  == firstKeys(ns, n)
        last  == Min({k \in keys : k + 1 \notin keys})
        after == {k \in keys : k > last}
    IN  [base        |-> IF keys = {} THEN NoEntry ELSE <<last, ns[last]>>,
         next        |-> IF after = {} THEN NoEntry ELSE <<Min(after), ns[Min(after)]>>,
         toDelete    |-> {k \in keys : k <= last},
         shouldFetch |-> after # {}]

(* The loop follows the run of consecutive numbers that begins with the    *)
(* first of n keys.  All of the run but its end is deleted; base is its    *)
(* end and next the entry after it, if the loop came to a gap.             *)
PruneBaseSeqNum(ns, n) ==
    LET keys  == firstKeys(ns, n)
        last  == Min({k \in keys : k + 1 \notin keys})
        after == {k \in keys : k > last}
    IN  [base        |-> IF keys = {} THEN NoEntry ELSE <<last, ns[last]>>,
         next        |-> IF after = {} THEN NoEntry ELSE <<Min(after), ns[Min(after)]>>,
         toDelete    |-> {k \in keys : k < last},
         shouldFetch |-> after # {}]

(* The verdicts of address screening, kept for packets to be retried. *)
StoreWhiteStatus(ns, key, value) == Put(ns, key, value)

GetAndDeleteWhiteStatus(ns, key) == getAndDelete(ns, key)
=============================================================================
