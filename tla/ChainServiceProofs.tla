-------------------------- MODULE ChainServiceProofs --------------------------
(***************************************************************************)
(* Proofs about one attestor's chain service, for both clients, every list *)
(* of destinations, every number of workers, failures, crashes and packets *)
(* reported missed, and every height.                                      *)
(*                                                                         *)
(* The inductive invariant says of every place a packet can be in what the *)
(* packet is: emitted by the source chain, matured, delivered, and filed   *)
(* under its own number.  As long as there was no crash it also says that  *)
(* a packet is in one of these places; what the collector asked for does   *)
(* not count there, since nobody stores such a packet when it fails.       *)
(***************************************************************************)
EXTENDS ChainService, FiniteSetTheorems, WellFoundedInduction, TLAPS

Mature(p) == p.height + WaitHeight <= height

(* The packets that count when chain[i] is numbered. *)
Counted(i) == {j \in 1 .. i : Client = "aleo" => chain[j].dst = chain[i].dst}

ChainInv ==
    /\ height \in StartHeight .. MaxHeight
    /\ \A i \in DOMAIN chain : /\ chain[i].sequence = Cardinality(Counted(i))
                               /\ chain[i].height >= StartHeight
                               /\ chain[i].height <= height
    /\ \A i, j \in DOMAIN chain : i <= j => chain[i].height <= chain[j].height

DeliveredNumber(d, s) == \E p \in Emitted \cap collected : p.dst = d /\ p.sequence = s

DatabaseInv ==
    \A d \in Dest :
        /\ \A k \in DOMAIN baseSeqNum[d] :
              \E p \in Emitted \cap collected :
                 /\ p.dst = d /\ p.sequence = k /\ Mature(p)
                 /\ Client = "ethereum" => baseSeqNum[d][k] = p.height
        /\ \A k \in DOMAIN retryNS[d] :
              LET p == retryNS[d][k]
              IN  p \in Emitted /\ p.dst = d /\ p.sequence = k /\ Mature(p)

QueueInv ==
    \A f \in Feeder : \A p \in queue[f] : p \in Emitted /\ (f # "missed" => Mature(p))

WorkerInv ==
    \A w \in Workers :
        worker[w] # Idle => /\ worker[w].pkt \in Emitted
                            /\ ~worker[w].missed => Mature(worker[w].pkt)
                            /\ worker[w].stage = "done" => worker[w].pkt \in collected

WindowInv ==
    /\ feedLimit + WaitHeight <= height /\ windowEnd + WaitHeight <= height
    /\ Client = "ethereum" /\ windowEnd = 0 => queue["feed"] = {}

(* A key that prune is deleting has a completed key above it that stays,   *)
(* and every number between the two is delivered.                          *)
DeletionInv ==
    \A x \in toDelete :
        \E b \in DOMAIN baseSeqNum[x.dst] :
            /\ x.key < b /\ [dst |-> x.dst, key |-> b] \notin toDelete
            /\ \A s \in x.key .. b : DeliveredNumber(x.dst, s)

(* The attestor holds p on its own account. *)
Held(p) ==
    \/ \E f \in Feeder \ {"missed"} : p \in queue[f]
    \/ \E w \in Workers : worker[w] # Idle /\ ~worker[w].missed /\ worker[w].pkt = p

Kept(p) ==
    \/ p \in collected \/ Held(p) \/ ToBeFed(p) \/ InGap(p)
    \/ p.sequence \in DOMAIN retryNS[p.dst]

(* The number of the packet that the source chain emits next to d. *)
NextTo(d) == NextSequence([i \in DOMAIN chain |-> chain[i].dst], d)

(* The feed has not passed what the source chain emits next. *)
FeedNotAhead ==
    IF Client = "ethereum" THEN feedPos <= height
    ELSE \A d \in Dest : feedPos[d] <= NextTo(d)

KeptInv == crashes = 0 => FeedNotAhead /\ \A p \in Emitted : Kept(p)

ChainServiceInv ==
    /\ TypeOK /\ ChainInv /\ DatabaseInv
    /\ QueueInv /\ WorkerInv /\ WindowInv /\ DeletionInv /\ KeptInv

-----------------------------------------------------------------------------
(* Least and greatest numbers. *)

(* A set of naturals that is not empty has a least element, and Min is it. *)
LEMMA MinIsLeast ==
    ASSUME NEW S, S \subseteq Nat, S # {}
    PROVE  Min(S) \in S /\ \A y \in S : Min(S) <= y
  <1> DEFINE Less == OpToRel(<, Nat)
  <1>1. IsWellFoundedOn(Less, Nat)
    BY NatLessThanWellFounded
  <1>2. \A a, b \in Nat : <<a, b>> \in Less <=> a < b
    BY DEF OpToRel
  <1> HIDE DEF Less
  <1>3. PICK x \in S : \A y \in S : <<y, x>> \notin Less
    BY <1>1, WFMin
  <1>4. \A y \in S : x <= y
    <2> TAKE y \in S
    <2>1. x \in Nat /\ y \in Nat /\ ~(y < x)
      BY <1>2, <1>3
    <2> QED
      BY <2>1
  <1> QED
    BY <1>4 DEF Min

(* A bounded set of naturals that is not empty has a greatest element, and *)
(* Max is it.                                                              *)
LEMMA MaxIsGreatest ==
    ASSUME NEW S, S \subseteq Nat, S # {}, NEW B \in Nat, \A y \in S : y <= B
    PROVE  Max(S) \in S /\ \A y \in S : y <= Max(S)
  <1> DEFINE T == {B - y : y \in S}
  <1>1. T \subseteq Nat /\ T # {}
    <2>1. \A y \in S : B - y \in Nat
      OBVIOUS
    <2>2. PICK y \in S : TRUE
      OBVIOUS
    <2> QED
      BY <2>1, <2>2
  <1>2. PICK m \in T : \A t \in T : m <= t
    <2> HIDE DEF T
    <2> QED
      BY <1>1, MinIsLeast
  <1>3. PICK x \in S : m = B - x
    BY <1>2
  <1>4. \A y \in S : x >= y
    <2> TAKE y \in S
    <2>1. B - y \in T
      OBVIOUS
    <2>2. B - x <= B - y /\ x \in Nat /\ y \in Nat
      BY <1>2, <1>3, <2>1
    <2> QED
      BY <2>2
  <1>5. Max(S) \in S /\ \A y \in S : Max(S) >= y
    BY <1>4 DEF Max
  <1> QED
    BY <1>5

LEMMA MinOfTwo ==
    ASSUME NEW a \in Nat, NEW b \in Nat
    PROVE  /\ Min({a, b}) \in Nat /\ Min({a, b}) <= a /\ Min({a, b}) <= b
           /\ Min({a, b}) = a \/ Min({a, b}) = b
  <1>1. Min({a, b}) \in {a, b} /\ \A y \in {a, b} : Min({a, b}) <= y
    BY MinIsLeast
  <1> QED
    BY <1>1

LEMMA MaxOfTwo ==
    ASSUME NEW a \in Nat, NEW b \in Nat
    PROVE  /\ Max({a, b}) \in Nat /\ a <= Max({a, b}) /\ b <= Max({a, b})
           /\ Max({a, b}) = a \/ Max({a, b}) = b
  <1>1. Max({a, b}) \in {a, b} /\ \A y \in {a, b} : y <= Max({a, b})
    BY MaxIsGreatest, a + b \in Nat, \A y \in {a, b} : y <= a + b
  <1> QED
    BY <1>1

LEMMA SmallModulo ==
    ASSUME NEW a \in Nat, NEW b \in Nat, a < b
    PROVE  a % b = a
  OBVIOUS

LEMMA RotateType ==
    ASSUME NEW i \in DOMAIN DestChains
    PROVE  Rotate(i) \in DOMAIN DestChains
  <1>1. Len(DestChains) \in Nat \ {0} /\ DOMAIN DestChains = 1 .. Len(DestChains)
    BY ChainServiceAssumption
  <1>2. i % Len(DestChains) \in 0 .. Len(DestChains) - 1
    BY <1>1
  <1> QED
    BY <1>1, <1>2 DEF Rotate

-----------------------------------------------------------------------------
(* The numbers the source chain gives its packets. *)

LEMMA EmittedType ==
    ASSUME TypeOK, NEW p \in Emitted
    PROVE  p \in PacketType /\ p.dst \in Dest /\ p.sequence \in Nat /\ p.height \in Nat
  <1>1. chain \in Seq(PacketType)
    BY DEF TypeOK
  <1>2. PICK i \in DOMAIN chain : p = chain[i]
    BY DEF Emitted
  <1>3. p \in PacketType
    BY <1>1, <1>2
  <1> QED
    BY <1>3 DEF PacketType

LEMMA CountedFinite ==
    ASSUME NEW i \in Nat
    PROVE  IsFiniteSet(Counted(i)) /\ Cardinality(Counted(i)) \in 0 .. i
  <1>1. IsFiniteSet(1 .. i) /\ Cardinality(1 .. i) = i
    BY FS_Interval
  <1>2. Counted(i) \subseteq 1 .. i
    BY DEF Counted
  <1> QED
    BY <1>1, <1>2, FS_Subset, FS_CardinalityType

(* A later packet that counts the same destinations has a greater number. *)
LEMMA NumbersGrow ==
    ASSUME TypeOK, ChainInv, NEW i \in DOMAIN chain, NEW j \in DOMAIN chain, i < j,
           Client = "aleo" => chain[i].dst = chain[j].dst
    PROVE  chain[i].sequence < chain[j].sequence
  <1>1. i \in Nat /\ j \in Nat /\ i > 0
    BY DEF TypeOK
  <1>2. Counted(i) \subseteq Counted(j) /\ j \in Counted(j) /\ j \notin Counted(i)
    BY <1>1 DEF Counted
  <1>3. Cardinality(Counted(i)) <= Cardinality(Counted(j))
        /\ Cardinality(Counted(i)) # Cardinality(Counted(j))
    BY <1>1, <1>2, CountedFinite, FS_Subset
  <1> QED
    BY <1>1, <1>3, CountedFinite DEF ChainInv

LEMMA NumberPositive ==
    ASSUME TypeOK, ChainInv, NEW i \in DOMAIN chain
    PROVE  chain[i].sequence \in 1 .. Len(chain)
  <1>1. i \in 1 .. Len(chain) /\ Len(chain) \in Nat /\ i \in Counted(i)
    BY DEF TypeOK, Counted
  <1>2. Cardinality(Counted(i)) \in 0 .. i /\ Cardinality(Counted(i)) # 0
    BY <1>1, CountedFinite, FS_EmptySet
  <1> QED
    BY <1>1, <1>2 DEF ChainInv

(* A destination and a number name one packet. *)
LEMMA NumberUnique ==
    ASSUME TypeOK, ChainInv, NEW p \in Emitted, NEW q \in Emitted,
           p.dst = q.dst, p.sequence = q.sequence
    PROVE  p = q
  <1>1. PICK i \in DOMAIN chain : p = chain[i]
    BY DEF Emitted
  <1>2. PICK j \in DOMAIN chain : q = chain[j]
    BY DEF Emitted
  <1>3. i \in Nat /\ j \in Nat /\ p.sequence \in Nat /\ q.sequence \in Nat
    BY EmittedType DEF TypeOK
  <1>4. ~(i < j) /\ ~(j < i)
    BY <1>1, <1>2, <1>3, NumbersGrow
  <1> QED
    BY <1>1, <1>2, <1>3, <1>4

(* The packet with the smaller number was not emitted later. *)
LEMMA NumbersFollowHeights ==
    ASSUME TypeOK, ChainInv, NEW p \in Emitted, NEW q \in Emitted,
           p.dst = q.dst, p.sequence <= q.sequence
    PROVE  p.height <= q.height
  <1>1. PICK i \in DOMAIN chain : p = chain[i]
    BY DEF Emitted
  <1>2. PICK j \in DOMAIN chain : q = chain[j]
    BY DEF Emitted
  <1>3. i \in Nat /\ j \in Nat /\ p.sequence \in Nat /\ q.sequence \in Nat
    BY EmittedType DEF TypeOK
  <1>4. ~(j < i)
    BY <1>1, <1>2, <1>3, NumbersGrow
  <1> QED
    BY <1>1, <1>2, <1>3, <1>4 DEF ChainInv

LEMMA EmittedHeight ==
    ASSUME TypeOK, ChainInv, NEW p \in Emitted
    PROVE  /\ p.height >= StartHeight /\ p.height <= height /\ p.height > 0
           /\ p.sequence \in 1 .. Len(chain)
  BY NumberPositive, EmittedType, ChainServiceAssumption DEF ChainInv, Emitted

(* What counts before the next packet to d. *)
ForDest(d) == {i \in 1 .. Len(chain) : Client = "aleo" => chain[i].dst = d}

LEMMA NextNumber ==
    ASSUME TypeOK, NEW d \in Dest
    PROVE  /\ NextTo(d) = 1 + Cardinality(ForDest(d))
           /\ IsFiniteSet(ForDest(d)) /\ Cardinality(ForDest(d)) \in Nat
  <1>1. DOMAIN chain = 1 .. Len(chain) /\ Len(chain) \in Nat
    BY DEF TypeOK
  <1>2. IsFiniteSet(ForDest(d)) /\ Cardinality(ForDest(d)) \in Nat
    <2>1. IsFiniteSet(1 .. Len(chain))
      BY <1>1, FS_Interval
    <2> QED
      BY <2>1, FS_Subset, FS_CardinalityType DEF ForDest
  <1>3. {i \in DOMAIN [i \in DOMAIN chain |-> chain[i].dst] :
            Client = "aleo" => [j \in DOMAIN chain |-> chain[j].dst][i] = d} = ForDest(d)
    BY <1>1 DEF ForDest
  <1> QED
    BY <1>2, <1>3 DEF NextTo, NextSequence

(* No packet to d has the next number or a greater one. *)
LEMMA NumbersBelowNext ==
    ASSUME TypeOK, ChainInv, NEW p \in Emitted
    PROVE  p.sequence < NextTo(p.dst)
  <1>1. PICK i \in DOMAIN chain : p = chain[i]
    BY DEF Emitted
  <1>2. i \in 1 .. Len(chain) /\ Len(chain) \in Nat /\ i \in Nat
    BY DEF TypeOK
  <1>3. Counted(i) \subseteq ForDest(p.dst)
    BY <1>1, <1>2 DEF Counted, ForDest
  <1>4. p.dst \in Dest
    BY EmittedType
  <1>5. Cardinality(Counted(i)) <= Cardinality(ForDest(p.dst)) /\ Cardinality(Counted(i)) \in Nat
    <2>1. IsFiniteSet(ForDest(p.dst))
      BY <1>4, NextNumber
    <2>2. Cardinality(Counted(i)) \in Nat
      BY <1>2, CountedFinite
    <2> QED
      BY <1>3, <2>1, <2>2, FS_Subset
  <1>6. p.sequence = Cardinality(Counted(i))
    BY <1>1 DEF ChainInv
  <1> QED
    BY <1>4, <1>5, <1>6, NextNumber

-----------------------------------------------------------------------------
(* The operators of the database. *)

(* A bucket as the attestor's namespaces are: numbers for keys. *)
IsBucket(ns, V) == DOMAIN ns \subseteq Nat /\ ns \in [DOMAIN ns -> V]

LEMMA BucketsType ==
    ASSUME TypeOK
    PROVE  \A d \in Dest : IsBucket(baseSeqNum[d], Nat) /\ IsBucket(retryNS[d], PacketType)
  BY DEF TypeOK, IsBucket

LEMMA LastKey ==
    ASSUME NEW ns, DOMAIN ns \subseteq Nat, DOMAIN ns # {}, NEW B \in Nat, \A k \in DOMAIN ns : k <= B
    PROVE  getLastKey(ns) \in DOMAIN ns /\ \A k \in DOMAIN ns : k <= getLastKey(ns)
  BY MaxIsGreatest DEF getLastKey

LEMMA EmptyDomain ==
    ASSUME NEW ns, ns # EmptyBucket, ns = [k \in DOMAIN ns |-> ns[k]]
    PROVE  DOMAIN ns # {}
  BY DEF EmptyBucket

(* What retryFeed takes and what it leaves are the bucket's own entries. *)
LEMMA BatchTaken ==
    ASSUME NEW ns, NEW n
    PROVE  LET batch == RetrieveAndDeleteNPackets(ns, n)
           IN  /\ DOMAIN batch.bucket \subseteq DOMAIN ns
               /\ \A k \in DOMAIN batch.bucket : batch.bucket[k] = ns[k]
               /\ batch.bucket = [k \in DOMAIN batch.bucket |-> batch.bucket[k]]
               /\ \A v \in batch.values : \E k \in DOMAIN ns : v = ns[k]
               /\ \A k \in DOMAIN ns \ DOMAIN batch.bucket : ns[k] \in batch.values
  <1> DEFINE first == retrieveNKeyValuesFromFirst(ns, n)
  <1>1. DOMAIN first \subseteq DOMAIN ns /\ \A k \in DOMAIN first : first[k] = ns[k]
    BY DEF retrieveNKeyValuesFromFirst, firstKeys, Restrict
  <1> HIDE DEF first
  <1>2. RetrieveAndDeleteNPackets(ns, n)
          = [values |-> Range(first), bucket |-> Restrict(ns, DOMAIN ns \ DOMAIN first)]
    BY DEF RetrieveAndDeleteNPackets, retrieveAndDeleteNKeysFromFirst, first
  <1> QED
    BY <1>1, <1>2 DEF Range, Restrict

(* base and next of a gap are entries of the bucket; what is deleted lies  *)
(* in one run of keys below a key that stays.                              *)
LEMMA PruneResult ==
    ASSUME NEW ns, DOMAIN ns \subseteq Nat, NEW B \in Nat, \A k \in DOMAIN ns : k <= B, NEW n
    PROVE  LET r == PruneBaseSeqNum(ns, n)
           IN  /\ r.toDelete \subseteq DOMAIN ns
               /\ r.shouldFetch => \E k, l \in DOMAIN ns : r.base = <<k, ns[k]>> /\ r.next = <<l, ns[l]>>
               /\ \A x \in r.toDelete :
                     \E b \in DOMAIN ns \ r.toDelete : x < b /\ x .. b \subseteq DOMAIN ns
  <1> DEFINE keys  == firstKeys(ns, n)
             ends  == {k \in keys : k + 1 \notin keys}
             last  == Min(ends)
             after == {k \in keys : k > last}
             r     == PruneBaseSeqNum(ns, n)
  <1>1. keys \subseteq DOMAIN ns /\ keys \subseteq Nat
    BY DEF firstKeys
  <1>2. /\ r.base = IF keys = {} THEN NoEntry ELSE <<last, ns[last]>>
        /\ r.next = IF after = {} THEN NoEntry ELSE <<Min(after), ns[Min(after)]>>
        /\ r.toDelete = {k \in keys : k < last}
        /\ r.shouldFetch <=> after # {}
    BY DEF PruneBaseSeqNum
  <1> HIDE DEF r, keys
  <1>3. CASE keys = {}
    BY <1>2, <1>3 DEF r
  <1>4. CASE keys # {}
    <2>1. Max(keys) \in ends
      <3>1. Max(keys) \in keys /\ \A y \in keys : y <= Max(keys)
        <4>1. \A y \in keys : y <= B
          BY <1>1
        <4> QED
          BY <1>1, <1>4, <4>1, MaxIsGreatest
      <3>2. Max(keys) + 1 \notin keys
        BY <1>1, <3>1
      <3> QED
        BY <3>1, <3>2
    <2>2. ends \subseteq keys /\ \A k \in keys \ ends : k + 1 \in keys
      OBVIOUS
    <2> HIDE DEF ends
    <2>3. last \in ends /\ \A y \in ends : last <= y
      BY <1>1, <2>1, <2>2, MinIsLeast
    <2> HIDE DEF last
    <2>4. last \in keys /\ last \in Nat /\ last \in DOMAIN ns
      BY <1>1, <2>2, <2>3
    \* Below the end of the run no key is the last of a run.
    <2>5. ASSUME NEW x \in keys, x < last
          PROVE  x .. last \subseteq keys
      <3> DEFINE gone == {j \in x .. last : j \notin keys}
      <3> SUFFICES ASSUME gone # {}
                   PROVE  FALSE
        OBVIOUS
      <3>1. gone \subseteq Nat /\ x \in Nat
        BY <1>1, <2>4
      <3> HIDE DEF gone
      <3>2. Min(gone) \in gone /\ \A y \in gone : Min(gone) <= y
        BY <3>1, MinIsLeast
      <3>3. PICK m \in gone : \A y \in gone : m <= y
        BY <3>2
      <3>4. m \in x .. last /\ m \notin keys /\ m \in Nat /\ m # x
        BY <3>1, <3>3 DEF gone
      <3>5. m - 1 \in x .. last /\ m - 1 < last /\ (m - 1) + 1 = m
        BY <2>4, <3>1, <3>4
      <3>6. m - 1 \notin gone
        BY <3>1, <3>3, <3>4
      <3>7. m - 1 \in keys
        BY <3>5, <3>6 DEF gone
      <3>8. m - 1 \in ends
        BY <2>2, <3>4, <3>5, <3>7
      <3> QED
        BY <2>3, <2>4, <3>4, <3>5, <3>8
    <2>6. after # {} => Min(after) \in DOMAIN ns
      <3>1. after \subseteq keys
        OBVIOUS
      <3> HIDE DEF after
      <3> QED
        BY <1>1, <3>1, MinIsLeast
    <2>7. r.toDelete \subseteq DOMAIN ns
      BY <1>1, <1>2
    <2>8. r.shouldFetch => \E k, l \in DOMAIN ns : r.base = <<k, ns[k]>> /\ r.next = <<l, ns[l]>>
      <3> HIDE DEF after
      <3> QED
        BY <1>2, <1>4, <2>4, <2>6
    <2>9. ASSUME NEW x \in r.toDelete
          PROVE  \E b \in DOMAIN ns \ r.toDelete : x < b /\ x .. b \subseteq DOMAIN ns
      <3>1. x \in keys /\ x < last /\ last \notin r.toDelete
        BY <1>2, <2>4
      <3>2. x .. last \subseteq DOMAIN ns
        BY <1>1, <2>5, <3>1
      <3> QED
        BY <2>4, <3>1, <3>2
    <2> QED
      BY <2>7, <2>8, <2>9 DEF r
  <1> QED
    BY <1>3, <1>4

-----------------------------------------------------------------------------
(* Each part of the invariant survives a step in which the source chain    *)
(* and the collector's packets only grow and its own state does not change. *)
Grows ==
    /\ Emitted \subseteq Emitted' /\ collected \subseteq collected'
    /\ height <= height' /\ height' \in Nat

LEMMA MatureStays ==
    ASSUME TypeOK, Grows, NEW p \in Emitted, Mature(p)
    PROVE  p.height + WaitHeight <= height'
  BY EmittedType, ChainServiceAssumption DEF Mature, Grows, TypeOK

LEMMA DatabaseKept ==
    ASSUME TypeOK, DatabaseInv, Grows, UNCHANGED database
    PROVE  DatabaseInv'
  <1> SUFFICES ASSUME NEW d \in Dest
               PROVE  /\ \A k \in DOMAIN baseSeqNum[d] :
                            \E p \in Emitted' \cap collected' :
                               /\ p.dst = d /\ p.sequence = k /\ p.height + WaitHeight <= height'
                               /\ Client = "ethereum" => baseSeqNum[d][k] = p.height
                      /\ \A k \in DOMAIN retryNS[d] :
                            \E p \in Emitted' :
                               /\ p = retryNS[d][k] /\ p.dst = d /\ p.sequence = k
                               /\ p.height + WaitHeight <= height'
    BY DEF DatabaseInv, database, Mature
  <1>1. ASSUME NEW k \in DOMAIN baseSeqNum[d]
        PROVE  \E p \in Emitted' \cap collected' :
                  /\ p.dst = d /\ p.sequence = k /\ p.height + WaitHeight <= height'
                  /\ Client = "ethereum" => baseSeqNum[d][k] = p.height
    <2>1. PICK p \in Emitted \cap collected :
              /\ p.dst = d /\ p.sequence = k /\ Mature(p)
              /\ Client = "ethereum" => baseSeqNum[d][k] = p.height
      BY <1>1 DEF DatabaseInv
    <2>2. p.height + WaitHeight <= height' /\ p \in Emitted' \cap collected'
      BY <2>1, MatureStays DEF Grows
    <2> QED
      BY <2>1, <2>2
  <1>2. ASSUME NEW k \in DOMAIN retryNS[d]
        PROVE  \E p \in Emitted' : /\ p = retryNS[d][k] /\ p.dst = d /\ p.sequence = k
                                   /\ p.height + WaitHeight <= height'
    <2>1. PICK p \in Emitted : p = retryNS[d][k] /\ p.dst = d /\ p.sequence = k /\ Mature(p)
      BY <1>2 DEF DatabaseInv
    <2>2. p.height + WaitHeight <= height' /\ p \in Emitted'
      BY <2>1, MatureStays DEF Grows
    <2> QED
      BY <2>1, <2>2
  <1> QED
    BY <1>1, <1>2

(* A queue may lose packets, and gain packets of the right kind. *)
LEMMA QueueKept ==
    ASSUME TypeOK, QueueInv, Grows,
           \A f \in Feeder : \A p \in queue'[f] :
               p \in queue[f] \/ (p \in Emitted /\ (f # "missed" => Mature(p)))
    PROVE  QueueInv'
  <1> SUFFICES ASSUME NEW f \in Feeder, NEW p \in queue'[f]
               PROVE  p \in Emitted' /\ (f # "missed" => p.height + WaitHeight <= height')
    BY DEF QueueInv, Mature
  <1>1. p \in Emitted /\ (f # "missed" => Mature(p))
    BY DEF QueueInv
  <1> QED
    BY <1>1, MatureStays DEF Grows

(* What the invariant says of one worker. *)
WorkerSound(x) ==
    \E p \in Emitted : /\ x.pkt = p /\ (~x.missed => Mature(p))
                       /\ x.stage = "done" => p \in collected

LEMMA WorkersSound ==
    WorkerInv <=> \A w \in Workers : worker[w] # Idle => WorkerSound(worker[w])
  BY DEF WorkerInv, WorkerSound

WorkerSoundNext(x) ==
    \E p \in Emitted' : /\ x.pkt = p /\ (~x.missed => p.height + WaitHeight <= height')
                        /\ x.stage = "done" => p \in collected'

LEMMA SoundStays ==
    ASSUME TypeOK, Grows, NEW x, WorkerSound(x)
    PROVE  WorkerSoundNext(x)
  <1>1. PICK p \in Emitted : /\ x.pkt = p /\ (~x.missed => Mature(p))
                             /\ x.stage = "done" => p \in collected
    BY DEF WorkerSound
  <1>2. p \in Emitted' /\ (~x.missed => p.height + WaitHeight <= height')
    BY <1>1, MatureStays DEF Grows
  <1> QED
    BY <1>1, <1>2 DEF Grows, WorkerSoundNext

LEMMA WorkerKept ==
    ASSUME TypeOK, WorkerInv, Grows,
           \A w \in Workers : worker'[w] = Idle \/ WorkerSound(worker'[w]) \/ worker'[w] = worker[w]
    PROVE  WorkerInv'
  <1> SUFFICES ASSUME NEW w \in Workers, worker'[w] # Idle
               PROVE  WorkerSoundNext(worker'[w])
    BY DEF WorkerInv, Mature, WorkerSoundNext
  <1>1. PICK x : x = worker'[w]
    OBVIOUS
  <1>2. WorkerSound(x)
    BY <1>1, WorkersSound
  <1>3. WorkerSoundNext(x)
    BY <1>2, SoundStays
  <1> QED
    BY <1>1, <1>3

LEMMA WindowKept ==
    ASSUME TypeOK, WindowInv, Grows, UNCHANGED <<feedLimit, windowEnd>>, queue'["feed"] \subseteq queue["feed"]
    PROVE  WindowInv'
  <1>1. /\ feedLimit \in Nat /\ windowEnd \in Nat /\ height \in Nat /\ WaitHeight \in Nat
        /\ height' \in Nat /\ height <= height'
    BY ChainServiceAssumption DEF TypeOK, Grows
  <1> QED
    BY <1>1 DEF WindowInv

LEMMA DeliveredStays ==
    ASSUME Grows, NEW d, NEW s, DeliveredNumber(d, s)
    PROVE  DeliveredNumber(d, s)'
  BY DEF DeliveredNumber, Grows

LEMMA DeletionKept ==
    ASSUME TypeOK, DeletionInv, Grows, UNCHANGED toDelete,
           \A d \in Dest : DOMAIN baseSeqNum[d] \subseteq DOMAIN baseSeqNum'[d]
    PROVE  DeletionInv'
  <1> SUFFICES ASSUME NEW x \in toDelete
               PROVE  \E b \in DOMAIN baseSeqNum'[x.dst] :
                         /\ x.key < b /\ [dst |-> x.dst, key |-> b] \notin toDelete
                         /\ \A s \in x.key .. b : DeliveredNumber(x.dst, s)'
    BY DEF DeletionInv
  <1>1. PICK b \in DOMAIN baseSeqNum[x.dst] :
            /\ x.key < b /\ [dst |-> x.dst, key |-> b] \notin toDelete
            /\ \A s \in x.key .. b : DeliveredNumber(x.dst, s)
    BY DEF DeletionInv
  <1>2. x.dst \in Dest
    BY DEF TypeOK
  <1>3. b \in DOMAIN baseSeqNum'[x.dst] /\ \A s \in x.key .. b : DeliveredNumber(x.dst, s)'
    BY <1>1, <1>2, DeliveredStays
  <1> QED
    BY <1>1, <1>3

(* What is kept stays kept if what is held stays kept. *)
LEMMA PacketKept ==
    ASSUME NEW p, Kept(p), collected \subseteq collected', Held(p) => Kept(p)',
           UNCHANGED <<feedPos, windowEnd, database>>
    PROVE  Kept(p)'
  BY DEF Kept, ToBeFed, InGap, database

LEMMA FeedStaysBehind ==
    ASSUME FeedNotAhead, UNCHANGED <<external, feedPos>>
    PROVE  FeedNotAhead'
  BY DEF FeedNotAhead, NextTo, external

LEMMA ExternalKept ==
    ASSUME TypeOK, ChainInv, UNCHANGED external, collected \subseteq collected'
    PROVE  ChainInv' /\ Grows
  <1>1. UNCHANGED <<chain, height>>
    BY DEF external
  <1> QED
    <2>1. Emitted' = Emitted /\ \A i \in DOMAIN chain : Counted(i)' = Counted(i)
      BY <1>1 DEF Emitted, Counted
    <2>2. ChainInv'
      BY <1>1, <2>1 DEF ChainInv
    <2>3. height \in Nat /\ height <= height
      BY DEF TypeOK
    <2> QED
      BY <1>1, <2>1, <2>2, <2>3 DEF Grows

-----------------------------------------------------------------------------
(* The source chain: a new packet and a new block. *)

LEMMA EmitChain ==
    ASSUME TypeOK, ChainInv, NEW d \in Dest, Emit(d)
    PROVE  /\ ChainInv' /\ Grows /\ chain' \in Seq(PacketType)
           /\ \A p \in Emitted' \ Emitted :
                 /\ p.dst = d /\ p.height = height
                 /\ p.sequence = NextTo(d)
           /\ \A e \in Dest : NextTo(e) <= NextTo(e)' /\ NextTo(e) \in Nat /\ NextTo(e)' \in Nat
  <1>0. PICK n \in Nat : n = Len(chain)
    BY DEF TypeOK
  <1> DEFINE number == NextTo(d)
             new == [dst |-> d, height |-> height, sequence |-> number]
  <1>1. /\ chain \in Seq(PacketType) /\ Len(chain) = n /\ height \in Nat
        /\ number \in Nat /\ number = 1 + Cardinality(ForDest(d))
    BY <1>0, NextNumber DEF TypeOK
  <1>2. chain' = Append(chain, new) /\ height' = height /\ collected' = collected
    BY DEF Emit, NextTo
  <1>3. new \in PacketType
    BY <1>1 DEF PacketType
  <1> HIDE DEF number, new
  <1>4. /\ chain' \in Seq(PacketType) /\ Len(chain') = n + 1
        /\ chain'[n + 1] = new /\ \A i \in 1 .. n : chain'[i] = chain[i]
        /\ DOMAIN chain = 1 .. n /\ DOMAIN chain' = 1 .. n + 1
    BY <1>1, <1>2, <1>3
  <1>5. Emitted' = Emitted \cup {new}
    BY <1>1, <1>4 DEF Emitted
  <1>6. new.dst = d /\ new.height = height /\ new.sequence = number
    BY DEF new
  <1>7. \A i \in 1 .. n : Counted(i)' = Counted(i)
    <2> TAKE i \in 1 .. n
    <2>1. \A j \in 1 .. i : j \in 1 .. n
      BY <1>1
    <2> QED
      BY <1>4, <2>1 DEF Counted
  <1>8. Counted(n + 1)' = ForDest(d) \cup {n + 1}
    <2>1. 1 .. n + 1 = (1 .. n) \cup {n + 1} /\ n + 1 \notin 1 .. n
      BY <1>1
    <2>2. Counted(n + 1)' = {j \in 1 .. n + 1 : Client = "aleo" => chain'[j].dst = d}
      BY <1>4, <1>6 DEF Counted
    <2> QED
      BY <1>4, <1>6, <2>1, <2>2 DEF ForDest
  <1>9. Cardinality(Counted(n + 1)') = number
    <2>1. IsFiniteSet(ForDest(d)) /\ Cardinality(ForDest(d)) \in Nat
      BY NextNumber
    <2>3. n + 1 \notin ForDest(d)
      BY <1>1 DEF ForDest
    <2>2. Cardinality(ForDest(d) \cup {n + 1}) = Cardinality(ForDest(d)) + 1
      BY <2>1, <2>3, FS_AddElement
    <2>4. Cardinality(Counted(n + 1)') = Cardinality(ForDest(d) \cup {n + 1})
      BY <1>8
    <2> QED
      BY <1>1, <2>1, <2>2, <2>4
  <1>10. ChainInv'
    <2>1. height' \in StartHeight .. MaxHeight
      BY <1>2 DEF ChainInv
    <2>2. ASSUME NEW i \in 1 .. n + 1
          PROVE  /\ chain'[i].sequence = Cardinality(Counted(i)')
                 /\ chain'[i].height >= StartHeight /\ chain'[i].height <= height'
      <3>1. CASE i \in 1 .. n
        BY <1>2, <1>4, <1>7, <3>1 DEF ChainInv
      <3>2. CASE i = n + 1
        BY <1>1, <1>2, <1>4, <1>6, <1>9, <3>2, ChainServiceAssumption DEF ChainInv
      <3> QED
        BY <1>1, <2>2, <3>1, <3>2
    <2>3. ASSUME NEW i \in 1 .. n + 1, NEW j \in 1 .. n + 1, i <= j
          PROVE  chain'[i].height <= chain'[j].height
      <3>1. CASE j \in 1 .. n
        <4>1. i \in 1 .. n
          BY <1>1, <2>3, <3>1
        <4> QED
          BY <1>4, <2>3, <3>1, <4>1 DEF ChainInv
      <3>2. CASE j = n + 1
        BY <1>2, <1>4, <1>6, <2>2, <3>2
      <3> QED
        BY <1>1, <2>3, <3>1, <3>2
    <2> QED
      BY <1>4, <2>1, <2>2, <2>3 DEF ChainInv
  <1>11. Grows
    BY <1>1, <1>2, <1>5 DEF Grows
  <1>12. ASSUME NEW e \in Dest
         PROVE  NextTo(e) <= NextTo(e)' /\ NextTo(e) \in Nat /\ NextTo(e)' \in Nat
    <2>1. ForDest(e) \subseteq ForDest(e)'
      BY <1>1, <1>4 DEF ForDest
    <2>2. IsFiniteSet(ForDest(e)')
      <3>1. IsFiniteSet(1 .. n + 1)
        BY <1>1, FS_Interval
      <3> QED
        BY <1>4, <3>1, FS_Subset DEF ForDest
    <2>3. /\ Cardinality(ForDest(e)) <= Cardinality(ForDest(e)')
          /\ Cardinality(ForDest(e)) \in Nat /\ Cardinality(ForDest(e)') \in Nat
      BY <2>1, <2>2, FS_Subset, FS_CardinalityType
    <2>4. {i \in DOMAIN [i \in DOMAIN chain' |-> chain'[i].dst] :
               Client = "aleo" => [j \in DOMAIN chain' |-> chain'[j].dst][i] = e} = ForDest(e)'
      BY <1>4 DEF ForDest
    <2>5. NextTo(e)' = 1 + Cardinality(ForDest(e)')
      BY <2>4 DEF NextTo, NextSequence
    <2> QED
      BY <2>3, <2>5, NextNumber
  <1> QED
    BY <1>4, <1>5, <1>6, <1>10, <1>11, <1>12 DEF number

LEMMA EmitStep ==
    ASSUME ChainServiceInv, NEW d \in Dest, Emit(d)
    PROVE  ChainServiceInv'
  <1> USE DEF ChainServiceInv
  <1>1. /\ UNCHANGED <<height, collected, database, feed, queue, retryIndex, pruneIndex,
                        toDelete, worker, counters>>
    BY DEF Emit
  <1>2. /\ ChainInv' /\ Grows /\ chain' \in Seq(PacketType)
        /\ \A p \in Emitted' \ Emitted :
              /\ p.dst = d /\ p.height = height
              /\ p.sequence = NextTo(d)
        /\ \A e \in Dest : NextTo(e) <= NextTo(e)' /\ NextTo(e) \in Nat /\ NextTo(e)' \in Nat
    BY EmitChain
  <1>3. TypeOK'
    BY <1>1, <1>2 DEF TypeOK, database, feed, counters
  <1>4. DatabaseInv' /\ QueueInv' /\ WorkerInv' /\ WindowInv' /\ DeletionInv'
    <2>1. DatabaseInv'
      BY <1>1, <1>2, DatabaseKept
    <2>2. QueueInv'
      BY <1>1, <1>2, QueueKept
    <2>3. WorkerInv'
      BY <1>1, <1>2, WorkerKept
    <2>4. WindowInv'
      BY <1>1, <1>2, WindowKept DEF feed
    <2>5. DeletionInv'
      BY <1>1, <1>2, DeletionKept DEF database
    <2> QED
      BY <2>1, <2>2, <2>3, <2>4, <2>5
  <1>5. ASSUME crashes = 0
        PROVE  FeedNotAhead' /\ \A p \in Emitted' : Kept(p)'
    <2>1. FeedNotAhead /\ \A p \in Emitted : Kept(p)
      BY <1>5 DEF KeptInv
    <2>2. FeedNotAhead'
      <3>1. CASE Client = "ethereum"
        BY <1>1, <2>1, <3>1 DEF FeedNotAhead, feed
      <3>2. CASE Client # "ethereum"
        <4> SUFFICES ASSUME NEW e \in Dest
                     PROVE  feedPos[e] <= NextTo(e)'
          BY <1>1, <3>2 DEF FeedNotAhead, feed
        <4>1. feedPos[e] <= NextTo(e)
          BY <2>1, <3>2 DEF FeedNotAhead
        <4>2. feedPos[e] \in Nat
          BY <3>2 DEF TypeOK
        <4> QED
          BY <1>2, <4>1, <4>2
      <3> QED
        BY <3>1, <3>2
    <2>3. ASSUME NEW p \in Emitted
          PROVE  Kept(p)'
      BY <1>1, <2>1, PacketKept DEF Held, Kept, feed
    <2>4. ASSUME NEW p \in Emitted' \ Emitted
          PROVE  ToBeFed(p)'
      <3>1. CASE Client = "ethereum"
        <4>1. windowEnd + WaitHeight <= height /\ WaitHeight > 0 /\ WaitHeight \in Nat
          BY <3>1, ChainServiceAssumption DEF WindowInv
        <4>2. windowEnd \in Nat /\ height \in Nat /\ feedPos \in Nat /\ feedPos <= height
          BY <2>1, <3>1 DEF TypeOK, FeedNotAhead
        <4>3. p.height = height
          BY <1>2
        <4> QED
          BY <1>1, <3>1, <4>1, <4>2, <4>3 DEF ToBeFed, feed
      <3>2. CASE Client # "ethereum"
        <4>1. p.dst = d /\ p.sequence = NextTo(d)
          BY <1>2
        <4>2. feedPos[d] <= p.sequence /\ feedPos[d] \in Nat /\ p.sequence \in Nat
          BY <1>2, <2>1, <3>2, <4>1, NextNumber DEF FeedNotAhead, TypeOK
        <4> QED
          BY <1>1, <3>2, <4>1, <4>2 DEF ToBeFed, feed
      <3> QED
        BY <3>1, <3>2
    <2> QED
      BY <2>2, <2>3, <2>4 DEF Kept
  <1> QED
    BY <1>1, <1>2, <1>3, <1>4, <1>5 DEF KeptInv, counters

LEMMA NewBlockStep ==
    ASSUME ChainServiceInv, NewBlock
    PROVE  ChainServiceInv'
  <1> USE DEF ChainServiceInv
  <1>1. /\ height' = height + 1 /\ height < MaxHeight
        /\ UNCHANGED <<chain, collected, database, feed, queue, retryIndex, pruneIndex,
                       toDelete, worker, counters>>
    BY DEF NewBlock
  <1>2. height \in Nat /\ MaxHeight \in Nat /\ StartHeight \in Nat
    BY ChainServiceAssumption DEF TypeOK
  <1>3. Emitted' = Emitted /\ \A i \in DOMAIN chain : Counted(i)' = Counted(i)
    BY <1>1 DEF Emitted, Counted
  <1>4. Grows
    BY <1>1, <1>2, <1>3 DEF Grows
  <1>5. TypeOK'
    BY <1>1, <1>2 DEF TypeOK, database, feed, counters
  <1>6. ChainInv'
    <2>1. height' \in StartHeight .. MaxHeight
      BY <1>1, <1>2 DEF ChainInv
    <2>2. ASSUME NEW i \in DOMAIN chain
          PROVE  chain[i].height <= height'
      <3>1. chain[i] \in Emitted
        BY DEF Emitted
      <3> QED
        BY <1>1, <1>2, <3>1, EmittedType, EmittedHeight
    <2> QED
      BY <1>1, <1>3, <2>1, <2>2 DEF ChainInv
  <1>7. DatabaseInv' /\ QueueInv' /\ WorkerInv' /\ WindowInv' /\ DeletionInv'
    <2>1. DatabaseInv'
      BY <1>1, <1>4, DatabaseKept
    <2>2. QueueInv'
      BY <1>1, <1>4, QueueKept
    <2>3. WorkerInv'
      BY <1>1, <1>4, WorkerKept
    <2>4. WindowInv'
      BY <1>1, <1>4, WindowKept DEF feed
    <2>5. DeletionInv'
      BY <1>1, <1>4, DeletionKept DEF database
    <2> QED
      BY <2>1, <2>2, <2>3, <2>4, <2>5
  <1>8. ASSUME crashes = 0
        PROVE  FeedNotAhead' /\ \A p \in Emitted' : Kept(p)'
    <2>1. FeedNotAhead /\ \A p \in Emitted : Kept(p)
      BY <1>8 DEF KeptInv
    <2>2. FeedNotAhead'
      <3>1. Client = "ethereum" => feedPos \in Nat
        BY DEF TypeOK
      <3> QED
        BY <1>1, <1>2, <2>1, <3>1 DEF FeedNotAhead, NextTo, feed
    <2>3. ASSUME NEW p \in Emitted
          PROVE  Kept(p)'
      BY <1>1, <2>1, PacketKept DEF Held, Kept, feed
    <2> QED
      BY <1>3, <2>2, <2>3
  <1> QED
    BY <1>1, <1>5, <1>6, <1>7, <1>8 DEF KeptInv, counters

-----------------------------------------------------------------------------
(* The feed. *)

LEMMA MaturedHeight ==
    ASSUME TypeOK, ChainInv, Client = "ethereum"
    PROVE  maturedHeight = height - WaitHeight /\ maturedHeight \in Nat
  <1>1. /\ height \in Nat /\ WaitHeight \in Nat /\ StartHeight \in Nat /\ MaxHeight \in Nat
        /\ HeightModulus \in Nat /\ WaitHeight <= StartHeight /\ MaxHeight < HeightModulus
        /\ StartHeight <= height /\ height <= MaxHeight
    BY ChainServiceAssumption DEF TypeOK, ChainInv
  <1>2. height - WaitHeight \in Nat /\ height - WaitHeight < HeightModulus
    BY <1>1
  <1> QED
    BY <1>1, <1>2, SmallModulo DEF maturedHeight

LEMMA FetchWindowStep ==
    ASSUME ChainServiceInv, FetchWindow
    PROVE  ChainServiceInv'
  <1> USE DEF ChainServiceInv
  <1>1. PICK limit \in {feedLimit, maturedHeight} :
            LET end == Min({feedPos + HeightDifference, limit})
            IN  /\ feedPos <= limit
                /\ queue' = [queue EXCEPT !["feed"] = {p \in Emitted : p.height \in feedPos .. end}]
                /\ windowEnd' = end /\ feedLimit' = limit
    BY DEF FetchWindow
  <1>2. PICK end : end = Min({feedPos + HeightDifference, limit})
    OBVIOUS
  <1>3. /\ Client = "ethereum" /\ windowEnd = 0
        /\ UNCHANGED <<external, collected, database, feedPos, retryIndex, pruneIndex, toDelete,
                       worker, counters>>
    BY DEF FetchWindow
  <1>4. ChainInv' /\ Grows
    BY <1>3, ExternalKept
  <1>5. limit \in Nat /\ limit + WaitHeight <= height /\ feedPos \in Nat /\ height \in Nat /\ WaitHeight \in Nat
    BY <1>3, MaturedHeight, ChainServiceAssumption DEF TypeOK, WindowInv
  <1>6. end \in Nat /\ end <= limit /\ feedPos <= end /\ end + WaitHeight <= height
    BY <1>1, <1>2, <1>5, MinOfTwo, ChainServiceAssumption
  <1>7. TypeOK'
    <2>1. {p \in Emitted : p.height \in feedPos .. end} \subseteq PacketType
      BY EmittedType
    <2> QED
      BY <1>1, <1>2, <1>3, <1>5, <1>6, <2>1 DEF TypeOK, external, database, counters
  <1>8. DatabaseInv' /\ QueueInv' /\ WorkerInv' /\ WindowInv' /\ DeletionInv'
    <2>1. DatabaseInv'
      BY <1>3, <1>4, DatabaseKept
    <2>2. QueueInv'
      <3> SUFFICES ASSUME NEW f \in Feeder, NEW p \in queue'[f]
                   PROVE  p \in queue[f] \/ (p \in Emitted /\ (f # "missed" => Mature(p)))
        BY <1>4, QueueKept
      <3>1. CASE f = "feed"
        <4>1. p \in Emitted /\ p.height \in feedPos .. end
          BY <1>1, <1>2, <3>1 DEF TypeOK
        <4>2. p.height \in Nat
          BY <4>1, EmittedType
        <4>3. p.height <= end
          BY <1>5, <1>6, <4>1
        <4> QED
          BY <1>5, <1>6, <4>1, <4>2, <4>3 DEF Mature
      <3>2. CASE f # "feed"
        BY <1>1, <3>2 DEF TypeOK
      <3> QED
        BY <3>1, <3>2
    <2>3. WorkerInv'
      BY <1>3, <1>4, WorkerKept
    <2>4. WindowInv'
      <3>1. /\ feedLimit' + WaitHeight <= height' /\ windowEnd' + WaitHeight <= height'
        BY <1>1, <1>2, <1>3, <1>5, <1>6 DEF external
      <3>2. ASSUME end = 0
            PROVE  queue'["feed"] = {}
        <4>1. \A p \in Emitted : p.height > 0 /\ p.height \in Nat
          BY EmittedType, EmittedHeight
        <4>2. \A p \in Emitted : p.height \notin feedPos .. end
          BY <1>5, <3>2, <4>1
        <4> QED
          BY <1>1, <1>2, <4>2 DEF TypeOK, Feeder
      <3> QED
        BY <1>1, <1>2, <3>1, <3>2 DEF WindowInv
    <2>5. DeletionInv'
      BY <1>3, <1>4, DeletionKept DEF database
    <2> QED
      BY <2>1, <2>2, <2>3, <2>4, <2>5
  <1>9. ASSUME crashes = 0
        PROVE  FeedNotAhead' /\ \A p \in Emitted' : Kept(p)'
    <2>1. FeedNotAhead /\ \A p \in Emitted : Kept(p)
      BY <1>9 DEF KeptInv
    <2>2. FeedNotAhead'
      BY <1>3, <2>1, FeedStaysBehind
    <2>3. ASSUME NEW p \in Emitted
          PROVE  Kept(p)'
      <3>1. CASE p \in collected \/ InGap(p) \/ p.sequence \in DOMAIN retryNS[p.dst]
        BY <1>3, <3>1 DEF Kept, InGap, database
      <3>2. CASE Held(p)
        <4>1. queue["feed"] = {}
          BY <1>3 DEF WindowInv
        <4>2. Held(p)'
          BY <1>1, <1>3, <3>2, <4>1 DEF Held, TypeOK
        <4> QED
          BY <4>2 DEF Kept
      <3>3. CASE ToBeFed(p)
        <4>1. p.height >= feedPos /\ p.height \in Nat
          BY <1>3, <3>3, EmittedType DEF ToBeFed
        <4>2. CASE p.height <= end
          <5>1. p \in queue'["feed"]
            BY <1>1, <1>2, <1>5, <1>6, <4>1, <4>2 DEF TypeOK, Feeder
          <5> QED
            BY <5>1 DEF Kept, Held, Feeder
        <4>3. CASE p.height > end
          BY <1>1, <1>2, <1>3, <1>5, <1>6, <4>1, <4>3 DEF Kept, ToBeFed
        <4> QED
          BY <1>6, <4>1, <4>2, <4>3
      <3> QED
        BY <2>1, <3>1, <3>2, <3>3 DEF Kept
    <2> QED
      BY <1>3, <2>2, <2>3 DEF Emitted, external
  <1> QED
    BY <1>3, <1>4, <1>7, <1>8, <1>9 DEF KeptInv, counters

LEMMA WindowFedStep ==
    ASSUME ChainServiceInv, WindowFed
    PROVE  ChainServiceInv'
  <1> USE DEF ChainServiceInv
  <1>1. /\ Client = "ethereum" /\ windowEnd # 0 /\ queue["feed"] = {}
        /\ feedPos' = windowEnd + 1 /\ windowEnd' = 0
        /\ UNCHANGED <<external, collected, database, feedLimit, queue, retryIndex, pruneIndex, toDelete,
                       worker, counters>>
    BY DEF WindowFed
  <1>2. ChainInv' /\ Grows
    BY <1>1, ExternalKept
  <1>3. /\ windowEnd \in Nat /\ windowEnd + WaitHeight <= height /\ height \in Nat
        /\ WaitHeight \in Nat /\ WaitHeight > 0
    BY <1>1, ChainServiceAssumption DEF TypeOK, WindowInv
  <1>4. TypeOK'
    BY <1>1, <1>3 DEF TypeOK, external, database, counters
  <1>5. DatabaseInv' /\ QueueInv' /\ WorkerInv' /\ WindowInv' /\ DeletionInv'
    <2>1. DatabaseInv'
      BY <1>1, <1>2, DatabaseKept
    <2>2. QueueInv'
      BY <1>1, <1>2, QueueKept
    <2>3. WorkerInv'
      BY <1>1, <1>2, WorkerKept
    <2>4. WindowInv'
      BY <1>1, <1>3 DEF WindowInv, external
    <2>5. DeletionInv'
      BY <1>1, <1>2, DeletionKept DEF database
    <2> QED
      BY <2>1, <2>2, <2>3, <2>4, <2>5
  <1>6. ASSUME crashes = 0
        PROVE  FeedNotAhead' /\ \A p \in Emitted' : Kept(p)'
    <2>1. \A p \in Emitted : Kept(p)
      BY <1>6 DEF KeptInv
    <2>2. FeedNotAhead'
      BY <1>1, <1>3 DEF FeedNotAhead, external
    <2>3. ASSUME NEW p \in Emitted
          PROVE  Kept(p)'
      <3>1. CASE p \in collected \/ InGap(p) \/ p.sequence \in DOMAIN retryNS[p.dst]
        BY <1>1, <3>1 DEF Kept, InGap, database
      <3>2. CASE Held(p)
        BY <1>1, <3>2 DEF Kept, Held
      <3>3. CASE ToBeFed(p)
        <4>1. p.height > windowEnd /\ p.height \in Nat
          BY <1>1, <3>3, EmittedType DEF ToBeFed
        <4> QED
          BY <1>1, <1>3, <4>1 DEF Kept, ToBeFed
      <3> QED
        BY <2>1, <3>1, <3>2, <3>3 DEF Kept
    <2> QED
      BY <1>1, <2>2, <2>3 DEF Emitted, external
  <1> QED
    BY <1>1, <1>2, <1>4, <1>5, <1>6 DEF KeptInv, counters

LEMMA FetchNextStep ==
    ASSUME ChainServiceInv, NEW d \in Dest, FetchNext(d)
    PROVE  ChainServiceInv'
  <1> USE DEF ChainServiceInv
  <1>1. /\ Client = "aleo" /\ feedPos' = [feedPos EXCEPT ![d] = @ + 1]
        /\ UNCHANGED <<external, collected, database, windowEnd, feedLimit, retryIndex, pruneIndex, toDelete,
                       worker, counters>>
    BY DEF FetchNext
  <1>2. PICK q \in Emitted :
            /\ q.dst = d /\ q.sequence = feedPos[d] /\ q.height <= maturedHeight
            /\ queue' = [queue EXCEPT !["feed"] = @ \cup {q}]
    BY DEF FetchNext
  <1>3. ChainInv' /\ Grows
    BY <1>1, ExternalKept
  <1>4. feedPos \in [Dest -> Nat] /\ q.sequence \in Nat /\ q \in PacketType
    BY <1>1, EmittedType DEF TypeOK
  <1>5. Mature(q)
    <2>1. height \in Nat /\ WaitHeight \in Nat
      BY ChainServiceAssumption DEF TypeOK
    <2>2. q.height \in Nat
      BY EmittedType
    <2>3. q.height <= maturedHeight /\ maturedHeight = height - WaitHeight
      BY <1>1, <1>2 DEF maturedHeight
    <2> HIDE DEF ChainServiceInv
    <2> QED
      BY <2>1, <2>2, <2>3 DEF Mature
  <1>6. TypeOK'
    <2>1. feedPos' \in [Dest -> Nat]
      BY <1>1, <1>4
    <2>2. queue' \in [Feeder -> SUBSET PacketType]
      BY <1>2, <1>4 DEF TypeOK
    <2> QED
      BY <1>1, <2>1, <2>2 DEF TypeOK, external, database, counters
  <1>7. DatabaseInv' /\ QueueInv' /\ WorkerInv' /\ WindowInv' /\ DeletionInv'
    <2>1. DatabaseInv'
      BY <1>1, <1>3, DatabaseKept
    <2>2. QueueInv'
      BY <1>2, <1>3, <1>5, QueueKept DEF TypeOK
    <2>3. WorkerInv'
      BY <1>1, <1>3, WorkerKept
    <2>4. WindowInv'
      BY <1>1 DEF WindowInv, external
    <2>5. DeletionInv'
      BY <1>1, <1>3, DeletionKept DEF database
    <2> QED
      BY <2>1, <2>2, <2>3, <2>4, <2>5
  <1>8. ASSUME crashes = 0
        PROVE  FeedNotAhead' /\ \A p \in Emitted' : Kept(p)'
    <2>1. FeedNotAhead /\ \A p \in Emitted : Kept(p)
      BY <1>8 DEF KeptInv
    <2>2. FeedNotAhead'
      <3> SUFFICES ASSUME NEW e \in Dest
                   PROVE  feedPos'[e] <= NextTo(e)
        BY <1>1 DEF FeedNotAhead, NextTo, external
      <3>1. CASE e = d
        <4>1. q.sequence < NextTo(e) /\ NextTo(e) \in Nat
          BY <1>2, <3>1, NumbersBelowNext, NextNumber
        <4>2. feedPos'[e] = q.sequence + 1
          BY <1>1, <1>2, <1>4, <3>1
        <4> QED
          BY <1>4, <4>1, <4>2
      <3>2. CASE e # d
        BY <1>1, <1>4, <2>1, <3>2 DEF FeedNotAhead
      <3> QED
        BY <3>1, <3>2
    <2>3. ASSUME NEW p \in Emitted
          PROVE  Kept(p)'
      <3>1. CASE p \in collected \/ InGap(p) \/ p.sequence \in DOMAIN retryNS[p.dst]
        BY <1>1, <3>1 DEF Kept, InGap, database
      <3>2. CASE Held(p)
        <4>1. Held(p)'
          BY <1>1, <1>2, <3>2 DEF Held, TypeOK
        <4> QED
          BY <4>1 DEF Kept
      <3>3. CASE ToBeFed(p)
        <4>1. p.sequence >= feedPos[p.dst] /\ p.sequence \in Nat /\ p.dst \in Dest
          BY <1>1, <3>3, EmittedType DEF ToBeFed
        <4>2. CASE p.dst = d /\ p.sequence = feedPos[d]
          <5>1. p = q
            BY <1>2, <4>2, NumberUnique
          <5>2. p \in queue'["feed"]
            BY <1>2, <5>1 DEF TypeOK, Feeder
          <5> QED
            BY <5>2 DEF Kept, Held, Feeder
        <4>3. CASE ~(p.dst = d /\ p.sequence = feedPos[d])
          BY <1>1, <1>4, <4>1, <4>3 DEF Kept, ToBeFed
        <4> QED
          BY <4>2, <4>3
      <3> QED
        BY <2>1, <3>1, <3>2, <3>3 DEF Kept
    <2> QED
      BY <1>1, <2>2, <2>3 DEF Emitted, external
  <1> QED
    BY <1>1, <1>3, <1>6, <1>7, <1>8 DEF KeptInv, counters

-----------------------------------------------------------------------------
(* The retry namespace, and the numbers that prune looks at. *)

(* The keys of a destination's completed numbers are bounded. *)
LEMMA CompletedBounded ==
    ASSUME TypeOK, ChainInv, DatabaseInv, NEW d \in Dest, NEW k \in DOMAIN baseSeqNum[d]
    PROVE  Len(chain) \in Nat /\ k \in Nat /\ k <= Len(chain)
  <1>1. PICK p \in Emitted : p.sequence = k
    BY DEF DatabaseInv
  <1>2. p.sequence \in 1 .. Len(chain) /\ Len(chain) \in Nat
    BY <1>1, EmittedHeight DEF TypeOK
  <1> QED
    BY <1>1, <1>2

LEMMA RetryFeedStep ==
    ASSUME ChainServiceInv, RetryFeed
    PROVE  ChainServiceInv'
  <1> USE DEF ChainServiceInv
  <1>1. /\ queue["retry"] = {}
        /\ retryIndex' = Rotate(retryIndex)
        /\ UNCHANGED <<external, collected, baseSeqNum, feed, pruneIndex, toDelete, worker, counters>>
    BY DEF RetryFeed
  <1>2. PICK d : d = DestChains[retryIndex]
    OBVIOUS
  <1>3. d \in Dest
    BY <1>2 DEF TypeOK, Dest
  <1>4. PICK batch : batch = RetrieveAndDeleteNPackets(retryNS[d], RetrievePacketNum)
    OBVIOUS
  <1>5. /\ queue' = [queue EXCEPT !["retry"] = batch.values]
        /\ retryNS' = [retryNS EXCEPT ![d] = batch.bucket]
    BY <1>2, <1>4 DEF RetryFeed
  <1>6. /\ DOMAIN batch.bucket \subseteq DOMAIN retryNS[d]
        /\ \A k \in DOMAIN batch.bucket : batch.bucket[k] = retryNS[d][k]
        /\ batch.bucket = [k \in DOMAIN batch.bucket |-> batch.bucket[k]]
        /\ \A v \in batch.values : \E k \in DOMAIN retryNS[d] : v = retryNS[d][k]
        /\ \A k \in DOMAIN retryNS[d] \ DOMAIN batch.bucket : retryNS[d][k] \in batch.values
    BY <1>4, BatchTaken
  <1>7. ChainInv' /\ Grows
    BY <1>1, ExternalKept
  <1>8. \A v \in batch.values : v \in Emitted /\ Mature(v)
    BY <1>3, <1>6 DEF DatabaseInv
  <1>9. TypeOK'
    <2>1. batch.values \subseteq PacketType
      BY <1>8, EmittedType
    <2>2. queue' \in [Feeder -> SUBSET PacketType]
      BY <1>5, <2>1 DEF TypeOK
    <2>3. retryIndex' \in DOMAIN DestChains
      BY <1>1, RotateType DEF TypeOK
    <2>4. batch.bucket \in [DOMAIN batch.bucket -> PacketType] /\ DOMAIN batch.bucket \subseteq Nat
      BY <1>3, <1>6 DEF TypeOK
    <2>5. DOMAIN retryNS' = Dest
          /\ \A e \in Dest : DOMAIN retryNS'[e] \subseteq Nat /\ retryNS'[e] \in [DOMAIN retryNS'[e] -> PacketType]
      BY <1>5, <2>4 DEF TypeOK
    <2> QED
      BY <1>1, <2>2, <2>3, <2>5 DEF TypeOK, external, feed, counters
  <1>10. DatabaseInv'
    <2> SUFFICES ASSUME NEW e \in Dest
                 PROVE  /\ \A k \in DOMAIN baseSeqNum[e] :
                              \E p \in Emitted \cap collected :
                                 /\ p.dst = e /\ p.sequence = k /\ p.height + WaitHeight <= height
                                 /\ Client = "ethereum" => baseSeqNum[e][k] = p.height
                        /\ \A k \in DOMAIN retryNS'[e] :
                              \E p \in Emitted : /\ p = retryNS'[e][k] /\ p.dst = e /\ p.sequence = k
                                               /\ p.height + WaitHeight <= height
      BY <1>1 DEF DatabaseInv, Mature, Emitted, external
    <2>1. \A k \in DOMAIN retryNS'[e] : k \in DOMAIN retryNS[e] /\ retryNS'[e][k] = retryNS[e][k]
      BY <1>3, <1>5, <1>6 DEF TypeOK
    <2> QED
      BY <2>1 DEF DatabaseInv, Mature
  <1>11. QueueInv' /\ WorkerInv' /\ WindowInv' /\ DeletionInv'
    <2>1. QueueInv'
      BY <1>5, <1>7, <1>8, QueueKept DEF TypeOK
    <2>2. WorkerInv'
      BY <1>1, <1>7, WorkerKept
    <2>3. WindowInv'
      BY <1>1, <1>5, <1>7, WindowKept DEF feed, TypeOK, Feeder
    <2>4. DeletionInv'
      BY <1>1, <1>7, DeletionKept
    <2> QED
      BY <2>1, <2>2, <2>3, <2>4
  <1>12. ASSUME crashes = 0
         PROVE  FeedNotAhead' /\ \A p \in Emitted' : Kept(p)'
    <2>1. FeedNotAhead /\ \A p \in Emitted : Kept(p)
      BY <1>12 DEF KeptInv
    <2>2. FeedNotAhead'
      BY <1>1, <2>1, FeedStaysBehind DEF feed
    <2>3. ASSUME NEW p \in Emitted
          PROVE  Kept(p)'
      <3>1. CASE p \in collected \/ InGap(p) \/ ToBeFed(p)
        BY <1>1, <3>1 DEF Kept, InGap, ToBeFed, feed
      <3>2. CASE Held(p)
        BY <1>1, <1>5, <3>2 DEF Kept, Held, TypeOK
      <3>3. CASE p.sequence \in DOMAIN retryNS[p.dst]
        <4>1. CASE p.dst = d /\ p.sequence \notin DOMAIN batch.bucket
          <5>1. retryNS[d][p.sequence] \in batch.values /\ retryNS[d][p.sequence] \in Emitted
                /\ retryNS[d][p.sequence].dst = d /\ retryNS[d][p.sequence].sequence = p.sequence
            BY <1>3, <1>6, <3>3, <4>1 DEF DatabaseInv
          <5>2. p \in batch.values
            BY <4>1, <5>1, NumberUnique
          <5>3. p \in queue'["retry"]
            BY <1>5, <5>2 DEF TypeOK, Feeder
          <5> QED
            BY <5>3 DEF Kept, Held, Feeder
        <4>2. CASE ~(p.dst = d /\ p.sequence \notin DOMAIN batch.bucket)
          <5>1. p.dst \in Dest
            BY EmittedType
          <5> QED
            BY <1>5, <3>3, <4>2, <5>1 DEF Kept, TypeOK
        <4> QED
          BY <4>1, <4>2
      <3> QED
        BY <2>1, <3>1, <3>2, <3>3 DEF Kept
    <2> QED
      BY <1>1, <2>2, <2>3 DEF Emitted, external
  <1> QED
    BY <1>1, <1>7, <1>9, <1>10, <1>11, <1>12 DEF KeptInv, counters

(* A packet of the gap is older than the completed packet after the gap. *)
LEMMA GapMature ==
    ASSUME TypeOK, ChainInv, DatabaseInv, NEW d \in Dest, NEW p \in GapPackets(d)
    PROVE  p \in Emitted /\ Mature(p)
  <1>1. p \in Emitted /\ pruned(d).shouldFetch /\ p.dst = d /\ p.sequence < pruned(d).next[1]
    BY DEF GapPackets
  <1>2. DOMAIN baseSeqNum[d] \subseteq Nat
    BY DEF TypeOK
  <1>3. Len(chain) \in Nat /\ \A k \in DOMAIN baseSeqNum[d] : k <= Len(chain)
    BY CompletedBounded DEF TypeOK
  <1>4. PICK l \in DOMAIN baseSeqNum[d] : pruned(d).next = <<l, baseSeqNum[d][l]>>
    BY <1>1, <1>2, <1>3, PruneResult DEF pruned
  <1>5. PICK q \in Emitted : q.dst = d /\ q.sequence = l /\ Mature(q)
    BY DEF DatabaseInv
  <1>6. p.sequence \in Nat /\ q.sequence \in Nat /\ p.height \in Nat /\ q.height \in Nat
    BY <1>1, EmittedType
  <1>7. p.height <= q.height
    BY <1>1, <1>4, <1>5, <1>6, NumbersFollowHeights
  <1> QED
    BY <1>1, <1>5, <1>6, <1>7, ChainServiceAssumption DEF Mature, TypeOK

LEMMA PruneFetchingStep ==
    ASSUME ChainServiceInv, NEW d \in Dest, NEW ps \in SUBSET GapPackets(d), PruneFetching(d, ps),
           failures' \in Nat
    PROVE  ChainServiceInv'
  <1> USE DEF ChainServiceInv
  <1>1. /\ queue["prune"] = {} /\ toDelete = {}
        /\ toDelete' = {[dst |-> d, key |-> k] : k \in pruned(d).toDelete}
        /\ queue' = [queue EXCEPT !["prune"] = ps]
        /\ pruneIndex' = IF PruneRotates(d) THEN Rotate(pruneIndex) ELSE pruneIndex
        /\ UNCHANGED <<external, collected, database, feed, retryIndex, worker, crashes, missed>>
    BY DEF PruneFetching
  <1>2. ChainInv' /\ Grows
    BY <1>1, ExternalKept
  <1>3. \A p \in ps : p \in Emitted /\ Mature(p)
    BY GapMature
  <1>4. DOMAIN baseSeqNum[d] \subseteq Nat
        /\ Len(chain) \in Nat /\ \A k \in DOMAIN baseSeqNum[d] : k <= Len(chain)
    BY CompletedBounded DEF TypeOK
  <1>5. /\ pruned(d).toDelete \subseteq DOMAIN baseSeqNum[d]
        /\ \A x \in pruned(d).toDelete :
              \E b \in DOMAIN baseSeqNum[d] \ pruned(d).toDelete :
                  x < b /\ x .. b \subseteq DOMAIN baseSeqNum[d]
    BY <1>4, PruneResult DEF pruned
  <1>6. TypeOK'
    <2>1. toDelete' \subseteq [dst : Dest, key : Nat]
      BY <1>1, <1>4, <1>5
    <2>2. ps \subseteq PacketType
      BY <1>3, EmittedType
    <2>3. queue' \in [Feeder -> SUBSET PacketType]
      BY <1>1, <2>2 DEF TypeOK
    <2>4. pruneIndex' \in DOMAIN DestChains
      BY <1>1, RotateType DEF TypeOK
    <2> QED
      BY <1>1, <2>1, <2>3, <2>4 DEF TypeOK, external, database, feed
  <1>7. DatabaseInv' /\ QueueInv' /\ WorkerInv' /\ WindowInv'
    <2>1. DatabaseInv'
      BY <1>1, <1>2, DatabaseKept
    <2>2. QueueInv'
      BY <1>1, <1>2, <1>3, QueueKept DEF TypeOK
    <2>3. WorkerInv'
      BY <1>1, <1>2, WorkerKept
    <2>4. WindowInv'
      BY <1>1, <1>2, WindowKept DEF feed, TypeOK, Feeder
    <2> QED
      BY <2>1, <2>2, <2>3, <2>4
  <1>8. DeletionInv'
    <2>1. \A s \in DOMAIN baseSeqNum[d] : DeliveredNumber(d, s)
      BY DEF DatabaseInv, DeliveredNumber
    <2>2. ASSUME NEW x \in toDelete'
          PROVE  \E b \in DOMAIN baseSeqNum[x.dst] :
                    /\ x.key < b /\ [dst |-> x.dst, key |-> b] \notin toDelete'
                    /\ \A s \in x.key .. b : DeliveredNumber(x.dst, s)'
      <3>1. PICK k \in pruned(d).toDelete : x = [dst |-> d, key |-> k]
        BY <1>1, <2>2
      <3>2. PICK b \in DOMAIN baseSeqNum[d] \ pruned(d).toDelete :
                k < b /\ k .. b \subseteq DOMAIN baseSeqNum[d]
        BY <1>5
      <3>3. [dst |-> d, key |-> b] \notin toDelete'
        BY <1>1, <3>2
      <3>4. \A s \in k .. b : DeliveredNumber(d, s)'
        BY <1>2, <2>1, <3>2, DeliveredStays
      <3> QED
        BY <3>1, <3>2, <3>3, <3>4
    <2> QED
      BY <1>1, <2>2 DEF DeletionInv, database
  <1>9. ASSUME crashes = 0
        PROVE  FeedNotAhead' /\ \A p \in Emitted' : Kept(p)'
    <2>1. FeedNotAhead /\ \A p \in Emitted : Kept(p)
      BY <1>9 DEF KeptInv
    <2>2. FeedNotAhead'
      BY <1>1, <2>1, FeedStaysBehind DEF feed
    <2>3. ASSUME NEW p \in Emitted
          PROVE  Kept(p)'
      <3>1. Held(p) => Held(p)'
        BY <1>1 DEF Held, TypeOK
      <3> QED
        BY <1>1, <2>1, <3>1, PacketKept DEF Kept, feed
    <2> QED
      BY <1>1, <2>2, <2>3 DEF Emitted, external
  <1> QED
    BY <1>1, <1>2, <1>6, <1>7, <1>8, <1>9 DEF KeptInv

LEMMA PruneSteps ==
    ASSUME ChainServiceInv, Prune \/ PruneReadFails
    PROVE  ChainServiceInv'
  <1>1. failures \in Nat
    BY DEF ChainServiceInv, TypeOK
  <1>2. PICK d \in Dest : \/ PruneFetching(d, GapPackets(d)) /\ UNCHANGED failures
                          \/ /\ \E ps \in PartlyFetched(GapPackets(d)) : PruneFetching(d, ps)
                             /\ failures' = failures + 1
    BY DEF Prune, PruneReadFails
  <1>3. \A ps \in PartlyFetched(GapPackets(d)) : ps \subseteq GapPackets(d)
    BY DEF PartlyFetched
  <1>4. PICK ps \in SUBSET GapPackets(d) : PruneFetching(d, ps)
    BY <1>2, <1>3
  <1> QED
    BY <1>1, <1>2, <1>4, PruneFetchingStep

(* Deleting a number that prune chose takes no packet out of a gap unless  *)
(* that packet is delivered.                                               *)
LEMMA GapStays ==
    ASSUME ChainServiceInv, NEW x \in toDelete, PruneDelete(x),
           NEW p \in Emitted, InGap(p), p \notin collected
    PROVE  InGap(p)'
  <1> USE DEF ChainServiceInv
  <1>1. PICK k, l \in DOMAIN baseSeqNum[p.dst] : k < p.sequence /\ p.sequence < l
    BY DEF InGap
  <1>2. p.dst \in Dest /\ p.sequence \in Nat /\ k \in Nat /\ l \in Nat
    BY <1>1, EmittedType DEF TypeOK
  <1>3. x.dst \in Dest /\ x.key \in Nat
    BY DEF TypeOK
  <1>4. DOMAIN baseSeqNum'[p.dst] = DOMAIN baseSeqNum[p.dst] \ (IF p.dst = x.dst THEN {x.key} ELSE {})
    BY <1>2, <1>3 DEF PruneDelete, TypeOK, RemoveKey, Delete
  <1>5. CASE p.dst # x.dst
    BY <1>1, <1>4, <1>5 DEF InGap
  <1>6. CASE p.dst = x.dst
    <2>1. PICK b \in DOMAIN baseSeqNum[x.dst] :
              x.key < b /\ \A s \in x.key .. b : DeliveredNumber(x.dst, s)
      BY DEF DeletionInv
    <2>2. b \in Nat /\ b \in DOMAIN baseSeqNum'[p.dst]
      BY <1>3, <1>4, <1>6, <2>1 DEF TypeOK
    <2>3. p.sequence \notin x.key .. b
      <3> SUFFICES ASSUME p.sequence \in x.key .. b
                   PROVE  FALSE
        OBVIOUS
      <3>1. PICK q \in Emitted \cap collected : q.dst = p.dst /\ q.sequence = p.sequence
        BY <1>6, <2>1 DEF DeliveredNumber
      <3>2. q = p
        BY <3>1, NumberUnique
      <3> QED
        BY <3>1, <3>2
    <2>4. PICK k1 \in DOMAIN baseSeqNum'[p.dst] : k1 < p.sequence
      <3>1. CASE k = x.key
        BY <1>1, <1>2, <1>3, <2>2, <2>3, <3>1
      <3>2. CASE k # x.key
        BY <1>1, <1>2, <1>4, <3>2
      <3> QED
        BY <3>1, <3>2
    <2>5. PICK l1 \in DOMAIN baseSeqNum'[p.dst] : p.sequence < l1
      <3>1. CASE l = x.key
        BY <1>1, <1>2, <1>3, <2>1, <2>2, <3>1
      <3>2. CASE l # x.key
        BY <1>1, <1>2, <1>4, <3>2
      <3> QED
        BY <3>1, <3>2
    <2> QED
      BY <2>4, <2>5 DEF InGap
  <1> QED
    BY <1>5, <1>6

LEMMA PruneDeleteStep ==
    ASSUME ChainServiceInv, NEW x \in toDelete, PruneDelete(x)
    PROVE  ChainServiceInv'
  <1> USE DEF ChainServiceInv
  <1>1. /\ toDelete' = toDelete \ {x}
        /\ baseSeqNum' = [baseSeqNum EXCEPT ![x.dst] = RemoveKey(@, x.key)]
        /\ UNCHANGED <<external, collected, retryNS, feed, queue, retryIndex, pruneIndex, worker, counters>>
    BY DEF PruneDelete
  <1>2. x \in [dst : Dest, key : Nat] /\ x.dst \in Dest /\ x.key \in Nat
    BY DEF TypeOK
  <1>3. /\ DOMAIN baseSeqNum' = Dest
        /\ \A d \in Dest :
              /\ DOMAIN baseSeqNum'[d] = DOMAIN baseSeqNum[d] \ (IF d = x.dst THEN {x.key} ELSE {})
              /\ \A k \in DOMAIN baseSeqNum'[d] : baseSeqNum'[d][k] = baseSeqNum[d][k]
    BY <1>1, <1>2 DEF TypeOK, RemoveKey, Delete
  <1>4. ChainInv' /\ Grows
    BY <1>1, ExternalKept
  <1>5. PICK b \in DOMAIN baseSeqNum[x.dst] :
            /\ x.key < b /\ [dst |-> x.dst, key |-> b] \notin toDelete
            /\ \A s \in x.key .. b : DeliveredNumber(x.dst, s)
    BY DEF DeletionInv
  <1>6. b \in Nat
    BY <1>2 DEF TypeOK
  <1>7. TypeOK'
    <2>1. \A d \in Dest : IsBucket(baseSeqNum'[d], Nat)
      BY <1>1, <1>2 DEF TypeOK, RemoveKey, Delete, IsBucket
    <2>2. toDelete' \subseteq [dst : Dest, key : Nat]
      BY <1>1 DEF TypeOK
    <2>3. DOMAIN baseSeqNum' = Dest
      BY <1>3
    <2> QED
      BY <1>1, <2>1, <2>2, <2>3 DEF TypeOK, external, feed, counters, IsBucket
  <1>8. DatabaseInv'
    <2> SUFFICES ASSUME NEW d \in Dest
                 PROVE  /\ \A k \in DOMAIN baseSeqNum'[d] :
                              \E p \in Emitted \cap collected :
                                 /\ p.dst = d /\ p.sequence = k /\ p.height + WaitHeight <= height
                                 /\ Client = "ethereum" => baseSeqNum'[d][k] = p.height
                        /\ \A k \in DOMAIN retryNS[d] :
                              \E p \in Emitted : /\ p = retryNS[d][k] /\ p.dst = d /\ p.sequence = k
                                               /\ p.height + WaitHeight <= height
      BY <1>1 DEF DatabaseInv, Mature, Emitted, external
    <2>1. \A k \in DOMAIN baseSeqNum'[d] : k \in DOMAIN baseSeqNum[d] /\ baseSeqNum'[d][k] = baseSeqNum[d][k]
      BY <1>3
    <2> QED
      BY <2>1 DEF DatabaseInv, Mature
  <1>9. QueueInv' /\ WorkerInv' /\ WindowInv'
    <2>1. QueueInv'
      BY <1>1, <1>4, QueueKept
    <2>2. WorkerInv'
      BY <1>1, <1>4, WorkerKept
    <2>3. WindowInv'
      BY <1>1, <1>4, WindowKept DEF feed
    <2> QED
      BY <2>1, <2>2, <2>3
  <1>10. DeletionInv'
    <2> SUFFICES ASSUME NEW y \in toDelete'
                 PROVE  \E c \in DOMAIN baseSeqNum'[y.dst] :
                           /\ y.key < c /\ [dst |-> y.dst, key |-> c] \notin toDelete'
                           /\ \A s \in y.key .. c : DeliveredNumber(y.dst, s)'
      BY DEF DeletionInv
    <2>1. y \in toDelete /\ y.dst \in Dest
      BY <1>1 DEF TypeOK
    <2>2. PICK c \in DOMAIN baseSeqNum[y.dst] :
              /\ y.key < c /\ [dst |-> y.dst, key |-> c] \notin toDelete
              /\ \A s \in y.key .. c : DeliveredNumber(y.dst, s)
      BY <2>1 DEF DeletionInv
    <2>3. ~(y.dst = x.dst /\ c = x.key)
      <3>1. x = [dst |-> x.dst, key |-> x.key]
        BY <1>2
      <3> QED
        BY <2>2, <3>1
    <2>4. c \in DOMAIN baseSeqNum'[y.dst]
      BY <1>3, <2>1, <2>2, <2>3
    <2>5. \A s \in y.key .. c : DeliveredNumber(y.dst, s)'
      BY <1>4, <2>2, DeliveredStays
    <2> QED
      BY <1>1, <2>2, <2>4, <2>5
  <1>11. ASSUME crashes = 0
         PROVE  FeedNotAhead' /\ \A p \in Emitted' : Kept(p)'
    <2>1. FeedNotAhead /\ \A p \in Emitted : Kept(p)
      BY <1>11 DEF KeptInv
    <2>2. FeedNotAhead'
      BY <1>1, <2>1, FeedStaysBehind DEF feed
    <2>3. ASSUME NEW p \in Emitted
          PROVE  Kept(p)'
      <3>1. CASE p \in collected \/ Held(p) \/ ToBeFed(p) \/ p.sequence \in DOMAIN retryNS[p.dst]
        BY <1>1, <3>1 DEF Kept, Held, ToBeFed, feed
      <3>2. CASE InGap(p) /\ p \notin collected
        BY <3>2, GapStays DEF Kept
      <3> QED
        BY <2>1, <3>1, <3>2 DEF Kept
    <2> QED
      BY <1>1, <2>2, <2>3 DEF Emitted, external
  <1> QED
    BY <1>1, <1>4, <1>7, <1>8, <1>9, <1>10, <1>11 DEF KeptInv, counters

-----------------------------------------------------------------------------
(* Packets reported missed, and the workers. *)

LEMMA MissedPacketStep ==
    ASSUME ChainServiceInv, NEW q \in Emitted, MissedPacket(q)
    PROVE  ChainServiceInv'
  <1> USE DEF ChainServiceInv
  <1>1. /\ queue' = [queue EXCEPT !["missed"] = {q}] /\ missed' = missed + 1
        /\ UNCHANGED <<external, collected, database, feed, retryIndex, pruneIndex,
                       toDelete, worker, failures, crashes>>
    BY DEF MissedPacket
  <1>2. ChainInv' /\ Grows
    BY <1>1, ExternalKept
  <1>3. TypeOK'
    <2>1. queue' \in [Feeder -> SUBSET PacketType]
      BY <1>1, EmittedType DEF TypeOK
    <2> QED
      BY <1>1, <2>1 DEF TypeOK, external, database, feed
  <1>4. DatabaseInv' /\ QueueInv' /\ WorkerInv' /\ WindowInv' /\ DeletionInv'
    <2>1. DatabaseInv'
      BY <1>1, <1>2, DatabaseKept
    <2>2. QueueInv'
      BY <1>1, <1>2, QueueKept DEF TypeOK
    <2>3. WorkerInv'
      BY <1>1, <1>2, WorkerKept
    <2>4. WindowInv'
      BY <1>1, <1>2, WindowKept DEF feed, TypeOK, Feeder
    <2>5. DeletionInv'
      BY <1>1, <1>2, DeletionKept DEF database
    <2> QED
      BY <2>1, <2>2, <2>3, <2>4, <2>5
  <1>5. ASSUME crashes = 0
        PROVE  FeedNotAhead' /\ \A p \in Emitted' : Kept(p)'
    <2>1. FeedNotAhead /\ \A p \in Emitted : Kept(p)
      BY <1>5 DEF KeptInv
    <2>2. FeedNotAhead'
      BY <1>1, <2>1, FeedStaysBehind DEF feed
    <2>3. ASSUME NEW p \in Emitted
          PROVE  Kept(p)'
      <3>1. Held(p) => Held(p)'
        BY <1>1 DEF Held, TypeOK
      <3> QED
        BY <1>1, <2>1, <3>1, PacketKept DEF Kept, feed
    <2> QED
      BY <1>1, <2>2, <2>3 DEF Emitted, external
  <1> QED
    BY <1>1, <1>2, <1>3, <1>4, <1>5 DEF KeptInv

LEMMA TakeStep ==
    ASSUME ChainServiceInv, NEW f \in Feeder, NEW w \in Workers, Take(f, w)
    PROVE  ChainServiceInv'
  <1> USE DEF ChainServiceInv
  <1>1. PICK q \in queue[f] :
            /\ worker' = [worker EXCEPT ![w] = [stage |-> "received", pkt |-> q, missed |-> f = "missed"]]
            /\ queue' = [queue EXCEPT ![f] = @ \ {q}]
    BY DEF Take
  <1>2. /\ worker[w] = Idle
        /\ UNCHANGED <<external, collected, database, feed, retryIndex, pruneIndex, toDelete, counters>>
    BY DEF Take
  <1>3. PICK x : x = [stage |-> "received", pkt |-> q, missed |-> f = "missed"]
    OBVIOUS
  <1>4. q \in Emitted /\ (f # "missed" => Mature(q)) /\ q \in PacketType
    BY EmittedType DEF QueueInv
  <1>5. x.pkt = q /\ (x.missed <=> f = "missed") /\ x.stage = "received" /\ x # Idle
    BY <1>3 DEF Idle
  <1>6. /\ x \in [stage : {"received", "signed", "failed", "done"}, pkt : PacketType, missed : BOOLEAN]
    BY <1>3, <1>4
  <1>7. worker' = [worker EXCEPT ![w] = x]
    BY <1>1, <1>3
  <1>8. ChainInv' /\ Grows
    BY <1>2, ExternalKept
  <1>9. TypeOK'
    <2>1. queue' \in [Feeder -> SUBSET PacketType]
      BY <1>1 DEF TypeOK
    <2>2. DOMAIN worker' = Workers
          /\ \A v \in Workers :
               \/ worker'[v] = Idle
               \/ worker'[v] \in [stage : {"received", "signed", "failed", "done"}, pkt : PacketType,
                                  missed : BOOLEAN]
      BY <1>6, <1>7 DEF TypeOK
    <2> QED
      BY <1>2, <2>1, <2>2 DEF TypeOK, external, database, feed, counters
  <1>10. DatabaseInv' /\ QueueInv' /\ WorkerInv' /\ WindowInv' /\ DeletionInv'
    <2>1. DatabaseInv'
      BY <1>2, <1>8, DatabaseKept
    <2>2. QueueInv'
      BY <1>1, <1>8, QueueKept DEF TypeOK
    <2>3. WorkerInv'
      <3>1. WorkerSound(x)
        BY <1>4, <1>5 DEF WorkerSound
      <3>2. \A v \in Workers : worker'[v] = worker[v] \/ worker'[v] = x
        BY <1>7 DEF TypeOK
      <3> QED
        BY <1>8, <3>1, <3>2, WorkerKept
    <2>4. WindowInv'
      BY <1>1, <1>2, <1>8, WindowKept DEF feed, TypeOK, Feeder
    <2>5. DeletionInv'
      BY <1>2, <1>8, DeletionKept DEF database
    <2> QED
      BY <2>1, <2>2, <2>3, <2>4, <2>5
  <1>11. ASSUME crashes = 0
         PROVE  FeedNotAhead' /\ \A p \in Emitted' : Kept(p)'
    <2>1. FeedNotAhead /\ \A p \in Emitted : Kept(p)
      BY <1>11 DEF KeptInv
    <2>2. FeedNotAhead'
      BY <1>2, <2>1, FeedStaysBehind DEF feed
    <2>3. ASSUME NEW p \in Emitted
          PROVE  Kept(p)'
      <3>1. ASSUME Held(p)
            PROVE  Held(p)'
        <4>1. CASE \E g \in Feeder \ {"missed"} : p \in queue[g] /\ ~(g = f /\ p = q)
          BY <1>1, <4>1 DEF Held, TypeOK
        <4>2. CASE f # "missed" /\ p = q
          <5>1. worker'[w] = x
            BY <1>7 DEF TypeOK
          <5> QED
            BY <1>5, <4>2, <5>1 DEF Held
        <4>3. CASE \E v \in Workers : worker[v] # Idle /\ ~worker[v].missed /\ worker[v].pkt = p
          <5>1. PICK v \in Workers : worker[v] # Idle /\ ~worker[v].missed /\ worker[v].pkt = p
            BY <4>3
          <5>2. worker'[v] = worker[v]
            BY <1>2, <1>7, <5>1 DEF TypeOK
          <5> QED
            BY <5>1, <5>2 DEF Held
        <4> QED
          BY <3>1, <4>1, <4>2, <4>3 DEF Held
      <3> QED
        BY <1>2, <2>1, <3>1, PacketKept DEF Kept, feed
    <2> QED
      BY <1>2, <2>2, <2>3 DEF Emitted, external
  <1> QED
    BY <1>2, <1>8, <1>9, <1>10, <1>11 DEF KeptInv, counters

(* A worker passes its packet from one stage to the next. *)
LEMMA StageStep ==
    ASSUME ChainServiceInv, NEW w \in Workers,
           NEW from \in {"received", "signed"}, NEW to \in {"signed", "failed", "done"},
           SetStage(w, from, to), failures' \in Nat,
           collected' \in {collected, collected \cup {worker[w].pkt}},
           to = "done" => worker[w].pkt \in collected'
    PROVE  ChainServiceInv'
  <1> USE DEF ChainServiceInv
  <1>1. /\ worker[w].stage = from /\ worker' = [worker EXCEPT ![w].stage = to]
        /\ UNCHANGED <<external, database, feed, queue, retryIndex, pruneIndex, toDelete, crashes, missed>>
    BY DEF SetStage
  <1>2. worker[w] # Idle
    BY <1>1 DEF Idle
  <1>3. worker[w] \in [stage : {"received", "signed", "failed", "done"}, pkt : PacketType, missed : BOOLEAN]
    BY <1>2 DEF TypeOK
  <1>4. PICK x : x = [worker[w] EXCEPT !.stage = to]
    OBVIOUS
  <1>5. /\ x.pkt = worker[w].pkt /\ x.missed = worker[w].missed /\ x.stage = to
        /\ x \in [stage : {"received", "signed", "failed", "done"}, pkt : PacketType, missed : BOOLEAN]
    BY <1>3, <1>4
  <1>6. worker' = [worker EXCEPT ![w] = x]
    BY <1>1, <1>4
  <1>7. x # Idle
    BY <1>5 DEF Idle
  <1>8. ChainInv' /\ Grows
    <2>1. collected \subseteq collected'
      OBVIOUS
    <2> QED
      BY <1>1, <2>1, ExternalKept
  <1>9. PICK q \in Emitted : q = worker[w].pkt /\ q \in PacketType /\ (~worker[w].missed => Mature(q))
    BY <1>2, EmittedType DEF WorkerInv
  <1>10. TypeOK'
    <2>1. collected' \subseteq PacketType
      BY <1>9 DEF TypeOK
    <2>2. DOMAIN worker' = Workers
          /\ \A v \in Workers :
               \/ worker'[v] = Idle
               \/ worker'[v] \in [stage : {"received", "signed", "failed", "done"}, pkt : PacketType,
                                  missed : BOOLEAN]
      BY <1>5, <1>6 DEF TypeOK
    <2> QED
      BY <1>1, <2>1, <2>2 DEF TypeOK, external, database, feed
  <1>11. DatabaseInv' /\ QueueInv' /\ WorkerInv' /\ WindowInv' /\ DeletionInv'
    <2>1. DatabaseInv'
      BY <1>1, <1>8, DatabaseKept
    <2>2. QueueInv'
      BY <1>1, <1>8, QueueKept
    <2>3. WorkerInv'
      <3> SUFFICES ASSUME NEW v \in Workers, worker'[v] # Idle
                   PROVE  WorkerSoundNext(worker'[v])
        BY DEF WorkerInv, Mature, WorkerSoundNext
      <3>1. CASE v = w
        <4>1. worker'[v] = x
          BY <1>6, <3>1 DEF TypeOK
        <4>2. ~x.missed => q.height + WaitHeight <= height'
          BY <1>5, <1>8, <1>9, MatureStays
        <4>3. q \in Emitted'
          BY <1>8 DEF Grows
        <4>4. x.stage = "done" => q \in collected'
          BY <1>5, <1>9
        <4>5. x.pkt = q
          BY <1>5, <1>9
        <4> QED
          BY <4>1, <4>2, <4>3, <4>4, <4>5 DEF WorkerSoundNext
      <3>2. CASE v # w
        <4>1. PICK y : y = worker[v]
          OBVIOUS
        <4>2. worker'[v] = y
          BY <1>6, <3>2, <4>1 DEF TypeOK
        <4>3. WorkerSound(y)
          BY <4>1, <4>2, WorkersSound
        <4>4. WorkerSoundNext(y)
          BY <1>8, <4>3, SoundStays
        <4> QED
          BY <4>2, <4>4
      <3> QED
        BY <3>1, <3>2
    <2>4. WindowInv'
      BY <1>1, <1>8, WindowKept DEF feed
    <2>5. DeletionInv'
      BY <1>1, <1>8, DeletionKept DEF database
    <2> QED
      BY <2>1, <2>2, <2>3, <2>4, <2>5
  <1>12. ASSUME crashes = 0
         PROVE  FeedNotAhead' /\ \A p \in Emitted' : Kept(p)'
    <2>1. FeedNotAhead /\ \A p \in Emitted : Kept(p)
      BY <1>12 DEF KeptInv
    <2>2. FeedNotAhead'
      BY <1>1, <2>1, FeedStaysBehind DEF feed
    <2>3. ASSUME NEW p \in Emitted
          PROVE  Kept(p)'
      <3>1. ASSUME Held(p)
            PROVE  Held(p)'
        <4>1. CASE \E g \in Feeder \ {"missed"} : p \in queue[g]
          BY <1>1, <4>1 DEF Held
        <4>2. CASE \E v \in Workers : worker[v] # Idle /\ ~worker[v].missed /\ worker[v].pkt = p
          <5>1. PICK v \in Workers : worker[v] # Idle /\ ~worker[v].missed /\ worker[v].pkt = p
            BY <4>2
          <5>2. worker'[v] = IF v = w THEN x ELSE worker[v]
            BY <1>6 DEF TypeOK
          <5> QED
            BY <1>5, <1>7, <5>1, <5>2 DEF Held
        <4> QED
          BY <3>1, <4>1, <4>2 DEF Held
      <3> QED
        BY <1>1, <2>1, <3>1, PacketKept DEF Kept, feed
    <2> QED
      BY <1>1, <2>2, <2>3 DEF Emitted, external
  <1> QED
    BY <1>1, <1>8, <1>10, <1>11, <1>12 DEF KeptInv

LEMMA ProcessSteps ==
    ASSUME ChainServiceInv, NEW w \in Workers,
           HashAndSign(w) \/ SendToCollector(w) \/ SignFails(w) \/ SendFails(w)
    PROVE  ChainServiceInv'
  <1>1. failures \in Nat /\ failures + 1 \in Nat
    BY DEF ChainServiceInv, TypeOK
  <1>2. CASE HashAndSign(w)
    BY <1>1, <1>2, StageStep DEF HashAndSign
  <1>3. CASE SendToCollector(w)
    BY <1>1, <1>3, StageStep DEF SendToCollector
  <1>4. CASE SignFails(w)
    BY <1>1, <1>4, StageStep DEF SignFails
  <1>5. CASE SendFails(w)
    BY <1>1, <1>5, StageStep DEF SendFails
  <1> QED
    BY <1>2, <1>3, <1>4, <1>5

(* What Finish does to a family of namespaces. *)
IsFiled(spaces, V, e, k, v, next) ==
    /\ DOMAIN next = Dest /\ k \in DOMAIN next[e]
    /\ \A d \in Dest :
          /\ IsBucket(next[d], V)
          /\ DOMAIN spaces[d] \subseteq DOMAIN next[d]
          /\ \A j \in DOMAIN next[d] : \/ j \in DOMAIN spaces[d] /\ next[d][j] = spaces[d][j]
                                       \/ d = e /\ j = k /\ next[d][j] = v

LEMMA Filed ==
    ASSUME NEW spaces, NEW V, DOMAIN spaces = Dest, \A d \in Dest : IsBucket(spaces[d], V),
           NEW e \in Dest, NEW k \in Nat, NEW v \in V, NEW next,
           DOMAIN next = Dest, next[e] = Put(spaces[e], k, v), \A d \in Dest \ {e} : next[d] = spaces[d]
    PROVE  IsFiled(spaces, V, e, k, v, next)
  <1>1. PICK old : old = spaces[e]
    OBVIOUS
  <1>2. PICK ns : ns = Put(old, k, v)
    OBVIOUS
  <1>3. /\ DOMAIN ns = DOMAIN old \cup {k} /\ ns[k] = v
        /\ \A j \in DOMAIN old \ {k} : ns[j] = old[j]
    BY <1>2 DEF Put
  <1>4. IsBucket(ns, V)
    <2>1. DOMAIN old \subseteq Nat /\ \A j \in DOMAIN old : old[j] \in V
      BY <1>1 DEF IsBucket
    <2> QED
      BY <1>2, <2>1 DEF IsBucket, Put
  <1>6. next[e] = ns
    BY <1>1, <1>2
  <1>7. k \in DOMAIN next[e]
    BY <1>3, <1>6
  <1>8. ASSUME NEW d \in Dest
        PROVE  /\ IsBucket(next[d], V)
               /\ DOMAIN spaces[d] \subseteq DOMAIN next[d]
               /\ \A j \in DOMAIN next[d] : \/ j \in DOMAIN spaces[d] /\ next[d][j] = spaces[d][j]
                                            \/ d = e /\ j = k /\ next[d][j] = v
    <2>1. CASE d = e
      BY <1>1, <1>3, <1>4, <1>6, <2>1
    <2>2. CASE d # e
      <3>1. next[d] = spaces[d]
        BY <2>2
      <3> QED
        BY <3>1
    <2> QED
      BY <2>1, <2>2
  <1> QED
    BY <1>7, <1>8 DEF IsFiled

(* managePacket: a packet is completed once its signature has arrived, and *)
(* goes to the retry namespace when it failed.                             *)
LEMMA FinishStep ==
    ASSUME ChainServiceInv, NEW w \in Workers, Finish(w)
    PROVE  ChainServiceInv'
  <1> USE DEF ChainServiceInv
  <1>1. /\ worker[w].stage \in {"done", "failed"}
        /\ worker' = [worker EXCEPT ![w] = Idle]
        /\ UNCHANGED <<external, collected, feed, queue, retryIndex, pruneIndex, toDelete, counters>>
    BY DEF Finish
  <1>2. worker[w] # Idle
    BY <1>1 DEF Idle
  <1>3. PICK q \in Emitted :
            /\ q = worker[w].pkt /\ (~worker[w].missed => Mature(q))
            /\ worker[w].stage = "done" => q \in collected
    BY <1>2 DEF WorkerInv
  <1>4. q \in PacketType /\ q.dst \in Dest /\ q.sequence \in Nat /\ q.height \in Nat
    BY EmittedType
  <1>5. PICK kept : kept = IF Client = "ethereum" THEN q.height ELSE 0
    OBVIOUS
  <1>6. kept \in Nat /\ (Client = "ethereum" => kept = q.height)
    BY <1>4, <1>5
  <1>7. retryNS' = IF worker[w].stage = "failed" /\ ~worker[w].missed
                   THEN [retryNS EXCEPT ![q.dst] = Put(@, q.sequence, q)] ELSE retryNS
    BY <1>3 DEF Finish, StoreRetryPacket
  <1>8. baseSeqNum' = IF worker[w].stage = "done" /\ ~worker[w].missed
                      THEN [baseSeqNum EXCEPT ![q.dst] = Put(@, q.sequence, kept)] ELSE baseSeqNum
    BY <1>3, <1>5 DEF Finish, StoreBaseSeqNum
  <1>9. /\ DOMAIN retryNS' = Dest
        /\ \A d \in Dest :
              /\ IsBucket(retryNS'[d], PacketType)
              /\ DOMAIN retryNS[d] \subseteq DOMAIN retryNS'[d]
              /\ \A k \in DOMAIN retryNS'[d] :
                    \/ k \in DOMAIN retryNS[d] /\ retryNS'[d][k] = retryNS[d][k]
                    \/ d = q.dst /\ k = q.sequence /\ retryNS'[d][k] = q /\ Mature(q)
        /\ worker[w].stage = "failed" /\ ~worker[w].missed => q.sequence \in DOMAIN retryNS'[q.dst]
    <2>1. DOMAIN retryNS = Dest /\ \A d \in Dest : IsBucket(retryNS[d], PacketType)
      BY BucketsType DEF TypeOK
    <2>2. CASE worker[w].stage = "failed" /\ ~worker[w].missed
      <3>1. PICK next : next = [retryNS EXCEPT ![q.dst] = Put(@, q.sequence, q)]
        OBVIOUS
      <3>2. DOMAIN next = Dest /\ next[q.dst] = Put(retryNS[q.dst], q.sequence, q)
            /\ \A d \in Dest \ {q.dst} : next[d] = retryNS[d]
        BY <1>4, <2>1, <3>1
      <3>3. IsFiled(retryNS, PacketType, q.dst, q.sequence, q, next)
        BY <1>4, <2>1, <3>2, Filed
      <3>4. retryNS' = next
        BY <1>7, <2>2, <3>1
      <3> QED
        BY <1>3, <2>2, <3>3, <3>4 DEF IsFiled
    <2>3. CASE ~(worker[w].stage = "failed" /\ ~worker[w].missed)
      BY <1>7, <2>1, <2>3
    <2> QED
      BY <2>2, <2>3
  <1>10. /\ DOMAIN baseSeqNum' = Dest
         /\ \A d \in Dest :
               /\ IsBucket(baseSeqNum'[d], Nat)
               /\ DOMAIN baseSeqNum[d] \subseteq DOMAIN baseSeqNum'[d]
               /\ \A k \in DOMAIN baseSeqNum'[d] :
                     \/ k \in DOMAIN baseSeqNum[d] /\ baseSeqNum'[d][k] = baseSeqNum[d][k]
                     \/ /\ d = q.dst /\ k = q.sequence /\ baseSeqNum'[d][k] = kept
                        /\ Mature(q) /\ q \in collected
    <2>1. DOMAIN baseSeqNum = Dest /\ \A d \in Dest : IsBucket(baseSeqNum[d], Nat)
      BY BucketsType DEF TypeOK
    <2>2. CASE worker[w].stage = "done" /\ ~worker[w].missed
      <3>1. PICK next : next = [baseSeqNum EXCEPT ![q.dst] = Put(@, q.sequence, kept)]
        OBVIOUS
      <3>2. DOMAIN next = Dest /\ next[q.dst] = Put(baseSeqNum[q.dst], q.sequence, kept)
            /\ \A d \in Dest \ {q.dst} : next[d] = baseSeqNum[d]
        BY <1>4, <2>1, <3>1
      <3>3. IsFiled(baseSeqNum, Nat, q.dst, q.sequence, kept, next)
        BY <1>4, <1>6, <2>1, <3>2, Filed
      <3>4. baseSeqNum' = next
        BY <1>8, <2>2, <3>1
      <3> QED
        BY <1>3, <2>2, <3>3, <3>4 DEF IsFiled
    <2>3. CASE ~(worker[w].stage = "done" /\ ~worker[w].missed)
      BY <1>8, <2>1, <2>3
    <2> QED
      BY <2>2, <2>3
  <1>11. ChainInv' /\ Grows
    BY <1>1, ExternalKept
  <1>12. TypeOK'
    <2>1. DOMAIN worker' = Workers /\ \A v \in Workers : worker'[v] = Idle \/ worker'[v] = worker[v]
      BY <1>1 DEF TypeOK
    <2> QED
      BY <1>1, <1>9, <1>10, <2>1 DEF TypeOK, external, feed, counters, IsBucket
  <1>13. DatabaseInv'
    <2> SUFFICES ASSUME NEW d \in Dest
                 PROVE  /\ \A k \in DOMAIN baseSeqNum'[d] :
                              \E p \in Emitted \cap collected :
                                 /\ p.dst = d /\ p.sequence = k /\ p.height + WaitHeight <= height
                                 /\ Client = "ethereum" => baseSeqNum'[d][k] = p.height
                        /\ \A k \in DOMAIN retryNS'[d] :
                              \E p \in Emitted : /\ p = retryNS'[d][k] /\ p.dst = d /\ p.sequence = k
                                               /\ p.height + WaitHeight <= height
      BY <1>1 DEF DatabaseInv, Mature, Emitted, external
    <2>1. ASSUME NEW k \in DOMAIN baseSeqNum'[d]
          PROVE  \E p \in Emitted \cap collected :
                    /\ p.dst = d /\ p.sequence = k /\ p.height + WaitHeight <= height
                    /\ Client = "ethereum" => baseSeqNum'[d][k] = p.height
      BY <1>6, <1>10, <2>1 DEF DatabaseInv, Mature
    <2>2. ASSUME NEW k \in DOMAIN retryNS'[d]
          PROVE  \E p \in Emitted : /\ p = retryNS'[d][k] /\ p.dst = d /\ p.sequence = k
                                   /\ p.height + WaitHeight <= height
      BY <1>9, <2>2 DEF DatabaseInv, Mature
    <2> QED
      BY <2>1, <2>2
  <1>14. QueueInv' /\ WorkerInv' /\ WindowInv' /\ DeletionInv'
    <2>1. QueueInv'
      BY <1>1, <1>11, QueueKept
    <2>2. WorkerInv'
      <3>1. \A v \in Workers : worker'[v] = Idle \/ worker'[v] = worker[v]
        BY <1>1 DEF TypeOK
      <3> QED
        BY <1>11, <3>1, WorkerKept
    <2>3. WindowInv'
      BY <1>1, <1>11, WindowKept DEF feed
    <2>4. DeletionInv'
      BY <1>1, <1>10, <1>11, DeletionKept
    <2> QED
      BY <2>1, <2>2, <2>3, <2>4
  <1>15. ASSUME crashes = 0
         PROVE  FeedNotAhead' /\ \A p \in Emitted' : Kept(p)'
    <2>1. FeedNotAhead /\ \A p \in Emitted : Kept(p)
      BY <1>15 DEF KeptInv
    <2>2. FeedNotAhead'
      BY <1>1, <2>1, FeedStaysBehind DEF feed
    <2>3. ASSUME NEW p \in Emitted
          PROVE  Kept(p)'
      <3>1. p.dst \in Dest
        BY EmittedType
      <3>2. CASE p \in collected \/ ToBeFed(p)
        BY <1>1, <3>2 DEF Kept, ToBeFed, feed
      <3>3. CASE InGap(p)
        BY <1>10, <3>1, <3>3 DEF Kept, InGap
      <3>4. CASE p.sequence \in DOMAIN retryNS[p.dst]
        BY <1>9, <3>1, <3>4 DEF Kept
      <3>5. CASE \E f \in Feeder \ {"missed"} : p \in queue[f]
        BY <1>1, <3>5 DEF Kept, Held
      <3>6. CASE \E v \in Workers : worker[v] # Idle /\ ~worker[v].missed /\ worker[v].pkt = p
        <4>1. PICK v \in Workers : worker[v] # Idle /\ ~worker[v].missed /\ worker[v].pkt = p
          BY <3>6
        <4>2. CASE v = w
          <5>1. p = q /\ ~worker[w].missed
            BY <1>3, <4>1, <4>2
          <5> QED
            BY <1>1, <1>3, <1>9, <5>1 DEF Kept
        <4>3. CASE v # w
          <5>1. worker'[v] = worker[v]
            BY <1>1, <4>3 DEF TypeOK
          <5> QED
            BY <4>1, <5>1 DEF Kept, Held
        <4> QED
          BY <4>2, <4>3
      <3> QED
        BY <2>1, <3>2, <3>3, <3>4, <3>5, <3>6 DEF Kept, Held
    <2> QED
      BY <1>1, <2>2, <2>3 DEF Emitted, external
  <1> QED
    BY <1>1, <1>11, <1>12, <1>13, <1>14, <1>15 DEF KeptInv, counters

-----------------------------------------------------------------------------
(* Where the feed starts, and restarts after a crash. *)

LEMMA StartType ==
    ASSUME TypeOK, ChainInv, DatabaseInv, NEW d \in Dest
    PROVE  /\ GetStartingSeqNumAndHeight(baseSeqNum[d]).seqNum \in Nat
           /\ GetStartingSeqNumAndHeight(baseSeqNum[d]).height \in Nat
  <1>1. PICK ns : ns = baseSeqNum[d]
    OBVIOUS
  <1>2. DOMAIN ns \subseteq Nat /\ ns \in [DOMAIN ns -> Nat]
    BY <1>1 DEF TypeOK
  <1>3. CASE ns = EmptyBucket
    BY <1>1, <1>3 DEF GetStartingSeqNumAndHeight
  <1>4. CASE ns # EmptyBucket
    <2>1. DOMAIN ns # {}
      BY <1>2, <1>4, EmptyDomain
    <2>2. Len(chain) \in Nat /\ \A k \in DOMAIN ns : k <= Len(chain)
      BY <1>1, CompletedBounded DEF TypeOK
    <2>3. getLastKey(ns) \in DOMAIN ns
      BY <1>2, <2>1, <2>2, LastKey
    <2>4. getLastKey(ns) \in Nat /\ ns[getLastKey(ns)] \in Nat
      BY <1>2, <2>3
    <2> QED
      BY <1>1, <1>4, <2>4 DEF GetStartingSeqNumAndHeight
  <1> QED
    BY <1>3, <1>4

LEMMA FeedStartType ==
    ASSUME TypeOK, ChainInv, DatabaseInv
    PROVE  FeedStart \in IF Client = "ethereum" THEN Nat ELSE [Dest -> Nat]
  <1>1. CASE Client = "ethereum"
    <2> DEFINE heights == {GetStartingSeqNumAndHeight(baseSeqNum[d]).height : d \in Dest}
    <2>1. heights \subseteq Nat
      BY StartType
    <2>2. heights # {}
      <3>1. DestChains[1] \in Dest
        BY ChainServiceAssumption DEF Dest
      <3> QED
        BY <3>1
    <2> HIDE DEF heights
    <2>3. Min(heights) \in Nat
      BY <2>1, <2>2, MinIsLeast
    <2> QED
      BY <1>1, <2>3 DEF FeedStart, heights
  <1>2. CASE Client # "ethereum"
    <2>1. \A d \in Dest : Max({1, GetStartingSeqNumAndHeight(baseSeqNum[d]).seqNum}) \in Nat
      BY StartType, MaxOfTwo
    <2> QED
      BY <1>2, <2>1 DEF FeedStart
  <1> QED
    BY <1>1, <1>2

(* Only what the invariant says of the database and of the source chain is *)
(* needed after a crash.                                                   *)
LEMMA CrashStep ==
    ASSUME ChainServiceInv, Crash
    PROVE  ChainServiceInv'
  <1> USE DEF ChainServiceInv
  <1>1. /\ crashes' = crashes + 1 /\ feedPos' = FeedStart
        /\ windowEnd' = 0 /\ feedLimit' = 0
        /\ queue' = [f \in Feeder |-> {}]
        /\ retryIndex' = 1 /\ pruneIndex' = 1 /\ toDelete' = {}
        /\ worker' = [w \in Workers |-> Idle]
        /\ UNCHANGED <<external, collected, database, failures, missed>>
    BY DEF Crash
  <1>2. ChainInv' /\ Grows
    BY <1>1, ExternalKept
  <1>3. crashes \in Nat /\ crashes' \in Nat /\ crashes' # 0
    BY <1>1 DEF TypeOK
  <1>4. TypeOK'
    <2>1. 1 \in DOMAIN DestChains
      BY ChainServiceAssumption
    <2> QED
      BY <1>1, <1>3, <2>1, FeedStartType DEF TypeOK, external, database
  <1>5. DatabaseInv'
    BY <1>1, <1>2, DatabaseKept
  <1>6. QueueInv' /\ WorkerInv' /\ DeletionInv'
    BY <1>1 DEF QueueInv, WorkerInv, DeletionInv
  <1>7. WindowInv'
    <2>1. WaitHeight \in Nat /\ StartHeight \in Nat /\ WaitHeight <= StartHeight
          /\ MaxHeight \in Nat /\ height' \in StartHeight .. MaxHeight
      BY <1>2, ChainServiceAssumption DEF ChainInv
    <2> QED
      BY <1>1, <2>1 DEF WindowInv, Feeder
  <1> QED
    BY <1>2, <1>3, <1>4, <1>5, <1>6, <1>7 DEF KeptInv

-----------------------------------------------------------------------------
(* The invariant and the theorems. *)

LEMMA InitNumbers ==
    ASSUME Init
    PROVE  chain \in Seq(PacketType) /\ ChainInv
  <1>1. PICK dsts \in Before :
            chain = [i \in DOMAIN dsts |-> [dst |-> dsts[i], height |-> StartHeight,
                                            sequence |-> NextSequence(SubSeq(dsts, 1, i - 1), dsts[i])]]
    BY DEF Init
  <1>2. PICK n \in Nat : /\ n = Len(dsts) /\ DOMAIN dsts = 1 .. n
                         /\ \A i \in 1 .. n : dsts[i] \in Dest
    BY ChainServiceAssumption
  <1>3. ASSUME NEW i \in 1 .. n
        PROVE  /\ NextSequence(SubSeq(dsts, 1, i - 1), dsts[i]) \in Nat
               /\ NextSequence(SubSeq(dsts, 1, i - 1), dsts[i]) = Cardinality(Counted(i))
    <2> DEFINE before == {j \in 1 .. i - 1 : Client = "aleo" => dsts[j] = dsts[i]}
    <2>1. /\ DOMAIN SubSeq(dsts, 1, i - 1) = 1 .. i - 1
          /\ \A j \in 1 .. i - 1 : SubSeq(dsts, 1, i - 1)[j] = dsts[j]
      <3>1. dsts \in Seq(Dest) /\ i - 1 \in 0 .. Len(dsts)
        BY <1>2, ChainServiceAssumption
      <3> QED
        BY <3>1
    <2>2. {j \in DOMAIN SubSeq(dsts, 1, i - 1) : Client = "aleo" => SubSeq(dsts, 1, i - 1)[j] = dsts[i]}
          = before
      BY <2>1
    <2>3. Counted(i) = before \cup {i}
      <3>1. 1 .. i = (1 .. i - 1) \cup {i} /\ 1 .. i \subseteq 1 .. n
        BY <1>2
      <3>2. \A j \in 1 .. n : chain[j].dst = dsts[j]
        BY <1>1, <1>2
      <3> QED
        BY <3>1, <3>2 DEF Counted
    <2>4. IsFiniteSet(before) /\ Cardinality(before) \in Nat
      <3>1. IsFiniteSet(1 .. i - 1)
        BY <1>2, FS_Interval
      <3> QED
        BY <3>1, FS_Subset, FS_CardinalityType
    <2>5. i \notin before
      BY <1>2
    <2> HIDE DEF before
    <2>6. Cardinality(before \cup {i}) = Cardinality(before) + 1
      BY <2>4, <2>5, FS_AddElement
    <2>7. NextSequence(SubSeq(dsts, 1, i - 1), dsts[i]) = 1 + Cardinality(before)
      BY <2>2 DEF NextSequence
    <2>8. Cardinality(Counted(i)) = Cardinality(before \cup {i})
      BY <2>3
    <2> QED
      BY <2>4, <2>6, <2>7, <2>8
  <1>4. /\ DOMAIN chain = 1 .. n
        /\ \A i \in 1 .. n : /\ chain[i] \in PacketType /\ chain[i].height = StartHeight
                             /\ chain[i].sequence = Cardinality(Counted(i))
    BY <1>1, <1>2, <1>3, ChainServiceAssumption DEF PacketType
  <1>5. chain \in Seq(PacketType)
    <2>1. chain \in [1 .. n -> PacketType]
      BY <1>1, <1>2, <1>4
    <2> QED
      BY <2>1
  <1>6. height = StartHeight /\ height \in StartHeight .. MaxHeight
    BY ChainServiceAssumption DEF Init
  <1> QED
    BY <1>4, <1>5, <1>6, ChainServiceAssumption DEF ChainInv

LEMMA ChainServiceInvInit == Init => ChainServiceInv
  <1> SUFFICES ASSUME Init PROVE ChainServiceInv
    OBVIOUS
  <1>1. /\ height = StartHeight /\ collected = {}
        /\ baseSeqNum = [d \in Dest |-> EmptyBucket] /\ retryNS = [d \in Dest |-> EmptyBucket]
        /\ feedPos = FeedStart /\ windowEnd = 0 /\ feedLimit = 0
        /\ queue = [f \in Feeder |-> {}] /\ retryIndex = 1 /\ pruneIndex = 1 /\ toDelete = {}
        /\ worker = [w \in Workers |-> Idle]
        /\ failures = 0 /\ crashes = 0 /\ missed = 0
    BY DEF Init
  <1>2. chain \in Seq(PacketType) /\ ChainInv
    BY InitNumbers
  <1>3. \A d \in Dest : GetStartingSeqNumAndHeight(baseSeqNum[d]) = [seqNum |-> 0, height |-> 0]
    BY <1>1 DEF GetStartingSeqNumAndHeight
  <1>4. DestChains[1] \in Dest /\ 1 \in DOMAIN DestChains
    BY ChainServiceAssumption DEF Dest
  <1>5. Client = "ethereum" => feedPos = 0
    <2>1. {GetStartingSeqNumAndHeight(baseSeqNum[d]).height : d \in Dest} = {0}
      BY <1>3, <1>4
    <2>2. Min({0}) = 0
      BY MinIsLeast
    <2> QED
      BY <1>1, <2>1, <2>2 DEF FeedStart
  <1>6. Client # "ethereum" => feedPos = [d \in Dest |-> 1]
    <2>1. Max({1, 0}) = 1
      BY MaxOfTwo
    <2> QED
      BY <1>1, <1>3, <2>1 DEF FeedStart
  <1>7. TypeOK
    <2>1. \A d \in Dest : /\ DOMAIN baseSeqNum[d] \subseteq Nat /\ DOMAIN retryNS[d] \subseteq Nat
                          /\ baseSeqNum[d] \in [DOMAIN baseSeqNum[d] -> Nat]
                          /\ retryNS[d] \in [DOMAIN retryNS[d] -> PacketType]
      BY <1>1 DEF EmptyBucket
    <2>2. feedPos \in IF Client = "ethereum" THEN Nat ELSE [Dest -> Nat]
      BY <1>5, <1>6
    <2> QED
      BY <1>1, <1>2, <1>4, <2>1, <2>2, ChainServiceAssumption DEF TypeOK
  <1>8. DatabaseInv
    BY <1>1 DEF DatabaseInv, EmptyBucket
  <1>9. QueueInv /\ WorkerInv /\ DeletionInv
    BY <1>1 DEF QueueInv, WorkerInv, DeletionInv
  <1>10. WindowInv
    BY <1>1, ChainServiceAssumption DEF WindowInv, Feeder
  <1>11. FeedNotAhead
    <2>1. \A d \in Dest : 1 <= NextTo(d)
      BY <1>7, NextNumber
    <2> QED
      BY <1>1, <1>5, <1>6, <2>1, ChainServiceAssumption DEF FeedNotAhead
  <1>12. ASSUME NEW p \in Emitted
         PROVE  Kept(p)
    <2>1. p.dst \in Dest /\ p.height \in Nat /\ p.sequence \in 1 .. Len(chain) /\ Len(chain) \in Nat
      BY <1>2, <1>7, EmittedType, EmittedHeight
    <2> QED
      BY <1>1, <1>5, <1>6, <2>1 DEF Kept, ToBeFed
  <1> QED
    BY <1>2, <1>7, <1>8, <1>9, <1>10, <1>11, <1>12 DEF ChainServiceInv, KeptInv

LEMMA StutterStep ==
    ASSUME ChainServiceInv, UNCHANGED vars
    PROVE  ChainServiceInv'
  <1> USE DEF ChainServiceInv
  <1>1. UNCHANGED <<external, collected, database, feed, queue, retryIndex, pruneIndex,
                    toDelete, worker, counters>>
    BY DEF vars
  <1>2. ChainInv' /\ Grows
    BY <1>1, ExternalKept
  <1>3. TypeOK'
    BY <1>1 DEF TypeOK, external, database, feed, counters
  <1>4. DatabaseInv' /\ QueueInv' /\ WorkerInv' /\ WindowInv' /\ DeletionInv'
    <2>1. DatabaseInv'
      BY <1>1, <1>2, DatabaseKept
    <2>2. QueueInv'
      BY <1>1, <1>2, QueueKept
    <2>3. WorkerInv'
      BY <1>1, <1>2, WorkerKept
    <2>4. WindowInv'
      BY <1>1, <1>2, WindowKept DEF feed
    <2>5. DeletionInv'
      BY <1>1, <1>2, DeletionKept DEF database
    <2> QED
      BY <2>1, <2>2, <2>3, <2>4, <2>5
  <1>5. ASSUME crashes = 0
        PROVE  FeedNotAhead' /\ \A p \in Emitted' : Kept(p)'
    <2>1. FeedNotAhead /\ \A p \in Emitted : Kept(p)
      BY <1>5 DEF KeptInv
    <2>2. FeedNotAhead'
      BY <1>1, <2>1, FeedStaysBehind DEF feed
    <2>3. \A p \in Emitted : Kept(p)'
      BY <1>1, <2>1, PacketKept DEF Kept, Held, feed
    <2> QED
      BY <1>1, <2>2, <2>3 DEF Emitted, external
  <1> QED
    BY <1>1, <1>2, <1>3, <1>4, <1>5 DEF KeptInv, counters

LEMMA ChainServiceInvStep == ChainServiceInv /\ [Next]_vars => ChainServiceInv'
  <1> SUFFICES ASSUME ChainServiceInv, [Next]_vars
               PROVE  ChainServiceInv'
    OBVIOUS
  <1>1. ASSUME NEW d \in Dest, Emit(d) PROVE ChainServiceInv'
    BY <1>1, EmitStep
  <1>2. CASE NewBlock
    BY <1>2, NewBlockStep
  <1>3. CASE FetchWindow
    BY <1>3, FetchWindowStep
  <1>4. CASE WindowFed
    BY <1>4, WindowFedStep
  <1>5. ASSUME NEW d \in Dest, FetchNext(d) PROVE ChainServiceInv'
    BY <1>5, FetchNextStep
  <1>6. CASE RetryFeed
    BY <1>6, RetryFeedStep
  <1>7. CASE Prune \/ PruneReadFails
    BY <1>7, PruneSteps
  <1>8. ASSUME NEW x \in toDelete, PruneDelete(x) PROVE ChainServiceInv'
    BY <1>8, PruneDeleteStep
  <1>9. ASSUME NEW p \in Emitted, MissedPacket(p) PROVE ChainServiceInv'
    BY <1>9, MissedPacketStep
  <1>10. ASSUME NEW f \in Feeder, NEW w \in Workers, Take(f, w) PROVE ChainServiceInv'
    BY <1>10, TakeStep
  <1>11. ASSUME NEW w \in Workers,
                HashAndSign(w) \/ SendToCollector(w) \/ SignFails(w) \/ SendFails(w)
         PROVE  ChainServiceInv'
    BY <1>11, ProcessSteps
  <1>12. ASSUME NEW w \in Workers, Finish(w) PROVE ChainServiceInv'
    BY <1>12, FinishStep
  <1>13. CASE Crash
    BY <1>13, CrashStep
  <1>14. CASE UNCHANGED vars
    BY <1>14, StutterStep
  <1> QED
    BY <1>1, <1>2, <1>3, <1>4, <1>5, <1>6, <1>7, <1>8, <1>9, <1>10, <1>11, <1>12, <1>13, <1>14
    DEF Next, Process

(* The inductive invariant holds in every reachable state: each packet in  *)
(* the service's memory or database is emitted, matured, filed under its   *)
(* number and, where it is completed, delivered; and without a crash every *)
(* packet is in one of these places or delivered.                          *)
THEOREM Invariance == Spec => []ChainServiceInv
  BY ChainServiceInvInit, ChainServiceInvStep, PTL DEF Spec

(* Type correctness of the chain service's state. *)
THEOREM TypeCorrect == Spec => []TypeOK
  <1>1. ChainServiceInv => TypeOK
    BY DEF ChainServiceInv
  <1> QED
    BY <1>1, Invariance, PTL

(* managePacket files a number as completed only when the collector has    *)
(* its signature, whatever fails, is taken twice or is lost in a crash.    *)
THEOREM CompletedIsDelivered == Spec => []CompletedDelivered
  <1>1. ChainServiceInv => CompletedDelivered
    BY DEF ChainServiceInv, DatabaseInv, CompletedDelivered
  <1> QED
    BY <1>1, Invariance, PTL

(* No worker has a packet whose block is less than WaitHeight blocks deep, *)
(* whether fed, retried or refetched to close a gap, unless the collector  *)
(* asked for it.                                                           *)
THEOREM SignedIsMatured == Spec => []OnlyMaturedSigned
  <1>1. ChainServiceInv => OnlyMaturedSigned
    BY DEF ChainServiceInv, WorkerInv, Mature, OnlyMaturedSigned
  <1> QED
    BY <1>1, Invariance, PTL

(* Failed signatures, failed deliveries, failed reads of the chain and     *)
(* packets reported missed do not make the attestor forget a packet: only  *)
(* a crash can, between taking a packet and storing its outcome.           *)
THEOREM OnlyCrashForgets == Spec => []ForgottenOnlyByCrash
  <1>1. ChainServiceInv => ForgottenOnlyByCrash
    <2> SUFFICES ASSUME ChainServiceInv, crashes = 0, NEW p \in Emitted
                 PROVE  Handled(p)
      BY DEF ForgottenOnlyByCrash, NoPacketForgotten
    <2>1. Kept(p)
      BY DEF ChainServiceInv, KeptInv
    <2>2. Held(p) => InMemory(p)
      BY DEF Held, InMemory
    <2> QED
      BY <2>1, <2>2 DEF Kept, Handled, ExistInGivenNamespace, existsInGivenBucket
  <1> QED
    BY <1>1, Invariance, PTL

-----------------------------------------------------------------------------
(* The resume point. *)

(* A namespace in which every number has one at least as great afterwards  *)
(* does not lose its last number.                                          *)
LEMMA LastKeyGrows ==
    ASSUME NEW ns, IsBucket(ns, Nat), ns # EmptyBucket,
           NEW next, IsBucket(next, Nat),
           NEW B \in Nat, \A k \in DOMAIN ns : k <= B, \A k \in DOMAIN next : k <= B,
           \A k \in DOMAIN ns : \E b \in DOMAIN next : k <= b
    PROVE  next # EmptyBucket /\ getLastKey(next) >= getLastKey(ns)
  <1>1. DOMAIN ns \subseteq Nat /\ DOMAIN next \subseteq Nat
    BY DEF IsBucket
  <1>2. DOMAIN ns # {}
    BY EmptyDomain DEF IsBucket
  <1>3. getLastKey(ns) \in DOMAIN ns
    BY <1>1, <1>2, LastKey
  <1>4. PICK b \in DOMAIN next : getLastKey(ns) <= b
    BY <1>3
  <1>5. getLastKey(next) \in DOMAIN next /\ b <= getLastKey(next)
    BY <1>1, <1>4, LastKey
  <1>6. next # EmptyBucket
    BY <1>4 DEF EmptyBucket
  <1> QED
    BY <1>1, <1>3, <1>4, <1>5, <1>6

(* Only two actions change the completed numbers. *)
LEMMA CompletedChanges ==
    ASSUME [Next]_vars
    PROVE  \/ UNCHANGED baseSeqNum
           \/ \E w \in Workers : Finish(w)
           \/ \E x \in toDelete : PruneDelete(x)
  BY DEF Next, vars, database, Emit, NewBlock, FetchWindow, WindowFed, FetchNext, RetryFeed,
         Prune, PruneReadFails, PruneFetching, MissedPacket, Take, Process, HashAndSign,
         SendToCollector, SignFails, SendFails, SetStage, Crash

LEMMA ResumePointStep ==
    ASSUME ChainServiceInv, [Next]_vars, NEW d \in Dest, baseSeqNum[d] # EmptyBucket
    PROVE  baseSeqNum'[d] # EmptyBucket /\ getLastKey(baseSeqNum'[d]) >= getLastKey(baseSeqNum[d])
  <1> USE DEF ChainServiceInv
  <1>1. PICK ns : ns = baseSeqNum[d]
    OBVIOUS
  <1>2. PICK next : next = baseSeqNum'[d]
    OBVIOUS
  <1>3. PICK B \in Nat : B = Len(chain)
    BY DEF TypeOK
  <1>4. IsBucket(ns, Nat) /\ \A k \in DOMAIN ns : k <= B
    BY <1>1, <1>3, BucketsType, CompletedBounded
  <1>5. DOMAIN ns \subseteq Nat /\ d \in DOMAIN baseSeqNum
    BY <1>4 DEF IsBucket, TypeOK
  <1>6. ns # EmptyBucket
    BY <1>1
  <1> SUFFICES next # EmptyBucket /\ getLastKey(next) >= getLastKey(ns)
    BY <1>1, <1>2
  <1>7. CASE next = ns
    <2>1. \A k \in DOMAIN ns : k <= k
      BY <1>5
    <2> QED
      BY <1>4, <1>6, <1>7, <2>1, LastKeyGrows
  <1>8. ASSUME NEW w \in Workers, Finish(w)
        PROVE  next # EmptyBucket /\ getLastKey(next) >= getLastKey(ns)
    <2>1. worker[w].stage \in {"done", "failed"}
      BY <1>8 DEF Finish
    <2>2. worker[w] # Idle
      BY <2>1 DEF Idle
    <2>3. PICK q \in Emitted : q = worker[w].pkt
      BY <2>2 DEF WorkerInv
    <2>4. q.sequence \in Nat /\ q.sequence <= B /\ q.height \in Nat
      BY <1>3, EmittedType, EmittedHeight
    <2>5. PICK kept \in Nat : kept = IF Client = "ethereum" THEN q.height ELSE 0
      BY <2>4
    <2>6. next = ns \/ next = Put(ns, q.sequence, kept)
      BY <1>1, <1>2, <1>5, <1>8, <2>3, <2>5 DEF Finish, StoreBaseSeqNum
    <2>7. CASE next = Put(ns, q.sequence, kept)
      <3>1. IsBucket(next, Nat) /\ DOMAIN next = DOMAIN ns \cup {q.sequence}
        BY <1>4, <2>4, <2>7 DEF IsBucket, Put
      <3>2. \A k \in DOMAIN ns : k \in DOMAIN next /\ k <= k
        BY <1>5, <3>1
      <3>3. \A k \in DOMAIN next : k <= B
        BY <1>4, <2>4, <3>1
      <3> QED
        BY <1>4, <1>6, <3>1, <3>2, <3>3, LastKeyGrows
    <2> QED
      BY <1>7, <2>6, <2>7
  <1>9. ASSUME NEW x \in toDelete, PruneDelete(x)
        PROVE  next # EmptyBucket /\ getLastKey(next) >= getLastKey(ns)
    <2>1. next = IF d = x.dst THEN Delete(ns, x.key) ELSE ns
      BY <1>1, <1>2, <1>5, <1>9 DEF PruneDelete, RemoveKey
    <2>2. CASE d = x.dst
      <3>1. IsBucket(next, Nat) /\ DOMAIN next = DOMAIN ns \ {x.key}
        BY <1>4, <2>1, <2>2 DEF IsBucket, Delete
      <3>2. PICK b \in DOMAIN ns : x.key < b
        BY <1>1, <2>2 DEF DeletionInv
      <3>3. x.key \in Nat /\ b \in Nat
        BY <1>5, <3>2 DEF TypeOK
      <3>4. ASSUME NEW k \in DOMAIN ns
            PROVE  \E c \in DOMAIN next : k <= c
        BY <1>5, <3>1, <3>2, <3>3
      <3> QED
        BY <1>4, <1>6, <3>1, <3>4, LastKeyGrows
    <2> QED
      BY <1>7, <2>1, <2>2
  <1>10. ASSUME UNCHANGED baseSeqNum
         PROVE  next # EmptyBucket /\ getLastKey(next) >= getLastKey(ns)
    BY <1>1, <1>2, <1>7, <1>10
  <1> QED
    BY <1>8, <1>9, <1>10, CompletedChanges

(* The last completed number of a destination, where the feed resumes      *)
(* after a crash, never falls: not by the deletions of pruneBaseSeqNum, in *)
(* whatever order its batchDelete calls end.                               *)
THEOREM ResumePointNeverFalls == Spec => ResumePointKept
  <1>1. ChainServiceInv /\ [Next]_vars =>
            [\A d \in Dest : baseSeqNum[d] # EmptyBucket =>
                /\ baseSeqNum'[d] # EmptyBucket
                /\ getLastKey(baseSeqNum'[d]) >= getLastKey(baseSeqNum[d])]_vars
    BY ResumePointStep
  <1> QED
    BY <1>1, Invariance, PTL DEF Spec, ResumePointKept

(* A packet in a gap of the completed numbers stays there, where prune     *)
(* looks for it, until it is delivered, through deletions and crashes.     *)
THEOREM GapsStayUntilDelivered == Spec => GapKeptUntilDelivered
  <1>1. ASSUME ChainServiceInv, [Next]_vars, NEW p \in Emitted, InGap(p), p \notin collected
        PROVE  InGap(p)'
    <2>1. PICK k, l \in DOMAIN baseSeqNum[p.dst] : k < p.sequence /\ p.sequence < l
      BY <1>1 DEF InGap
    <2>2. p.dst \in Dest /\ DOMAIN baseSeqNum = Dest
      BY <1>1, EmittedType DEF ChainServiceInv, TypeOK
    <2>3. CASE UNCHANGED baseSeqNum
      BY <1>1, <2>3 DEF InGap
    <2>4. ASSUME NEW w \in Workers, Finish(w)
          PROVE  InGap(p)'
      <3>1. DOMAIN baseSeqNum[p.dst] \subseteq DOMAIN baseSeqNum'[p.dst]
        BY <2>2, <2>4 DEF Finish, StoreBaseSeqNum, Put
      <3> QED
        BY <2>1, <3>1 DEF InGap
    <2>5. ASSUME NEW x \in toDelete, PruneDelete(x)
          PROVE  InGap(p)'
      BY <1>1, <2>5, GapStays
    <2> QED
      BY <1>1, <2>3, <2>4, <2>5, CompletedChanges
  <1>2. ChainServiceInv /\ [Next]_vars =>
            [\A p \in Emitted : InGap(p) /\ p \notin collected => InGap(p)']_vars
    BY <1>1
  <1> QED
    BY <1>2, Invariance, PTL DEF Spec, GapKeptUntilDelivered
=============================================================================
