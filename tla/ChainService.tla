---------------------------- MODULE ChainService ----------------------------
(***************************************************************************)
(* One attestor's chain service for one source chain                       *)
(* (attestor/chainService): the goroutines that pull packets, retry them,  *)
(* look for gaps and take missed packets from the collector; the workers   *)
(* of relay.consumePackets that sign and deliver; and the bolt database.   *)
(*                                                                         *)
(* Every goroutine that feeds pktCh holds the packets it has fetched and   *)
(* not yet handed over in `queue'; a hand-over on the unbuffered channel   *)
(* is Take.  A crash loses queue, workers and feed position and keeps the  *)
(* database.  The Ethereum client follows block heights, the Aleo client   *)
(* sequence numbers: Client selects one of them.                           *)
(*                                                                         *)
(* The source chain, the signing service and the collector are external.   *)
(* Screening always passes in this build (screen.go); its namespace, and   *)
(* the start, restart and end of these goroutines, are in AttestorProcess. *)
(***************************************************************************)
EXTENDS Store

CONSTANTS
    Client,              \* "ethereum" or "aleo"
    DestChains,          \* destination chains, in the order of the configuration
    Workers,             \* ConsumePacketWorker goroutines
    RetrievePacketNum,   \* packets retryFeed takes at once (10)
    PruneNum,            \* keys PruneBaseSeqNum looks at (1000)
    HeightDifference,    \* defaultHeightDifferenceForFilterLogs (100)
    WaitHeight,          \* blocks until a packet is matured
    HeightModulus,       \* bound: heights of the Ethereum client are unsigned (2^64)
    StartHeight,         \* height of the source chain when the attestor starts
    Before,              \* bound: destinations of the packets emitted before the first start
    MaxPackets,          \* bound: packets the source chain emits
    MaxHeight,           \* bound: last height of the source chain
    MaxFailures,         \* bound: failed calls of the signer or the collector
    MaxCrashes,          \* bound: crashes of the attestor
    MaxMissed,           \* bound: packets the collector reports as missed
    MaxFaults            \* bound: failed calls, crashes and missed packets together

Dest == {DestChains[i] : i \in DOMAIN DestChains}

ASSUME ChainServiceAssumption ==
    /\ Client \in {"ethereum", "aleo"}
    /\ DestChains \in Seq(Dest) /\ DestChains # <<>> /\ Workers # {} /\ Before \subseteq Seq(Dest)
    /\ RetrievePacketNum \in Nat \ {0} /\ PruneNum \in Nat \ {0, 1} /\ HeightDifference \in Nat
    /\ WaitHeight \in Nat /\ StartHeight \in Nat \ {0} /\ MaxHeight \in Nat /\ HeightModulus \in Nat
    /\ WaitHeight <= StartHeight /\ StartHeight <= MaxHeight /\ MaxHeight < HeightModulus
    \* The newest block may still get packets here; it is not one the Ethereum client reads.
    /\ Client = "ethereum" => WaitHeight > 0

Feeder == {"feed", "retry", "prune", "missed"}

VARIABLES
    chain,        \* source chain (external): packets in the order they were emitted
    height,       \* source chain (external): current height
    collected,    \* collector (external): packets this attestor's signature arrived for
    baseSeqNum,   \* database: destination -> its baseSeqNum namespace (a bucket)
    retryNS,      \* database: destination -> its retry namespace (a bucket)
    feedPos,      \* Ethereum: nextBlockHeight; Aleo: destination -> nextSeqNum
    windowEnd,    \* Ethereum: end of the block window being fed, 0 if none
    feedLimit,    \* Ethereum: matured height the feed read before its windows
    queue,        \* feeder -> packets fetched and not yet taken by a worker
    retryIndex, pruneIndex,
    toDelete,     \* keys of the namespace at pruneIndex that prune is deleting
    worker,       \* worker -> [stage, pkt, missed]
    failures, crashes, missed   \* history: counters behind the bounds

external == <<chain, height>>
database == <<baseSeqNum, retryNS>>
counters == <<failures, crashes, missed>>
feed == <<feedPos, windowEnd, feedLimit>>
vars == <<external, collected, database, feed, queue, retryIndex, pruneIndex,
          toDelete, worker, counters>>

Emitted == {chain[i] : i \in DOMAIN chain}

Idle == [stage |-> "idle"]

(* One more of what count counts is within the bounds. *)
Allowed(count, bound) == count < bound /\ failures + crashes + missed < MaxFaults

-----------------------------------------------------------------------------
(* The source chain (external).  The Ethereum bridge numbers its packets   *)
(* over all destinations, the Aleo bridge per destination.                 *)

NextSequence(dsts, d) == 1 + Cardinality({i \in DOMAIN dsts : Client = "aleo" => dsts[i] = d})

Emit(d) ==
    /\ Len(chain) < MaxPackets
    /\ LET dsts == [i \in DOMAIN chain |-> chain[i].dst]
       IN  chain' = Append(chain, [dst |-> d, height |-> height, sequence |-> NextSequence(dsts, d)])
    /\ UNCHANGED <<height, collected, database, feed, queue, retryIndex, pruneIndex,
                   toDelete, worker, counters>>

NewBlock ==
    /\ height < MaxHeight
    /\ height' = height + 1
    /\ UNCHANGED <<chain, collected, database, feed, queue, retryIndex, pruneIndex,
                   toDelete, worker, counters>>

(* blockHeightPriorWaitDur: the Ethereum client computes it unsigned. *)
maturedHeight ==
    IF Client = "ethereum" THEN (height - WaitHeight) % HeightModulus ELSE height - WaitHeight

-----------------------------------------------------------------------------
(* Starting position: after the last key of the baseSeqNum namespace.      *)

FeedStart ==
    IF Client = "ethereum"
    THEN Min({GetStartingSeqNumAndHeight(baseSeqNum[d]).height : d \in Dest})
    ELSE [d \in Dest |-> Max({1, GetStartingSeqNumAndHeight(baseSeqNum[d]).seqNum})]

(* Mutant of FetchWindow: blocks are fed before they have matured. *)
FetchTooEarly ==
    /\ Client = "ethereum" /\ windowEnd = 0
    /\ feedPos <= height
    /\ queue' = [queue EXCEPT !["feed"] = {p \in Emitted : p.height \in feedPos .. height}]
    /\ windowEnd' = height
    /\ UNCHANGED <<external, collected, database, feedPos, feedLimit, retryIndex, pruneIndex,
                   toDelete, worker, counters>>

(* Ethereum FeedPacket: fetch the packets of one window of matured blocks. *)
(* The matured height is read before the windows up to it are fetched, and *)
(* again after a failed fetch.  nextBlockHeight moves on once every packet *)
(* of the window is handed over.                                           *)
FetchWindow ==
    /\ Client = "ethereum" /\ windowEnd = 0
    /\ \E limit \in {feedLimit, maturedHeight} :
         LET end == Min({feedPos + HeightDifference, limit})
         IN  /\ feedPos <= limit
             /\ queue' = [queue EXCEPT !["feed"] = {p \in Emitted : p.height \in feedPos .. end}]
             /\ windowEnd' = end
             /\ feedLimit' = limit
    /\ UNCHANGED <<external, collected, database, feedPos, retryIndex, pruneIndex, toDelete,
                   worker, counters>>

(* Mutant of WindowFed: one block is skipped between two windows. *)
WindowSkipsBlock ==
    /\ Client = "ethereum" /\ windowEnd # 0 /\ queue["feed"] = {}
    /\ feedPos' = windowEnd + 2
    /\ windowEnd' = 0
    /\ UNCHANGED <<external, collected, database, feedLimit, queue, retryIndex, pruneIndex, toDelete,
                   worker, counters>>

WindowFed ==
    /\ Client = "ethereum" /\ windowEnd # 0 /\ queue["feed"] = {}
    /\ feedPos' = windowEnd + 1
    /\ windowEnd' = 0
    /\ UNCHANGED <<external, collected, database, feedLimit, queue, retryIndex, pruneIndex, toDelete,
                   worker, counters>>

(* Aleo feedPacket: fetch the next packet of destination d once matured.   *)
(* The goroutines of the destinations share queue["feed"].                 *)
FetchNext(d) ==
    /\ Client = "aleo"
    /\ \A p \in queue["feed"] : p.dst # d
    /\ \E p \in Emitted :
         /\ p.dst = d /\ p.sequence = feedPos[d] /\ p.height <= maturedHeight
         /\ queue' = [queue EXCEPT !["feed"] = @ \cup {p}]
    /\ feedPos' = [feedPos EXCEPT ![d] = @ + 1]
    /\ UNCHANGED <<external, collected, database, windowEnd, feedLimit, retryIndex, pruneIndex, toDelete,
                   worker, counters>>

-----------------------------------------------------------------------------
(* retryFeed: take the first packets out of the retry namespace at the     *)
(* index, in one transaction; the index moves on even if there are none.   *)

(* Mutants of Rotate: the index runs off the list, or never moves. *)
RotateOffEnd(i) == i + 1

RotateStays(i) == i

Rotate(i) == (i % Len(DestChains)) + 1

RetryFeed ==
    /\ queue["retry"] = {}
    /\ LET d     == DestChains[retryIndex]
           batch == RetrieveAndDeleteNPackets(retryNS[d], RetrievePacketNum)
       IN  /\ queue' = [queue EXCEPT !["retry"] = batch.values]
           /\ retryNS' = [retryNS EXCEPT ![d] = batch.bucket]
    /\ retryIndex' = Rotate(retryIndex)
    /\ UNCHANGED <<external, collected, baseSeqNum, feed, pruneIndex, toDelete,
                   worker, counters>>

-----------------------------------------------------------------------------
(* pruneBaseSeqNum *)

pruned(d) == PruneBaseSeqNum(baseSeqNum[d], PruneNum)

(* Mutant of GapPackets: the last packet of the gap is left out. *)
GapPacketsShort(d) ==
    {p \in Emitted : /\ p.dst = d
                     /\ p.sequence > pruned(d).base[1] /\ p.sequence < pruned(d).next[1] - 1}

(* The packets to fetch again: on Ethereum those of the gap, found by      *)
(* their blocks; on Aleo from the base key on.                             *)
GapPackets(d) ==
    LET gap == pruned(d)
    IN  IF ~gap.shouldFetch THEN {}
        ELSE {p \in Emitted :
                /\ p.dst = d /\ p.sequence < gap.next[1]
                /\ IF Client = "ethereum"
                   THEN p.sequence > gap.base[1] /\ p.height \in gap.base[2] .. gap.next[2]
                   ELSE p.sequence >= gap.base[1]}

(* What is fetched of ps if one call to the chain fails: the Ethereum      *)
(* client gives up at a window of blocks, the Aleo client goes on.         *)
PartlyFetched(ps) ==
    IF Client = "ethereum" THEN {{p \in ps : p.height < q.height} : q \in ps}
    ELSE {ps \ {p} : p \in ps}

(* Mutant of PruneRotates: the Aleo client rotates as the Ethereum one. *)
RotatesOnGapOnly(d) == pruned(d).shouldFetch

(* The Ethereum client skips the rotation of the index when there is no    *)
(* gap to fetch (client.go: `continue'); the Aleo client always rotates.   *)
PruneRotates(d) == Client = "aleo" \/ pruned(d).shouldFetch

(* One round: d is the namespace at the index, ps what is fetched for it. *)
PruneFetching(d, ps) ==
    /\ d = DestChains[pruneIndex]
    /\ queue["prune"] = {} /\ toDelete = {}
    /\ UNCHANGED <<external, collected, database, feed, retryIndex, worker, crashes,
                   missed>>
    /\ toDelete' = {[dst |-> d, key |-> k] : k \in pruned(d).toDelete}
    /\ queue' = [queue EXCEPT !["prune"] = ps]
    /\ pruneIndex' = IF PruneRotates(d) THEN Rotate(pruneIndex) ELSE pruneIndex

Prune == \E d \in Dest : PruneFetching(d, GapPackets(d)) /\ UNCHANGED failures

PruneReadFails ==
    /\ Allowed(failures, MaxFailures)
    /\ \E d \in Dest : \E ps \in PartlyFetched(GapPackets(d)) : PruneFetching(d, ps)
    /\ failures' = failures + 1

(* The keys are deleted by concurrent batchDelete calls, in any order; the *)
(* packets of the gap are sent when all are gone.                          *)
PruneDelete(x) ==
    /\ x \in toDelete
    /\ toDelete' = toDelete \ {x}
    /\ baseSeqNum' = [baseSeqNum EXCEPT ![x.dst] = RemoveKey(@, x.key)]
    /\ UNCHANGED <<external, collected, retryNS, feed, queue, retryIndex, pruneIndex,
                   worker, counters>>

-----------------------------------------------------------------------------
(* consumeMissedPackets: the collector reports a packet that it misses.    *)

MissedPacket(p) ==
    /\ Allowed(missed, MaxMissed)
    /\ queue["missed"] = {}
    /\ p \notin collected
    /\ queue' = [queue EXCEPT !["missed"] = {p}]
    /\ missed' = missed + 1
    /\ UNCHANGED <<external, collected, database, feed, retryIndex, pruneIndex,
                   toDelete, worker, failures, crashes>>

-----------------------------------------------------------------------------
(* consumePackets and processPacket *)

(* A goroutine hands its packets over by their sequence numbers, which on  *)
(* Aleo count each destination on its own.                                 *)
Precedes(p, q) == p.sequence < q.sequence /\ (Client = "aleo" => p.dst = q.dst)

(* A free worker receives the next packet of one of the feeders. *)
Take(f, w) ==
    /\ worker[w] = Idle
    /\ f = "prune" => toDelete = {}
    /\ \E p \in queue[f] :
         /\ \A q \in queue[f] : ~Precedes(q, p)
         /\ worker' = [worker EXCEPT ![w] = [stage |-> "received", pkt |-> p,
                                             missed |-> f = "missed"]]
         /\ queue' = [queue EXCEPT ![f] = @ \ {p}]
    /\ UNCHANGED <<external, collected, database, feed, retryIndex, pruneIndex,
                   toDelete, counters>>

SetStage(w, from, to) ==
    /\ worker[w].stage = from
    /\ worker' = [worker EXCEPT ![w].stage = to]
    /\ UNCHANGED <<external, database, feed, queue, retryIndex, pruneIndex, toDelete,
                   crashes, missed>>

(* Mutant of HashAndSign: the packet is done before it is delivered. *)
SignedIsDone(w) ==
    /\ SetStage(w, "received", "done")
    /\ UNCHANGED <<collected, failures>>

HashAndSign(w) ==
    /\ SetStage(w, "received", "signed")
    /\ UNCHANGED <<collected, failures>>

(* A first delivery and a "Duplicate packet" answer both count as success. *)
SendToCollector(w) ==
    /\ SetStage(w, "signed", "done")
    /\ collected' = collected \cup {worker[w].pkt}
    /\ UNCHANGED failures

SignFails(w) ==
    /\ Allowed(failures, MaxFailures)
    /\ SetStage(w, "received", "failed")
    /\ failures' = failures + 1
    /\ UNCHANGED collected

(* The call fails or times out, before or after the collector stored it.   *)
SendFails(w) ==
    /\ Allowed(failures, MaxFailures)
    /\ SetStage(w, "signed", "failed")
    /\ collected' \in {collected, collected \cup {worker[w].pkt}}
    /\ failures' = failures + 1

(* Mutant of Finish: a failed packet is not put into the retry namespace. *)
FinishDropsFailed(w) ==
    /\ worker[w].stage \in {"done", "failed"}
    /\ LET pkt == worker[w].pkt
       IN  baseSeqNum' = IF worker[w].stage = "done" /\ ~worker[w].missed
                         THEN [baseSeqNum EXCEPT ![pkt.dst] = StoreBaseSeqNum(@, pkt.sequence, pkt.height)]
                         ELSE baseSeqNum
    /\ worker' = [worker EXCEPT ![w] = Idle]
    /\ UNCHANGED <<external, collected, retryNS, feed, queue, retryIndex, pruneIndex,
                   toDelete, counters>>

(* The deferred function: managePacket stores the outcome, except for a    *)
(* packet that came from the collector.  Aleo keeps no height.             *)
Finish(w) ==
    /\ worker[w].stage \in {"done", "failed"}
    /\ LET pkt     == worker[w].pkt
           stored  == ~worker[w].missed
           kept    == IF Client = "ethereum" THEN pkt.height ELSE 0
       IN  /\ retryNS' = IF worker[w].stage = "failed" /\ stored
                         THEN [retryNS EXCEPT ![pkt.dst] = StoreRetryPacket(@, pkt)] ELSE retryNS
           /\ baseSeqNum' = IF worker[w].stage = "done" /\ stored
                            THEN [baseSeqNum EXCEPT ![pkt.dst] = StoreBaseSeqNum(@, pkt.sequence, kept)]
                            ELSE baseSeqNum
    /\ worker' = [worker EXCEPT ![w] = Idle]
    /\ UNCHANGED <<external, collected, feed, queue, retryIndex, pruneIndex, toDelete,
                   counters>>

(* Crash and restart: only the database survives. *)
Crash ==
    /\ Allowed(crashes, MaxCrashes)
    /\ crashes' = crashes + 1
    /\ feedPos' = FeedStart
    /\ windowEnd' = 0 /\ feedLimit' = 0
    /\ queue' = [f \in Feeder |-> {}]
    /\ retryIndex' = 1 /\ pruneIndex' = 1
    /\ toDelete' = {}
    /\ worker' = [w \in Workers |-> Idle]
    /\ UNCHANGED <<external, collected, database, failures, missed>>

-----------------------------------------------------------------------------
Init ==
    /\ height = StartHeight
    /\ \E dsts \in Before :
          chain = [i \in DOMAIN dsts |->
                      [dst |-> dsts[i], height |-> StartHeight,
                       sequence |-> NextSequence(SubSeq(dsts, 1, i - 1), dsts[i])]]
    /\ collected = {}
    /\ baseSeqNum = [d \in Dest |-> EmptyBucket]
    /\ retryNS = [d \in Dest |-> EmptyBucket]
    /\ feedPos = FeedStart
    /\ windowEnd = 0 /\ feedLimit = 0
    /\ queue = [f \in Feeder |-> {}]
    /\ retryIndex = 1 /\ pruneIndex = 1
    /\ toDelete = {}
    /\ worker = [w \in Workers |-> Idle]
    /\ failures = 0 /\ crashes = 0 /\ missed = 0

Process(w) == HashAndSign(w) \/ SendToCollector(w) \/ Finish(w)

Next ==
    \/ \E d \in Dest : Emit(d)
    \/ NewBlock
    \/ FetchWindow \/ WindowFed
    \/ \E d \in Dest : FetchNext(d)
    \/ RetryFeed
    \/ Prune \/ PruneReadFails
    \/ \E x \in toDelete : PruneDelete(x)
    \/ \E p \in Emitted : MissedPacket(p)
    \/ \E f \in Feeder, w \in Workers : Take(f, w)
    \/ \E w \in Workers : Process(w) \/ SignFails(w) \/ SendFails(w)
    \/ Crash

(* Goroutines make progress, blocks keep coming, and senders blocked on    *)
(* pktCh are served in turn (the channel queues them).  Failures of the    *)
(* signer and the collector end: their bound is the assumption.            *)
Fairness ==
    /\ WF_vars(NewBlock)
    /\ WF_vars(FetchWindow) /\ WF_vars(WindowFed)
    /\ \A d \in Dest : WF_vars(FetchNext(d))
    /\ WF_vars(RetryFeed) /\ WF_vars(Prune) /\ WF_vars(\E x \in toDelete : PruneDelete(x))
    /\ \A f \in Feeder : SF_vars(\E w \in Workers : Take(f, w))
    /\ \A w \in Workers : WF_vars(Process(w))

Spec == Init /\ [][Next]_vars
FairSpec == Spec /\ Fairness

-----------------------------------------------------------------------------
(* Properties *)

PacketType == [dst : Dest, sequence : Nat, height : Nat]

(* Type invariant. *)
TypeOK ==
    /\ chain \in Seq(PacketType) /\ height \in Nat
    /\ collected \subseteq PacketType
    /\ DOMAIN baseSeqNum = Dest /\ DOMAIN retryNS = Dest /\ DOMAIN worker = Workers
    /\ \A d \in Dest : /\ DOMAIN baseSeqNum[d] \subseteq Nat /\ DOMAIN retryNS[d] \subseteq Nat
                      /\ baseSeqNum[d] \in [DOMAIN baseSeqNum[d] -> Nat]
                      /\ retryNS[d] \in [DOMAIN retryNS[d] -> PacketType]
    /\ feedPos \in IF Client = "ethereum" THEN Nat ELSE [Dest -> Nat]
    /\ windowEnd \in Nat /\ feedLimit \in Nat
    /\ queue \in [Feeder -> SUBSET PacketType]
    /\ retryIndex \in DOMAIN DestChains /\ pruneIndex \in DOMAIN DestChains
    /\ toDelete \subseteq [dst : Dest, key : Nat]
    /\ \A w \in Workers :
         \/ worker[w] = Idle
         \/ worker[w] \in [stage : {"received", "signed", "failed", "done"}, pkt : PacketType,
                           missed : BOOLEAN]
    /\ failures \in Nat /\ crashes \in Nat /\ missed \in Nat

InMemory(p) ==
    \/ \E f \in Feeder : p \in queue[f]
    \/ \E w \in Workers : worker[w] # Idle /\ worker[w].pkt = p

(* The feed still has p ahead of it. *)
ToBeFed(p) ==
    IF Client = "ethereum" THEN p.height >= feedPos /\ (windowEnd # 0 => p.height > windowEnd)
    ELSE p.sequence >= feedPos[p.dst]

(* A key below p and a key above p: p lies in a gap that prune will find.  *)
InGap(p) ==
    \E k, l \in DOMAIN baseSeqNum[p.dst] : k < p.sequence /\ p.sequence < l

Handled(p) ==
    \/ p \in collected \/ InMemory(p) \/ ToBeFed(p) \/ InGap(p)
    \/ ExistInGivenNamespace(retryNS[p.dst], p.sequence)

(* A packet of the source chain whose signature has not arrived is always  *)
(* on its way: still to be fed, in memory, in the retry namespace, or in a *)
(* gap of the completed sequence numbers that pruneBaseSeqNum refetches.   *)
NoPacketForgotten == \A p \in Emitted : Handled(p)

(* Nothing but a crash makes the attestor forget a packet: not a failed    *)
(* signer, collector or read of the chain, nor a packet reported missed.   *)
ForgottenOnlyByCrash == crashes = 0 => NoPacketForgotten

(* A sequence number is in the database as completed only if its signature *)
(* is with the collector, across failures, duplicates and restarts.         *)
CompletedDelivered ==
    \A d \in Dest : \A k \in DOMAIN baseSeqNum[d] :
        \E p \in collected : p.dst = d /\ p.sequence = k

(* No packet is signed before its block is WaitHeight blocks deep, however *)
(* it reached the worker, unless the collector asked for it.               *)
OnlyMaturedSigned ==
    \A w \in Workers :
        worker[w] # Idle /\ ~worker[w].missed => worker[w].pkt.height + WaitHeight <= height

(* The resume point never moves back past a packet completed before: what  *)
(* PruneDelete leaves behind always holds the largest completed number.    *)
ResumePointKept ==
    [][\A d \in Dest : baseSeqNum[d] # EmptyBucket =>
          /\ baseSeqNum'[d] # EmptyBucket
          /\ getLastKey(baseSeqNum'[d]) >= getLastKey(baseSeqNum[d])]_vars

Delivered(n) == n \in DOMAIN chain /\ chain[n] \in collected

(* A packet leaves a gap only by being delivered: what prune deletes never *)
(* hides a gap that still has to be filled.                                *)
GapKeptUntilDelivered ==
    [][\A p \in Emitted : InGap(p) /\ p \notin collected => InGap(p)']_vars

(* A packet between two completed ones is eventually delivered, also when  *)
(* a crash made the attestor forget it: the gap is found and refetched.    *)
(* (By GapKeptUntilDelivered it is in the gap until then, and a delivered  *)
(* packet stays delivered, so that this is InGap ~> Delivered.)            *)
GapsAreFilled ==
    \A n \in 1 .. MaxPackets : []<>(n \in DOMAIN chain /\ InGap(chain[n]) => Delivered(n))

(* pruneBaseSeqNum keeps coming back to the namespace of every             *)
(* destination, so that each one's gaps are found.                         *)
EveryNamespacePruned == \A i \in DOMAIN DestChains : []<>(pruneIndex = i)

Matured(n) == n \in DOMAIN chain /\ chain[n].height + WaitHeight <= height

(* Every matured packet of the source chain is eventually signed and       *)
(* delivered, through failures of the signer, the collector and the chain, *)
(* unless the attestor crashes.  (Both are for good: a matured packet      *)
(* stays matured and a delivered one delivered.)                           *)
EventuallyCollected ==
    \A n \in 1 .. MaxPackets : []<>(Matured(n) => (Delivered(n) \/ crashes > 0))
=============================================================================
