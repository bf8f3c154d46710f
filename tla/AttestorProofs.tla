---------------------------- MODULE AttestorProofs ----------------------------
(***************************************************************************)
(* Proofs about the attestor's process, for every list of chains, every    *)
(* set of packets, workers and packets asked for, and every number of      *)
(* failures, panics and refetched gaps.                                    *)
(*                                                                         *)
(* ProcessInv is inductive: the types, that every verdict is the           *)
(* screening's, that what FeedPacket has fetched still lies ahead and is   *)
(* all there is before it, and that the packets of a route leave the feed  *)
(* in order, those in a gap excepted.                                      *)
(*                                                                         *)
(* What the process computes depends on no state, and is proved for every  *)
(* input the assumptions allow: the keys of the store are ordered as the   *)
(* numbers are and are read back; a service that answers the start signs   *)
(* with its own keys or not at all; which feeds of an accepted             *)
(* configuration lack their buckets; what is read of a packet's text, cut  *)
(* or whole; and that its digest is the one the destination recomputes,    *)
(* and no other packet's.                                                  *)
(***************************************************************************)
EXTENDS Attestor, FiniteSetTheorems, SequenceTheorems,
        WellFoundedInduction, TLAPS

Kinds == {"feed", "retry", "old retry", "prune", "old prune", "missed"}

Senders ==
    [kind : Kinds, chain : Chain \cup {"any"}, dest : {Dest[p] : p \in Packets} \cup {"any"}]

Stages == {"screen", "sign", "send", "failed", "store", "completed"}

Job == [at : Stages, pkt : Packets, missed : BOOLEAN, white : BOOLEAN]

(* The types; `screened' is a bucket of verdicts. *)
ProcessTypeOK ==
    /\ main \in {"starting", "select", "receive", "returned", "dead"}
    /\ ctxDone \in BOOLEAN /\ pktChClosed \in BOOLEAN
    /\ registered \subseteq Chain
    /\ feeder \in [Chain -> {"none", "queued", "running", "put back", "running again"}]
    /\ ahead \subseteq {p \in Packets : Feeds(p)}
    /\ retryNS \subseteq Packets /\ completed \subseteq Packets
    /\ sending \subseteq [by : Senders, pkt : Packets]
    /\ worker \in [Workers -> Job \cup {Idle}]
    /\ screened \in [DOMAIN screened -> BOOLEAN]
    /\ toReport \in Seq(Packets) /\ wallet \in DOMAIN Chains /\ reported \subseteq Packets
    /\ unconfirmed \subseteq Packets /\ IsFiniteSet(unconfirmed)
    /\ signatures \subseteq [pkt : Packets, white : BOOLEAN]

(* A verdict is the one of the screening service, also when it was stored  *)
(* with a packet to be retried.                                            *)
VerdictsInv ==
    /\ \A p \in DOMAIN screened : screened[p] = TRUE
    /\ \A w \in Workers : worker[w].at \notin {"idle", "screen"} => worker[w].white = TRUE
    /\ \A s \in signatures : s.white = TRUE

(* A packet that the collector asked for is neither stored for retry nor   *)
(* marked completed.                                                       *)
GivesBack == {"failed", "store", "completed"}

JobsInv == \A w \in Workers : worker[w].at \in GivesBack => ~worker[w].missed

(* Packet p has left the feed: it is completed, stored for retry, with a   *)
(* worker, or sent by another goroutine than FeedPacket.  What a worker or *)
(* a sender has on behalf of the collector does not count.                 *)
HoldsJob(job, p) ==
    job.at \in {"screen", "sign", "send", "failed", "completed"} /\ job.pkt = p /\ ~job.missed

Past(p) ==
    \/ p \in completed \cup retryNS
    \/ \E e \in sending : e.pkt = p /\ e.by.kind \notin {"feed", "missed"}
    \/ \E w \in Workers : HoldsJob(worker[w], p)

(* No feeder runs before its client is made. *)
FeedersInv == \A c \in Chain : feeder[c] # "none" => c \in registered

(* What FeedPacket has fetched and not sent it has not moved past.         *)
FetchedInv ==
    \A e \in sending : e.by.kind = "feed" =>
        /\ e.by = FeedSender(e.pkt) /\ Running(Source[e.pkt])
        /\ e.pkt \in ahead

(* Of what lies ahead, FeedPacket has fetched all that comes before what   *)
(* it sends, or has sent it already.                                       *)
WindowsInv ==
    \A e \in sending, q \in ahead :
        e.by.kind = "feed" /\ SameFeed(e.pkt, q) /\ Position[q] <= Position[e.pkt] =>
            [by |-> e.by, pkt |-> q] \in sending \/ Past(q)

(* Packets of a route leave the feed in order, but for those in a gap.     *)
OrderInv ==
    \A p \in ahead, q \in Packets :
        SameRoute(p, q) /\ Position[p] < Position[q] /\ Past(q) =>
            Past(p) \/ InGap(p, completed)

ProcessInv ==
    /\ ProcessTypeOK
    /\ VerdictsInv
    /\ JobsInv
    /\ FeedersInv
    /\ FetchedInv
    /\ WindowsInv
    /\ OrderInv

-------------------------------------------------------------------------------
(* The types *)

(* A worker that is at a stage has a job. *)
LEMMA HasJob ==
    ASSUME ProcessTypeOK, NEW w \in Workers, worker[w].at # "idle"
    PROVE  worker[w] \in Job
  <1>1. worker[w] \in Job \cup {Idle}
    BY DEF ProcessTypeOK
  <1>2. Idle.at = "idle"
    BY DEF Idle
  <1> QED
    BY <1>1, <1>2

(* The smaller of two numbers is their minimum. *)
LEMMA MinOfTwo ==
    ASSUME NEW a \in Int, NEW b \in Int
    PROVE  Min({a, b}) = IF a <= b THEN a ELSE b
  <1> DEFINE m == IF a <= b THEN a ELSE b
  <1>1. m \in {a, b} /\ \A y \in {a, b} : m <= y
    OBVIOUS
  <1>2. \A x \in {a, b} : (\A y \in {a, b} : x <= y) => x = m
    OBVIOUS
  <1> HIDE DEF m
  <1> QED
    BY <1>1, <1>2 DEF Min

(* The configuration names a chain, so that there is an address to ask for. *)
LEMMA SomeChain == Len(Chains) \in Nat \ {0} /\ DOMAIN Chains = 1 .. Len(Chains)
  BY AttestorAssumption DEF Chain

(* The wallet of the next turn is again one of the chains. *)
LEMMA NextWalletOK ==
    ASSUME wallet \in DOMAIN Chains
    PROVE  NextWallet \in DOMAIN Chains
  <1>1. Len(Chains) \in Nat \ {0} /\ DOMAIN Chains = 1 .. Len(Chains)
    BY SomeChain
  <1>2. \A n \in Nat \ {0} : \A k \in 1 .. n : (k % n) + 1 \in 1 .. n
    OBVIOUS
  <1> QED
    BY <1>1, <1>2 DEF NextWallet

(* A list of at most Limit packets. *)
LEMMA ListIsSequence ==
    ASSUME NEW S, IsFiniteSet(S), NEW list \in [1 .. Min({Limit, Cardinality(S)}) -> S]
    PROVE  list \in Seq(S)
  <1>1. Limit \in Nat /\ Cardinality(S) \in Nat
    BY AttestorAssumption, FS_CardinalityType
  <1>2. Min({Limit, Cardinality(S)}) \in Nat
    BY <1>1, MinOfTwo
  <1> DEFINE m == Min({Limit, Cardinality(S)})
  <1> HIDE DEF m
  <1>3. m \in Nat /\ list \in [1 .. m -> S]
    BY <1>2 DEF m
  <1> QED
    BY <1>3

(* The start has the types. *)
LEMMA TypesInit == Init => ProcessTypeOK
  <1> SUFFICES ASSUME Init PROVE ProcessTypeOK
    OBVIOUS
  <1>1. PICK s \in Starts :
          /\ ahead = s.ahead /\ completed = s.completed /\ retryNS = s.retry
          /\ unconfirmed = s.missed
    BY DEF Init
  <1>2. /\ ahead \subseteq {p \in Packets : Feeds(p)}
        /\ retryNS \subseteq Packets /\ completed \subseteq Packets
        /\ unconfirmed \subseteq Packets /\ IsFiniteSet(unconfirmed)
    BY <1>1, AttestorAssumption
  <1>3. screened \in [DOMAIN screened -> BOOLEAN]
    BY DEF Init, EmptyBucket
  <1>4. wallet \in DOMAIN Chains
    <2>1. wallet = 1
      BY DEF Init
    <2>2. 1 \in 1 .. Len(Chains)
      BY SomeChain
    <2> QED
      BY <2>1, <2>2, SomeChain
  <1>5. toReport \in Seq(Packets)
    <2>1. toReport = <<>>
      BY DEF Init
    <2> QED
      BY <2>1
  <1>6. /\ feeder \in [Chain -> {"none", "queued", "running", "put back", "running again"}]
        /\ worker \in [Workers -> Job \cup {Idle}]
    BY DEF Init
  <1>7. /\ main = "starting" /\ ctxDone = FALSE /\ pktChClosed = FALSE /\ registered = {}
        /\ sending = {} /\ reported = {} /\ signatures = {}
    BY DEF Init
  <1> QED
    BY <1>2, <1>3, <1>4, <1>5, <1>6, <1>7 DEF ProcessTypeOK

(* When everything in memory is gone, the types are those of a new start. *)
LEMMA GoneTypes ==
    ASSUME ProcessTypeOK, main' \in {"returned", "dead"}, Gone,
           UNCHANGED <<stored, screened, collector>>
    PROVE  ProcessTypeOK'
  <1>1. 1 \in DOMAIN Chains
    BY SomeChain
  <1>2. <<>> \in Seq(Packets)
    OBVIOUS
  <1> QED
    BY <1>1, <1>2 DEF ProcessTypeOK, Gone, stored, collector

(* A job stays a job when it goes to another stage. *)
LEMMA AtStage ==
    ASSUME NEW job \in Job, NEW s \in Stages
    PROVE  [job EXCEPT !.at = s] \in Job
  BY DEF Job

(* Of the actions of a worker, with the types it has. *)
LEMMA WorkerTypes ==
    ASSUME ProcessTypeOK, NEW w \in Workers,
           \/ Screen(w) \/ SignPacket(w) \/ SendToCollector(w) \/ CallFails(w)
           \/ PutInRetry(w) \/ StoreVerdict(w) \/ PutInCompleted(w)
    PROVE  ProcessTypeOK' 
  <1> USE DEF ProcessTypeOK, process, feeding, polling, stored, collector
  <1> DEFINE pkt == worker[w].pkt
  <1>1. worker[w].at # "idle" /\ worker[w] \in Job /\ pkt \in Packets
    <2>1. worker[w].at # "idle"
      BY DEF Screen, SignPacket, SendToCollector, CallFails, PutInRetry, StoreVerdict,
             PutInCompleted
    <2> QED
      BY <2>1, HasJob DEF Job
  <1>0. ASSUME Dies PROVE ProcessTypeOK'
    <2> HIDE DEF ProcessTypeOK, stored, collector
    <2> QED
      BY <1>0, GoneTypes DEF Dies
  <1>2. CASE Screen(w)
    <2>1. Screened(pkt) \in BOOLEAN
      BY <1>1 DEF Screened, GetAndDeleteWhiteStatus, getAndDelete
    <2>2. worker' \in [Workers -> Job \cup {Idle}]
      BY <1>1, <1>2, <2>1 DEF Screen, Job, Stages
    <2>3. screened' \in [DOMAIN screened' -> BOOLEAN]
      BY <1>2 DEF Screen, GetAndDeleteWhiteStatus, getAndDelete, Delete
    <2> QED
      BY <1>2, <2>2, <2>3 DEF Screen
  <1>3. CASE SignPacket(w)
    BY <1>1, <1>3 DEF SignPacket, Step, Job, Stages
  <1>4. CASE SendToCollector(w) \/ CallFails(w)
    <2>1. PICK s \in {"completed", "failed"} :
            worker' = [worker EXCEPT ![w] = IF @.missed THEN Idle ELSE [@ EXCEPT !.at = s]]
      BY <1>4 DEF SendToCollector, CallFails
    <2>2. worker' \in [Workers -> Job \cup {Idle}]
      <3>1. [worker[w] EXCEPT !.at = s] \in Job
        BY <1>1, AtStage DEF Stages
      <3> QED
        BY <2>1, <3>1
    <2>3. [pkt |-> pkt, white |-> worker[w].white] \in [pkt : Packets, white : BOOLEAN]
      BY <1>1 DEF Job
    <2>4. UNCHANGED collector \/ Arrives(w)
      BY <1>4 DEF SendToCollector, CallFails
    <2>5. /\ unconfirmed' \subseteq unconfirmed
          /\ signatures' \subseteq [pkt : Packets, white : BOOLEAN]
      BY <2>3, <2>4 DEF Arrives
    <2>6. IsFiniteSet(unconfirmed')
      BY <2>5, FS_Subset
    <2>7. UNCHANGED <<main, ctxDone, pktChClosed, registered, feeder, ahead, sending, retryNS,
                     completed, screened, toReport, wallet, reported>>
      BY <1>4 DEF SendToCollector, CallFails
    <2> QED
      BY <2>2, <2>5, <2>6, <2>7
  <1>6. CASE PutInRetry(w)
    <2>1. CASE Dies
      BY <1>0, <2>1
    <2>2. CASE ~Dies
      <3>1. worker' \in [Workers -> Job \cup {Idle}]
        BY <1>1, <1>6, <2>2, AtStage DEF PutInRetry, Step, Stages
      <3> QED
        BY <1>1, <1>6, <2>2, <3>1 DEF PutInRetry
    <2> QED
      BY <2>1, <2>2
  <1>7. CASE StoreVerdict(w)
    <2>1. screened' \in [DOMAIN screened' -> BOOLEAN]
      BY <1>1, <1>7 DEF StoreVerdict, StoreWhiteStatus, Put, Job
    <2> QED
      BY <1>1, <1>7, <2>1 DEF StoreVerdict, Idle
  <1>8. CASE PutInCompleted(w)
    <2>1. CASE Dies
      BY <1>0, <2>1
    <2>2. CASE ~Dies
      BY <1>1, <1>8, <2>2 DEF PutInCompleted
    <2> QED
      BY <2>1, <2>2
  <1> QED
    BY <1>2, <1>3, <1>4, <1>6, <1>7, <1>8

(* The senders have their type. *)
LEMMA SenderTypes ==
    /\ \A p \in Packets : FeedSender(p) \in Senders
    /\ \A kind \in Kinds, c \in Chain : Sender(kind, c, "any") \in Senders
    /\ MissedSender \in Senders
  BY AttestorAssumption DEF FeedSender, MissedSender, Sender, Senders, Kinds

(* Sending keeps the types of what is sent, and so does recovering. *)
LEMMA SendTypes ==
    ASSUME ProcessTypeOK, NEW s \in Senders, NEW batch \in SUBSET Packets, Send(s, batch)
    PROVE  sending' \subseteq [by : Senders, pkt : Packets]
  <1>1. \A q \in batch : [by |-> s, pkt |-> q] \in [by : Senders, pkt : Packets]
    OBVIOUS
  <1>2. sending \subseteq [by : Senders, pkt : Packets]
    BY DEF ProcessTypeOK
  <1> QED
    BY <1>1, <1>2 DEF Send

LEMMA RecoveredTypes ==
    ASSUME ProcessTypeOK, NEW c, Recovered(c)
    PROVE  /\ feeder' \in [Chain -> {"none", "queued", "running", "put back", "running again"}]
           /\ sending' \subseteq [by : Senders, pkt : Packets]
  <1>1. ASSUME NEW s \in Senders PROVE Old(s) \in Senders
    <2>1. \A kind \in Kinds : [s EXCEPT !.kind = kind] \in Senders
      BY DEF Senders
    <2> QED
      BY <2>1 DEF Old, Kinds
  <1>2. \A e \in sending : [e EXCEPT !.by = IF @.chain = c THEN Old(@) ELSE @]
                             \in [by : Senders, pkt : Packets]
    BY <1>1 DEF ProcessTypeOK
  <1> QED
    BY <1>2 DEF Recovered, ProcessTypeOK

(* Every step keeps the types. *)
LEMMA TypesStep ==
    ASSUME ProcessTypeOK, [Next]_vars
    PROVE  ProcessTypeOK'
  <1>0. ASSUME Dies \/ ConsumeReturns PROVE ProcessTypeOK'
    BY <1>0, GoneTypes DEF Dies, ConsumeReturns
  <1> USE DEF ProcessTypeOK, process, feeding, polling, stored, collector
  <1>1. CASE StartRelay \/ TakeToken \/ KillSignal \/ ClosePktCh
    <2>1. CASE Dies
      BY <1>0, <2>1
    <2>2. CASE ~Dies
      BY <1>1, <2>2 DEF StartRelay, TakeToken, KillSignal, ClosePktCh
    <2> QED
      BY <2>1, <2>2
  <1>2. CASE RegisterChain
    <2>1. \A i \in DOMAIN Chains : Chains[i] \in Chain
      BY DEF Chain
    <2>2. PICK i \in DOMAIN Chains :
            /\ registered' = registered \cup {Chains[i]}
            /\ feeder' = [feeder EXCEPT ![Chains[i]] = "queued"]
      BY <1>2 DEF RegisterChain
    <2>3. feeder' \in [Chain -> {"none", "queued", "running", "put back", "running again"}]
      BY <2>1, <2>2
    <2>4. registered' \subseteq Chain
      BY <2>1, <2>2
    <2>5. UNCHANGED <<main, ctxDone, pktChClosed, ahead, sending, worker, retryNS, completed,
                     screened, toReport, wallet, reported, unconfirmed, signatures>>
      BY <1>2 DEF RegisterChain
    <2> QED
      BY <2>3, <2>4, <2>5
  <1>3. CASE ConsumeReturns \/ ClientNotMade \/ GoroutinePanics
    BY <1>0, <1>3 DEF ClientNotMade, GoroutinePanics
  <1>4. ASSUME NEW c \in Chain, RunFeeder(c) \/ NoDestination(c) \/ FeederPanics(c)
        PROVE  ProcessTypeOK'
    <2>1. CASE RunFeeder(c)
      BY <2>1 DEF RunFeeder, Resumed
    <2>2. CASE NoDestination(c)
      BY <1>0, <2>2 DEF NoDestination
    <2>3. CASE FeederPanics(c)
      BY <2>3, RecoveredTypes DEF FeederPanics
    <2> QED
      BY <1>4, <2>1, <2>2, <2>3
  <1>5. ASSUME NEW c \in Chain,
               \/ FetchWindow(c)
               \/ \E kind \in {"retry", "old retry"} : RetryFeed(c, kind)
               \/ \E kind \in {"prune", "old prune"} : PruneRefetch(c, kind)
        PROVE  ProcessTypeOK'
    <2>1. PICK s \in Senders, batch \in SUBSET Packets : Send(s, batch)
      <3>1. CASE FetchWindow(c)
        <4>1. PICK p \in ahead : Send(FeedSender(p), Window(p))
          BY <3>1 DEF FetchWindow
        <4>2. Window(p) \subseteq Packets
          BY DEF Window
        <4> QED
          BY <4>1, <4>2, SenderTypes
      <3>2. ASSUME NEW kind \in {"retry", "old retry"}, RetryFeed(c, kind)
            PROVE  \E s \in Senders, batch \in SUBSET Packets : Send(s, batch)
        <4>1. Sender(kind, c, "any") \in Senders
          BY SenderTypes DEF Kinds
        <4> QED
          BY <3>2, <4>1 DEF RetryFeed
      <3>3. ASSUME NEW kind \in {"prune", "old prune"}, PruneRefetch(c, kind)
            PROVE  \E s \in Senders, batch \in SUBSET Packets : Send(s, batch)
        <4>1. Sender(kind, c, "any") \in Senders
          BY SenderTypes DEF Kinds
        <4> QED
          BY <3>3, <4>1 DEF PruneRefetch
      <3> QED
        BY <1>5, <3>1, <3>2, <3>3
    <2>2. sending' \subseteq [by : Senders, pkt : Packets]
      BY <2>1, SendTypes
    <2>3. UNCHANGED <<main, ctxDone, pktChClosed, registered, feeder, ahead, worker, completed,
                     screened, toReport, wallet, reported, unconfirmed, signatures>>
      BY <1>5 DEF FetchWindow, RetryFeed, PruneRefetch
    <2>4. retryNS' \subseteq retryNS
      BY <1>5 DEF FetchWindow, RetryFeed, PruneRefetch
    <2> QED
      BY <2>2, <2>3, <2>4
  <1>6. ASSUME NEW e \in sending, Receive(e)
        PROVE  ProcessTypeOK'
    <2> DEFINE job == [at |-> "screen", pkt |-> e.pkt, missed |-> e.by.kind = "missed",
                       white |-> FALSE]
    <2>1. job \in Job
      BY DEF Job, Stages
    <2>2. PICK w \in Workers : worker' = [worker EXCEPT ![w] = job]
      BY <1>6 DEF Receive
    <2>3. worker' \in [Workers -> Job \cup {Idle}]
      BY <2>1, <2>2
    <2>4. ahead' \subseteq ahead
      BY <1>6 DEF Receive
    <2> QED
      BY <1>6, <2>3, <2>4 DEF Receive
  <1>7. ASSUME NEW e \in sending, SendOnClosed(e)
        PROVE  ProcessTypeOK'
    <2>1. CASE Dies
      BY <1>0, <2>1
    <2>2. CASE ~Dies
      <3>1. Recovered("ethereum") /\ UNCHANGED <<process, registered, ahead, worker, stored,
                                                 screened, polling, collector>>
        BY <1>7, <2>2 DEF SendOnClosed
      <3> QED
        BY <3>1, RecoveredTypes
    <2> QED
      BY <2>1, <2>2
  <1>8. ASSUME NEW w \in Workers,
               \/ Screen(w) \/ SignPacket(w) \/ SendToCollector(w) \/ CallFails(w)
               \/ PutInRetry(w) \/ StoreVerdict(w) \/ PutInCompleted(w)
        PROVE  ProcessTypeOK'
    BY <1>8, WorkerTypes
  <1>9. CASE ReceivePktsFromCollector
    <2> DEFINE listed == {p \in unconfirmed : Source[p] = Chains[wallet]}
    <2>1. IsFiniteSet(listed) /\ listed \subseteq Packets
      BY FS_Subset
    <2>2. PICK list \in [1 .. Min({Limit, Cardinality(listed)}) -> listed] : toReport' = list
      BY <1>9 DEF ReceivePktsFromCollector
    <2>3. toReport' \in Seq(Packets)
      <3> HIDE DEF listed
      <3>1. list \in Seq(listed)
        BY <2>1, <2>2, ListIsSequence
      <3> QED
        BY <2>1, <2>2, <3>1, SeqMonotonic
    <2>4. wallet' \in DOMAIN Chains
      BY <1>9, NextWalletOK DEF ReceivePktsFromCollector
    <2> QED
      BY <1>9, <2>3, <2>4 DEF ReceivePktsFromCollector
  <1>10. CASE GetMissedPacketFails
    BY <1>10 DEF GetMissedPacketFails
  <1>11. CASE ReceiveMissed
    <2>1. toReport \in Seq(Packets) /\ toReport # <<>>
      BY <1>11 DEF ReceiveMissed
    <2>2. Head(toReport) \in Packets /\ Tail(toReport) \in Seq(Packets)
      BY <2>1, HeadTailProperties
    <2> QED
      BY <1>11, <2>2 DEF ReceiveMissed
  <1>12. CASE GetMissedPacket
    <2>1. PICK p \in reported : Send(MissedSender, {p})
      BY <1>12 DEF GetMissedPacket
    <2>2. sending' \subseteq [by : Senders, pkt : Packets]
      <3>1. {p} \in SUBSET Packets
        OBVIOUS
      <3> HIDE DEF ProcessTypeOK
      <3> QED
        BY <2>1, <3>1, SenderTypes, SendTypes
    <2> QED
      BY <1>12, <2>2 DEF GetMissedPacket
  <1>13. CASE UNCHANGED vars
    BY <1>13 DEF vars
  <1> HIDE DEF ProcessTypeOK
  <1> QED
    BY <1>1, <1>2, <1>3, <1>4, <1>5, <1>6, <1>7, <1>8, <1>9, <1>10, <1>11, <1>12, <1>13
    DEF Next, Ended

-------------------------------------------------------------------------------
(* Verdicts *)

(* Every step keeps to the verdicts of the screening service. *)
LEMMA VerdictsStep ==
    ASSUME ProcessTypeOK, VerdictsInv, JobsInv, [Next]_vars
    PROVE  VerdictsInv' /\ JobsInv'
  <1> USE DEF VerdictsInv, JobsInv, GivesBack, process, feeding, polling, stored, collector
  <1>1. UNCHANGED <<screened, worker, signatures>> => VerdictsInv' /\ JobsInv'
    OBVIOUS
  <1>2. worker \in [Workers -> Job \cup {Idle}] /\ Idle.at = "idle"
    BY DEF ProcessTypeOK, Idle
  <1>0. ASSUME Dies \/ ConsumeReturns PROVE VerdictsInv' /\ JobsInv'
    <2>1. UNCHANGED <<screened, signatures>> /\ worker' = [w \in Workers |-> Idle]
      BY <1>0 DEF Dies, ConsumeReturns, Gone
    <2>2. \A w \in Workers : worker'[w].at = "idle"
      BY <1>2, <2>1
    <2> QED
      BY <2>1, <2>2
  <1>3. ASSUME NEW w \in Workers, Screen(w)
        PROVE  VerdictsInv' /\ JobsInv'
    <2>1. Screened(worker[w].pkt) = TRUE
      BY DEF Screened, GetAndDeleteWhiteStatus, getAndDelete
    <2>2. \A p \in DOMAIN screened' : screened'[p] = TRUE
      BY <1>3 DEF Screen, GetAndDeleteWhiteStatus, getAndDelete, Delete
    <2>3. worker' = [worker EXCEPT ![w] = [@ EXCEPT !.at = "sign", !.white = TRUE]]
      BY <1>2, <1>3, <2>1 DEF Screen
    <2>4. worker[w] \in Job
      BY <1>2, <1>3 DEF Screen
    <2>5. /\ worker'[w].at = "sign" /\ worker'[w].white = TRUE
          /\ \A v \in Workers \ {w} : worker'[v] = worker[v]
      BY <1>2, <2>3, <2>4 DEF Job
    <2>6. signatures' = signatures
      BY <1>3 DEF Screen
    <2> QED
      BY <2>2, <2>5, <2>6
  <1>4. ASSUME NEW w \in Workers, SignPacket(w) \/ PutInRetry(w), ~Dies
        PROVE  VerdictsInv' /\ JobsInv'
    <2>1. worker[w].at # "idle" /\ worker[w] \in Job
      BY <1>2, <1>4 DEF SignPacket, PutInRetry
    <2> QED
      BY <1>2, <1>4, <2>1 DEF SignPacket, PutInRetry, Step, Job
  <1>5. ASSUME NEW w \in Workers, SendToCollector(w) \/ CallFails(w)
        PROVE  VerdictsInv' /\ JobsInv'
    <2>1. worker[w].at \in {"sign", "send"} /\ worker[w] \in Job
      BY <1>2, <1>5 DEF SendToCollector, CallFails
    <2>2. \A s \in signatures' : s.white = TRUE
      BY <1>5, <2>1 DEF SendToCollector, CallFails, Arrives
    <2>3. \E at \in GivesBack : worker' = [worker EXCEPT ![w] = IF @.missed THEN Idle ELSE [@ EXCEPT !.at = at]]
      BY <1>5 DEF SendToCollector, CallFails
    <2> QED
      BY <1>2, <1>5, <2>1, <2>2, <2>3 DEF SendToCollector, CallFails, Job
  <1>6. ASSUME NEW w \in Workers, StoreVerdict(w)
        PROVE  VerdictsInv' /\ JobsInv'
    BY <1>2, <1>6 DEF StoreVerdict, StoreWhiteStatus, Put
  <1>7. ASSUME NEW w \in Workers, PutInCompleted(w), ~Dies
        PROVE  VerdictsInv' /\ JobsInv'
    BY <1>2, <1>7 DEF PutInCompleted
  <1>8. ASSUME NEW e \in sending, Receive(e)
        PROVE  VerdictsInv' /\ JobsInv'
    <2>1. PICK w \in Workers :
            worker' = [worker EXCEPT ![w] = [at |-> "screen", pkt |-> e.pkt,
                                             missed |-> e.by.kind = "missed", white |-> FALSE]]
      BY <1>8 DEF Receive
    <2> QED
      BY <1>2, <1>8, <2>1 DEF Receive
  <1>9. CASE \/ StartRelay /\ ~Dies
             \/ RegisterChain \/ TakeToken \/ ReceivePktsFromCollector
             \/ ReceiveMissed \/ GetMissedPacket \/ GetMissedPacketFails
             \/ KillSignal \/ ClosePktCh \/ UNCHANGED vars
    <2>1. UNCHANGED <<screened, worker, signatures>>
      BY <1>9 DEF StartRelay, RegisterChain, TakeToken,
            ReceivePktsFromCollector, ReceiveMissed, GetMissedPacket, GetMissedPacketFails,
            KillSignal, ClosePktCh, vars
    <2> QED
      BY <1>1, <2>1
  <1>10. ASSUME NEW c \in Chain,
                \/ RunFeeder(c) \/ FetchWindow(c) \/ FeederPanics(c)
                \/ \E kind \in {"retry", "old retry"} : RetryFeed(c, kind)
                \/ \E kind \in {"prune", "old prune"} : PruneRefetch(c, kind)
         PROVE  VerdictsInv' /\ JobsInv'
    BY <1>1, <1>10 DEF RunFeeder, FetchWindow, RetryFeed, PruneRefetch, FeederPanics
  <1>11. ASSUME NEW e \in sending, SendOnClosed(e), ~Dies
         PROVE  VerdictsInv' /\ JobsInv'
    BY <1>1, <1>11 DEF SendOnClosed
  <1>12. CASE ClientNotMade \/ GoroutinePanics \/ \E c \in Chain : NoDestination(c)
    BY <1>0, <1>12 DEF ClientNotMade, GoroutinePanics, NoDestination
  <1> HIDE DEF VerdictsInv, JobsInv
  <1> QED
    BY <1>0, <1>3, <1>4, <1>5, <1>6, <1>7, <1>8, <1>9, <1>10, <1>11, <1>12 DEF Next, Ended

-------------------------------------------------------------------------------
(* What has left the feed *)

(* The process ends with this step. *)
Ends == Dies \/ ConsumeReturns

(* A step that leaves the stores and what is sent and worked on alone. *)
LEMMA PastSame ==
    ASSUME UNCHANGED <<completed, retryNS, sending, worker>>, NEW p
    PROVE  Past(p)' <=> Past(p)
  BY DEF Past

(* Worker w exchanges its job for one that holds the same packet. *)
LEMMA PastSameJob ==
    ASSUME ProcessTypeOK, NEW w \in Workers, NEW j, worker' = [worker EXCEPT ![w] = j],
           UNCHANGED <<completed, retryNS, sending>>,
           NEW p, HoldsJob(j, p) <=> HoldsJob(worker[w], p)
    PROVE  Past(p)' <=> Past(p)
  <1>1. worker'[w] = j /\ \A v \in Workers \ {w} : worker'[v] = worker[v]
    BY DEF ProcessTypeOK
  <1>2. (\E v \in Workers : HoldsJob(worker'[v], p)) <=> (\E v \in Workers : HoldsJob(worker[v], p))
    BY <1>1
  <1> QED
    BY <1>2 DEF Past, HoldsJob

(* A worker keeps its packet until it is stored or completed. *)
LEMMA WorkerPast ==
    ASSUME ProcessTypeOK, JobsInv, NEW w \in Workers,
           \/ Screen(w) \/ SignPacket(w) \/ SendToCollector(w) \/ CallFails(w)
           \/ PutInRetry(w) \/ StoreVerdict(w) \/ PutInCompleted(w),
           ~Dies, NEW p \in Packets
    PROVE  Past(p)' <=> Past(p)
  <1> DEFINE job == worker[w]
             kept == {"screen", "sign", "send", "failed", "completed"}
  <1>1. job.at # "idle" /\ job \in Job
    <2>1. worker[w].at # "idle"
      BY DEF Screen, SignPacket, SendToCollector, CallFails, PutInRetry, StoreVerdict,
             PutInCompleted
    <2> QED
      BY <2>1, HasJob
  <1>2. sending' = sending
    BY DEF Screen, SignPacket, SendToCollector, CallFails, PutInRetry, StoreVerdict,
           PutInCompleted
  <1>3. ASSUME UNCHANGED <<completed, retryNS>>,
               NEW j, worker' = [worker EXCEPT ![w] = j],
               HoldsJob(j, p) <=> HoldsJob(job, p)
        PROVE  Past(p)' <=> Past(p)
    BY <1>2, <1>3, PastSameJob
  <1>4. \A at \in kept : job.at \in kept => (HoldsJob([job EXCEPT !.at = at], p) <=> HoldsJob(job, p))
    BY <1>1 DEF HoldsJob, Job
  <1>5. ~HoldsJob(Idle, p)
    BY DEF HoldsJob, Idle
  <1>6. CASE Screen(w)
    <2> DEFINE j == [job EXCEPT !.at = "sign", !.white = Screened(job.pkt)]
    <2>1. worker' = [worker EXCEPT ![w] = j] /\ job.at = "screen" /\ UNCHANGED <<completed, retryNS>>
      BY <1>6 DEF Screen, stored, ProcessTypeOK
    <2>2. HoldsJob(j, p) <=> HoldsJob(job, p)
      BY <1>1, <2>1 DEF HoldsJob, Job
    <2> HIDE DEF j, job
    <2> QED
      BY <1>3, <2>1, <2>2
  <1>7. CASE SignPacket(w)
    <2> DEFINE j == [job EXCEPT !.at = "send"]
    <2>1. worker' = [worker EXCEPT ![w] = j] /\ job.at = "sign" /\ UNCHANGED <<completed, retryNS>>
      BY <1>7 DEF SignPacket, Step, stored
    <2>2. HoldsJob(j, p) <=> HoldsJob(job, p)
      BY <1>4, <2>1
    <2> HIDE DEF j, job
    <2> QED
      BY <1>3, <2>1, <2>2
  <1>8. CASE SendToCollector(w) \/ CallFails(w)
    <2>1. PICK s \in {"completed", "failed"} :
            worker' = [worker EXCEPT ![w] = IF @.missed THEN Idle ELSE [@ EXCEPT !.at = s]]
      BY <1>8 DEF SendToCollector, CallFails
    <2> DEFINE j == IF job.missed THEN Idle ELSE [job EXCEPT !.at = s]
    <2>2. /\ worker' = [worker EXCEPT ![w] = j] /\ job.at \in {"sign", "send"}
          /\ UNCHANGED <<completed, retryNS>>
      BY <1>8, <2>1 DEF SendToCollector, CallFails, stored
    <2>3. HoldsJob(j, p) <=> HoldsJob(job, p)
      <3>1. CASE job.missed
        BY <1>5, <3>1 DEF HoldsJob
      <3>2. CASE ~job.missed
        BY <1>4, <2>2, <3>2
      <3> QED
        BY <3>1, <3>2
    <2> HIDE DEF j, job
    <2> QED
      BY <1>3, <2>2, <2>3
  <1>9. CASE StoreVerdict(w)
    <2>1. /\ worker' = [worker EXCEPT ![w] = Idle] /\ job.at = "store"
          /\ UNCHANGED <<completed, retryNS>>
      BY <1>9 DEF StoreVerdict, stored
    <2>2. HoldsJob(Idle, p) <=> HoldsJob(job, p)
      BY <1>5, <2>1 DEF HoldsJob
    <2> QED
      BY <1>3, <2>1, <2>2
  <1>10. CASE PutInRetry(w) \/ PutInCompleted(w)
    <2>1. job.at \in {"failed", "completed"} /\ ~job.missed
      BY <1>10 DEF PutInRetry, PutInCompleted, JobsInv, GivesBack
    <2>2. (completed \cup retryNS)' = completed \cup retryNS \cup {job.pkt}
      BY <1>10 DEF PutInRetry, PutInCompleted
    <2>3. PICK j \in {Idle, [job EXCEPT !.at = "store"]} : worker' = [worker EXCEPT ![w] = j]
      BY <1>10 DEF PutInRetry, PutInCompleted, Step
    <2>4. ~HoldsJob(j, p)
      BY <1>1, <1>5, <2>3 DEF HoldsJob, Job
    <2>5. worker'[w] = j /\ \A v \in Workers \ {w} : worker'[v] = worker[v]
      BY <2>3 DEF ProcessTypeOK
    <2>6. HoldsJob(job, p) <=> p = job.pkt
      BY <2>1 DEF HoldsJob
    <2>7. (\E v \in Workers : HoldsJob(worker[v], p))
            <=> (\E v \in Workers : HoldsJob(worker'[v], p)) \/ p = job.pkt
      BY <2>4, <2>5, <2>6
    <2> HIDE DEF job
    <2> QED
      BY <1>2, <2>2, <2>7 DEF Past, HoldsJob
  <1> HIDE DEF job
  <1> QED
    BY <1>6, <1>7, <1>8, <1>9, <1>10

(* A goroutine that sends what it has fetched or taken out of the retry    *)
(* namespace: only packets in a gap have newly left the feed.              *)
LEMMA SendPast ==
    ASSUME NEW s, NEW batch, Send(s, batch), UNCHANGED <<completed, worker>>,
           retryNS' \subseteq retryNS, retryNS \ retryNS' \subseteq batch,
           retryNS' # retryNS => s.kind \notin {"feed", "missed"},
           NEW p
    PROVE  /\ Past(p) => Past(p)'
           /\ Past(p)' => \/ Past(p)
                          \/ s.kind \notin {"feed", "missed"} /\ p \in batch
  <1>1. sending' = sending \cup {[by |-> s, pkt |-> q] : q \in batch}
    BY DEF Send
  <1>2. Past(p)' <=> \/ p \in completed \cup retryNS'
                     \/ \E e \in sending' : e.pkt = p /\ e.by.kind \notin {"feed", "missed"}
                     \/ \E w \in Workers : HoldsJob(worker[w], p)
    BY DEF Past, HoldsJob
  <1>3. (\E e \in sending' : e.pkt = p /\ e.by.kind \notin {"feed", "missed"})
          <=> \/ \E e \in sending : e.pkt = p /\ e.by.kind \notin {"feed", "missed"}
              \/ s.kind \notin {"feed", "missed"} /\ p \in batch
    <2>1. \A q : LET new == [by |-> s, pkt |-> q] IN new.pkt = q /\ new.by = s
      OBVIOUS
    <2>2. \A e : e \in sending' <=> e \in sending \/ \E q \in batch : e = [by |-> s, pkt |-> q]
      BY <1>1
    <2>3. p \in batch => [by |-> s, pkt |-> p] \in sending'
      BY <2>2
    <2> QED
      BY <2>1, <2>2, <2>3
  <1>4. p \in retryNS => p \in retryNS' \/ (s.kind \notin {"feed", "missed"} /\ p \in batch)
    <2>1. CASE retryNS' = retryNS
      BY <2>1
    <2>2. CASE retryNS' # retryNS
      BY <2>2
    <2> QED
      BY <2>1, <2>2
  <1> QED
    BY <1>2, <1>3, <1>4 DEF Past

(* A packet that a worker receives stays in somebody's hand. *)
LEMMA ReceivePast ==
    ASSUME ProcessTypeOK, NEW e \in sending, Receive(e), NEW p
    PROVE  /\ Past(p) => Past(p)'
           /\ Past(p)' => Past(p) \/ (e.pkt = p /\ e.by.kind = "feed")
           /\ e.pkt = p /\ e.by.kind = "feed" => Past(p)'
  <1> DEFINE job == [at |-> "screen", pkt |-> e.pkt, missed |-> e.by.kind = "missed",
                     white |-> FALSE]
  <1>1. sending' = sending \ {e} /\ UNCHANGED <<completed, retryNS>>
    BY DEF Receive, stored
  <1>2. PICK w \in Workers : worker[w] = Idle /\ worker' = [worker EXCEPT ![w] = job]
    BY DEF Receive
  <1>3. HoldsJob(job, p) <=> e.pkt = p /\ e.by.kind # "missed"
    BY DEF HoldsJob
  <1>4. ~HoldsJob(worker[w], p)
    BY <1>2 DEF HoldsJob, Idle
  <1> HIDE DEF job
  <1>5. worker'[w] = job /\ \A v \in Workers \ {w} : worker'[v] = worker[v]
    BY <1>2 DEF ProcessTypeOK
  <1>6. (\E v \in Workers : HoldsJob(worker'[v], p))
          <=> \/ \E v \in Workers : HoldsJob(worker[v], p)
              \/ e.pkt = p /\ e.by.kind # "missed"
    BY <1>3, <1>4, <1>5
  <1>7. Past(p)' <=> \/ p \in completed \cup retryNS
                     \/ \E f \in sending \ {e} : f.pkt = p /\ f.by.kind \notin {"feed", "missed"}
                     \/ \E v \in Workers : HoldsJob(worker'[v], p)
    BY <1>1 DEF Past, HoldsJob
  <1>8. (\E f \in sending : f.pkt = p /\ f.by.kind \notin {"feed", "missed"})
          <=> \/ \E f \in sending \ {e} : f.pkt = p /\ f.by.kind \notin {"feed", "missed"}
              \/ e.pkt = p /\ e.by.kind \notin {"feed", "missed"}
    OBVIOUS
  <1> QED
    BY <1>6, <1>7, <1>8 DEF Past

(* What the goroutines that a panic leaves behind send is still sent. *)
LEMMA RecoveredPast ==
    ASSUME ProcessTypeOK, NEW c, Recovered(c), UNCHANGED <<completed, retryNS, worker>>, NEW p
    PROVE  Past(p)' <=> Past(p)
  <1> DEFINE left(e) == [e EXCEPT !.by = IF @.chain = c THEN Old(@) ELSE @]
             rest == {e \in sending : ~(e.by.kind = "feed" /\ e.by.chain = c)}
  <1>1. sending' = {left(e) : e \in rest}
    BY DEF Recovered
  <1>2. ASSUME NEW e \in sending
        PROVE  /\ left(e).pkt = e.pkt
               /\ left(e).by.kind \in {"feed", "missed"} <=> e.by.kind \in {"feed", "missed"}
    <2>1. e \in [by : Senders, pkt : Packets]
      BY DEF ProcessTypeOK
    <2>2. Old(e.by).kind \in {"feed", "missed"} <=> e.by.kind \in {"feed", "missed"}
      BY <2>1 DEF Old, Senders
    <2> QED
      BY <2>1, <2>2
  <1>3. (\E f \in sending' : f.pkt = p /\ f.by.kind \notin {"feed", "missed"})
          <=> (\E e \in sending : e.pkt = p /\ e.by.kind \notin {"feed", "missed"})
    <2>1. \A e \in sending : e.by.kind \notin {"feed", "missed"} => e \in rest
      OBVIOUS
    <2> HIDE DEF left
    <2> QED
      BY <1>1, <1>2, <2>1
  <1> HIDE DEF left, rest
  <1> QED
    BY <1>3 DEF Past, HoldsJob

(* A packet that has left the feed stays with somebody while the process   *)
(* runs, and only FeedPacket and the refetching of a gap add to these.     *)
LEMMA PastStep ==
    ASSUME ProcessTypeOK, JobsInv, [Next]_vars, ~Ends, NEW p \in Packets
    PROVE  /\ Past(p) => Past(p)'
           /\ Past(p)' => \/ Past(p) \/ InGap(p, completed)
                          \/ \E e \in sending : Receive(e) /\ e.pkt = p /\ e.by.kind = "feed"
  <1> USE DEF process, feeding, polling, stored, collector
  <1>1. CASE \/ StartRelay \/ RegisterChain \/ TakeToken \/ ReceivePktsFromCollector
             \/ ReceiveMissed \/ GetMissedPacketFails \/ KillSignal \/ ClosePktCh
             \/ UNCHANGED vars
    <2>1. UNCHANGED <<completed, retryNS, sending, worker>>
      BY <1>1 DEF StartRelay, RegisterChain, TakeToken, ReceivePktsFromCollector, Ends,
            ReceiveMissed, GetMissedPacketFails, KillSignal, ClosePktCh, vars
    <2> QED
      BY <2>1, PastSame
  <1>2. ASSUME NEW c \in Chain, RunFeeder(c)
        PROVE  Past(p)' <=> Past(p)
    BY <1>2, PastSame DEF RunFeeder
  <1>3. ASSUME NEW c \in Chain, FetchWindow(c)
        PROVE  Past(p)' <=> Past(p)
    <2>1. PICK q \in ahead : Send(FeedSender(q), Window(q))
      BY <1>3 DEF FetchWindow
    <2>2. FeedSender(q).kind = "feed" /\ UNCHANGED <<completed, worker, retryNS>>
      BY <1>3 DEF FetchWindow, FeedSender, Sender
    <2>3. /\ Past(p) => Past(p)'
          /\ Past(p)' => \/ Past(p)
                         \/ FeedSender(q).kind \notin {"feed", "missed"} /\ p \in Window(q)
      BY <2>1, <2>2, SendPast
    <2> QED
      BY <2>2, <2>3
  <1>4. ASSUME NEW c \in Chain, NEW kind \in {"retry", "old retry"}, RetryFeed(c, kind)
        PROVE  Past(p)' <=> Past(p)
    <2> DEFINE s == Sender(kind, c, "any")
    <2>1. PICK batch \in SUBSET retryNS : retryNS' = retryNS \ batch /\ Send(s, batch)
      BY <1>4 DEF RetryFeed
    <2>2. s.kind \notin {"feed", "missed"} /\ UNCHANGED <<completed, worker>>
      BY <1>4 DEF RetryFeed, Sender
    <2>3. /\ retryNS' \subseteq retryNS /\ retryNS \ retryNS' \subseteq batch
      BY <2>1
    <2> HIDE DEF s
    <2>4. /\ Past(p) => Past(p)'
          /\ Past(p)' => \/ Past(p)
                         \/ s.kind \notin {"feed", "missed"} /\ p \in batch
      BY <2>1, <2>2, <2>3, SendPast
    <2>5. p \in batch => Past(p)
      BY <2>1 DEF Past
    <2> QED
      BY <2>4, <2>5
  <1>5. ASSUME NEW c \in Chain, NEW kind \in {"prune", "old prune"}, PruneRefetch(c, kind)
        PROVE  /\ Past(p) => Past(p)'
               /\ Past(p)' => Past(p) \/ InGap(p, completed)
    <2> DEFINE s == Sender(kind, c, "any")
    <2>1. PICK batch \in SUBSET Packets :
            Send(s, batch) /\ \A q \in batch : InGap(q, completed)
      BY <1>5 DEF PruneRefetch
    <2>2. UNCHANGED <<completed, worker, retryNS>>
      BY <1>5 DEF PruneRefetch
    <2> HIDE DEF s
    <2>3. /\ Past(p) => Past(p)'
          /\ Past(p)' => \/ Past(p)
                         \/ s.kind \notin {"feed", "missed"} /\ p \in batch
      BY <2>1, <2>2, SendPast
    <2> QED
      BY <2>1, <2>3
  <1>6. CASE GetMissedPacket
    <2>1. PICK q \in reported : Send(MissedSender, {q})
      BY <1>6 DEF GetMissedPacket
    <2>2. MissedSender.kind = "missed" /\ UNCHANGED <<completed, worker, retryNS>>
      BY <1>6 DEF GetMissedPacket, MissedSender, Sender
    <2>3. /\ Past(p) => Past(p)'
          /\ Past(p)' => \/ Past(p)
                         \/ MissedSender.kind \notin {"feed", "missed"} /\ p \in {q}
      BY <2>1, <2>2, SendPast
    <2> QED
      BY <2>2, <2>3
  <1>7. ASSUME NEW e \in sending, Receive(e)
        PROVE  /\ Past(p) => Past(p)'
               /\ Past(p)' => Past(p) \/ (e.pkt = p /\ e.by.kind = "feed")
    BY <1>7, ReceivePast
  <1>8. ASSUME NEW e \in sending, SendOnClosed(e)
        PROVE  Past(p)' <=> Past(p)
    <2>1. Recovered("ethereum") /\ UNCHANGED <<completed, retryNS, worker>>
      BY <1>8 DEF SendOnClosed, Ends
    <2> QED
      BY <2>1, RecoveredPast
  <1>9. ASSUME NEW c \in Chain, FeederPanics(c)
        PROVE  Past(p)' <=> Past(p)
    <2>1. Recovered(c) /\ UNCHANGED <<completed, retryNS, worker>>
      BY <1>9 DEF FeederPanics
    <2> QED
      BY <2>1, RecoveredPast
  <1>10. ASSUME NEW w \in Workers,
                \/ Screen(w) \/ SignPacket(w) \/ SendToCollector(w) \/ CallFails(w)
                \/ PutInRetry(w) \/ StoreVerdict(w) \/ PutInCompleted(w)
         PROVE  Past(p)' <=> Past(p)
    BY <1>10, WorkerPast DEF Ends
  <1>11. ~(ClientNotMade \/ GoroutinePanics \/ ConsumeReturns \/ \E c \in Chain : NoDestination(c))
    BY DEF ClientNotMade, GoroutinePanics, NoDestination, Ends
  <1> QED
    BY <1>1, <1>2, <1>3, <1>4, <1>5, <1>6, <1>7, <1>8, <1>9, <1>10, <1>11 DEF Next, Ended

-------------------------------------------------------------------------------
(* What FeedPacket has fetched *)

(* When the process ends, nothing is fetched and nothing lies ahead. *)
LEMMA GoneFetched ==
    ASSUME ProcessTypeOK, Gone
    PROVE  FeedersInv' /\ FetchedInv' /\ WindowsInv' /\ OrderInv'
  <1>1. /\ feeder' = [c \in Chain |-> "none"]
        /\ sending' = {} /\ ahead' = {}
    BY DEF Gone
  <1>2. FeedersInv'
    BY <1>1 DEF FeedersInv
  <1>3. FetchedInv'
    BY <1>1 DEF FetchedInv
  <1>4. WindowsInv'
    BY <1>1 DEF WindowsInv
  <1>5. OrderInv'
    BY <1>1 DEF OrderInv
  <1> QED
    BY <1>2, <1>3, <1>4, <1>5

(* The packets a feeder fetches at once have one sender, come in the order *)
(* of the feed, and are all there are up to the last of them.              *)
LEMMA WindowFacts ==
    ASSUME ProcessTypeOK, NEW p \in ahead, Source[p] # "ethereum" => IsNext(p), NEW q \in Window(p)
    PROVE  /\ q \in ahead /\ SameFeed(p, q) /\ FeedSender(q) = FeedSender(p)
           /\ \A r \in ahead : SameFeed(q, r) /\ Position[r] <= Position[q] => r \in Window(p)
  <1>1. p \in Packets /\ \A r \in ahead : r \in Packets
    BY DEF ProcessTypeOK
  <1>2. \A r \in Packets : Position[r] \in Nat
    BY AttestorAssumption
  <1>3. q \in ahead /\ SameFeed(p, q)
    BY DEF Window, SameFeed
  <1>4. FeedSender(q) = FeedSender(p)
    BY <1>3 DEF FeedSender, SameFeed
  <1>5. ASSUME NEW r \in ahead, SameFeed(q, r), Position[r] <= Position[q]
        PROVE  r \in Window(p)
    <2>1. CASE Source[p] = "ethereum"
      <3>1. Position[q] <= Position[p]
        BY <2>1 DEF Window
      <3>2. Position[r] <= Position[p]
        BY <1>1, <1>2, <1>3, <1>5, <3>1
      <3>3. SameFeed(p, r)
        BY <1>3, <1>5, <2>1 DEF SameFeed
      <3> QED
        BY <2>1, <3>2, <3>3 DEF Window
    <2>2. CASE Source[p] # "ethereum"
      <3>1. q = p /\ Window(p) = {p}
        BY <2>2 DEF Window
      <3>2. r # p => Position[p] < Position[r]
        BY <1>5, <2>2, <3>1 DEF IsNext
      <3>3. r = p
        BY <1>1, <1>2, <1>5, <3>1, <3>2
      <3> QED
        BY <3>1, <3>3
    <2> QED
      BY <2>1, <2>2
  <1> QED
    BY <1>3, <1>4, <1>5

(* Nothing is taken out of the namespace of the completed packets. *)
LEMMA CompletedGrows ==
    ASSUME [Next]_vars
    PROVE  completed \subseteq completed'
  BY DEF Next, StartRelay, RegisterChain, RunFeeder, FetchWindow, RetryFeed, PruneRefetch,
         NoDestination, FeederPanics, GoroutinePanics, TakeToken, Receive, ConsumeReturns,
         Screen, SignPacket, SendToCollector, CallFails, PutInRetry, StoreVerdict,
         PutInCompleted, ReceivePktsFromCollector, ReceiveMissed, GetMissedPacket,
         GetMissedPacketFails, ClientNotMade, KillSignal, ClosePktCh, SendOnClosed, Ended,
         Dies, vars, stored

(* Every step keeps the order in which packets leave the feed. *)
LEMMA OrderStep ==
    ASSUME ProcessTypeOK, JobsInv, FetchedInv, WindowsInv, OrderInv, [Next]_vars
    PROVE  OrderInv'
  <1>1. CASE Ends
    BY <1>1, GoneFetched DEF Ends, Dies, ConsumeReturns
  <1>2. CASE ~Ends
    <2>1. completed \subseteq completed'
      BY CompletedGrows
    <2>2. ahead' \subseteq ahead
      BY <1>2 DEF Next, StartRelay, RegisterChain, RunFeeder, FetchWindow, RetryFeed, PruneRefetch,
            NoDestination, FeederPanics, GoroutinePanics, TakeToken, Receive, ConsumeReturns,
            Screen, SignPacket, SendToCollector, CallFails, PutInRetry, StoreVerdict,
            PutInCompleted, ReceivePktsFromCollector, ReceiveMissed, GetMissedPacket,
            GetMissedPacketFails, ClientNotMade, KillSignal, ClosePktCh, SendOnClosed, Ended,
            vars, Ends, feeding, Resumed
    <2>3. SUFFICES ASSUME NEW p \in ahead', NEW q \in Packets, SameRoute(p, q),
                          Position[p] < Position[q], Past(q)'
                   PROVE  Past(p)' \/ InGap(p, completed)'
      BY DEF OrderInv
    <2>4. p \in ahead /\ p \in Packets /\ Position[p] \in Nat /\ Position[q] \in Nat
      BY <2>2, AttestorAssumption DEF ProcessTypeOK
    <2>5. InGap(p, completed) => InGap(p, completed)'
      BY <2>1 DEF InGap
    <2>6. SUFFICES Past(p) \/ InGap(p, completed)
      BY <1>2, <2>4, <2>5, PastStep
    <2>7. CASE Past(q)
      BY <2>3, <2>4, <2>7 DEF OrderInv
    <2>8. CASE InGap(q, completed)
      <3>1. PICK r \in completed : SameRoute(q, r) /\ Position[q] <= Position[r]
        BY <2>8 DEF InGap
      <3>2. r \in Packets /\ Position[r] \in Nat /\ Past(r)
        BY AttestorAssumption DEF ProcessTypeOK, Past
      <3>3. SameRoute(p, r) /\ Position[p] < Position[r]
        BY <2>3, <2>4, <3>1, <3>2 DEF SameRoute
      <3> QED
        BY <2>4, <3>2, <3>3 DEF OrderInv
    <2>9. ASSUME NEW e \in sending, Receive(e), e.pkt = q, e.by.kind = "feed"
          PROVE  Past(p)
      <3> DEFINE f == [by |-> e.by, pkt |-> p]
      <3>1. SameFeed(e.pkt, p) /\ Position[p] <= Position[e.pkt]
        BY <2>3, <2>4, <2>9 DEF SameRoute, SameFeed
      <3>2. f \in sending \/ Past(p)
        BY <2>4, <2>9, <3>1 DEF WindowsInv
      <3>3. ASSUME f \in sending PROVE FALSE
        <4>1. f # e /\ f.by = e.by /\ f.pkt = p
          BY <2>3, <2>4, <2>9
        <4>2. Position[e.pkt] <= Position[f.pkt]
          BY <2>9, <3>3, <4>1 DEF Receive
        <4> QED
          BY <2>3, <2>4, <2>9, <4>1, <4>2
      <3> QED
        BY <3>2, <3>3
    <2> QED
      BY <1>2, <2>3, <2>7, <2>8, <2>9, PastStep
  <1> QED
    BY <1>1, <1>2

(* A step that fetches nothing: what FeedPacket has still to send was      *)
(* fetched before, and what is no longer to be sent has been sent.         *)
LEMMA FetchedLess ==
    ASSUME ProcessTypeOK, FetchedInv, WindowsInv, ahead' \subseteq ahead,
           \A p \in Packets : Past(p) => Past(p)',
           \A e \in sending' : e.by.kind = "feed" =>
             e \in sending /\ e.pkt \in ahead' /\ Running(Source[e.pkt])',
           \A e \in sending', f \in sending :
             e.by.kind = "feed" /\ f.by = e.by => f \in sending' \/ Past(f.pkt)'
    PROVE  FetchedInv' /\ WindowsInv'
  <1>1. FetchedInv'
    <2> SUFFICES ASSUME NEW e \in sending', e.by.kind = "feed"
                 PROVE  /\ e.by = FeedSender(e.pkt) /\ Running(Source[e.pkt])'
                        /\ e.pkt \in ahead'
      BY DEF FetchedInv
    <2>1. e \in sending /\ e.pkt \in ahead' /\ Running(Source[e.pkt])'
      OBVIOUS
    <2> QED
      BY <2>1 DEF FetchedInv
  <1>2. WindowsInv'
    <2> SUFFICES ASSUME NEW e \in sending', NEW q \in ahead', e.by.kind = "feed",
                        SameFeed(e.pkt, q), Position[q] <= Position[e.pkt]
                 PROVE  [by |-> e.by, pkt |-> q] \in sending' \/ Past(q)'
      BY DEF WindowsInv
    <2> DEFINE f == [by |-> e.by, pkt |-> q]
    <2>1. e \in sending /\ q \in ahead /\ q \in Packets
      BY DEF ProcessTypeOK
    <2>2. f \in sending \/ Past(q)
      BY <2>1 DEF WindowsInv
    <2>3. CASE Past(q)
      BY <2>1, <2>3
    <2>4. CASE f \in sending
      <3>1. f.by = e.by /\ f.pkt = q
        OBVIOUS
      <3>2. f \in sending' \/ Past(f.pkt)'
        BY <2>4, <3>1
      <3> QED
        BY <3>1, <3>2
    <2> QED
      BY <2>2, <2>3, <2>4
  <1> QED
    BY <1>1, <1>2

(* FeedPacket fetches a window. *)
LEMMA FetchStep ==
    ASSUME ProcessTypeOK, FetchedInv, WindowsInv, NEW c \in Chain, FetchWindow(c)
    PROVE  FetchedInv' /\ WindowsInv'
  <1> USE DEF process, feeding, stored
  <1>1. PICK p \in ahead :
          /\ Source[p] = c /\ (c # "ethereum" => IsNext(p))
          /\ ~IsSending(FeedSender(p)) /\ Send(FeedSender(p), Window(p))
    BY DEF FetchWindow
  <1>2. sending' = sending \cup {[by |-> FeedSender(p), pkt |-> q] : q \in Window(p)}
    BY <1>1 DEF Send
  <1>3. Running(c) /\ UNCHANGED <<ahead, feeder, worker, completed, retryNS>>
    BY DEF FetchWindow
  <1>4. FeedSender(p).kind = "feed"
    BY DEF FeedSender, Sender
  <1>5. \A q \in Window(p) :
          /\ q \in ahead /\ SameFeed(p, q) /\ FeedSender(q) = FeedSender(p)
          /\ \A r \in ahead : SameFeed(q, r) /\ Position[r] <= Position[q] => r \in Window(p)
    BY <1>1, WindowFacts
  <1>6. ASSUME NEW q PROVE Past(q) => Past(q)'
    BY <1>1, <1>3, SendPast
  <1>7. \A e \in sending' \ sending :
          e.by = FeedSender(p) /\ e.pkt \in Window(p)
    BY <1>2
  <1>8. FetchedInv'
    <2> SUFFICES ASSUME NEW e \in sending', e.by.kind = "feed"
                 PROVE  /\ e.by = FeedSender(e.pkt) /\ Running(Source[e.pkt])'
                        /\ e.pkt \in ahead'
      BY DEF FetchedInv
    <2>1. CASE e \in sending
      BY <1>3, <2>1 DEF FetchedInv, Running
    <2>2. CASE e \notin sending
      <3>1. e.by = FeedSender(p) /\ e.pkt \in Window(p)
        BY <1>7, <2>2
      <3>2. e.pkt \in ahead /\ Source[e.pkt] = c /\ e.by = FeedSender(e.pkt)
        BY <1>1, <1>5, <3>1 DEF SameFeed
      <3> QED
        BY <1>3, <3>2 DEF Running
    <2> QED
      BY <2>1, <2>2
  <1>9. WindowsInv'
    <2> SUFFICES ASSUME NEW e \in sending', NEW q \in ahead', e.by.kind = "feed",
                        SameFeed(e.pkt, q), Position[q] <= Position[e.pkt]
                 PROVE  [by |-> e.by, pkt |-> q] \in sending' \/ Past(q)'
      BY DEF WindowsInv
    <2>1. CASE e \in sending
      BY <1>2, <1>3, <1>6, <2>1 DEF WindowsInv
    <2>2. CASE e \notin sending
      <3>1. e.by = FeedSender(p) /\ e.pkt \in Window(p)
        BY <1>7, <2>2
      <3>2. q \in Window(p)
        BY <1>3, <1>5, <3>1
      <3> QED
        BY <1>2, <3>1, <3>2
    <2> QED
      BY <2>1, <2>2
  <1> QED
    BY <1>8, <1>9

(* FeedPacket's position moves past a window when its last packet is taken. *)
LEMMA ReceiveFetched ==
    ASSUME ProcessTypeOK, FetchedInv, WindowsInv, NEW e \in sending, Receive(e)
    PROVE  FetchedInv' /\ WindowsInv'
  <1> USE DEF process, feeding, stored
  <1> DEFINE rest == {f \in sending \ {e} : f.by = e.by}
  <1>1. /\ sending' = sending \ {e} /\ feeder' = feeder
        /\ ahead' = IF e.by.kind = "feed" /\ rest = {} THEN ahead \ Window(e.pkt) ELSE ahead
    BY DEF Receive
  <1>2. \A p \in Packets : Past(p) => Past(p)'
    BY ReceivePast
  <1>3. ASSUME NEW f \in sending', f.by.kind = "feed"
        PROVE  f \in sending /\ f.pkt \in ahead' /\ Running(Source[f.pkt])'
    <2>1. f \in sending /\ f # e /\ f.pkt \in ahead /\ f.by = FeedSender(f.pkt)
      BY <1>1, <1>3 DEF FetchedInv
    <2>2. Running(Source[f.pkt])'
      BY <1>1, <1>3, <2>1 DEF FetchedInv, Running
    <2>3. CASE e.by.kind = "feed" /\ rest = {}
      <3>1. e.by = FeedSender(e.pkt) /\ f.by # e.by
        BY <2>1, <2>3 DEF FetchedInv
      <3>2. f.pkt \in Window(e.pkt) => FeedSender(f.pkt) = FeedSender(e.pkt)
        BY DEF Window, SameFeed, FeedSender
      <3> QED
        BY <1>1, <2>1, <2>2, <2>3, <3>1, <3>2
    <2>4. CASE ~(e.by.kind = "feed" /\ rest = {})
      BY <1>1, <2>1, <2>2, <2>4
    <2> QED
      BY <2>3, <2>4
  <1>4. ASSUME NEW f \in sending', NEW g \in sending, f.by.kind = "feed", g.by = f.by
        PROVE  g \in sending' \/ Past(g.pkt)'
    <2>1. CASE g = e
      BY <1>4, <2>1, ReceivePast
    <2>2. CASE g # e
      BY <1>1, <2>2
    <2> QED
      BY <2>1, <2>2
  <1>5. ahead' \subseteq ahead
    BY <1>1
  <1> QED
    BY <1>2, <1>3, <1>4, <1>5, FetchedLess

(* A panic takes away what FeedPacket has fetched, and its client is put   *)
(* back.                                                                   *)
LEMMA RecoveredFetched ==
    ASSUME ProcessTypeOK, FetchedInv, WindowsInv, NEW c, Recovered(c),
           UNCHANGED <<ahead, completed, retryNS, worker>>
    PROVE  FetchedInv' /\ WindowsInv'
  <1> DEFINE left(e) == [e EXCEPT !.by = IF @.chain = c THEN Old(@) ELSE @]
             stay == {e \in sending : ~(e.by.kind = "feed" /\ e.by.chain = c)}
  <1>1. sending' = {left(e) : e \in stay} /\ feeder' = [feeder EXCEPT ![c] = "put back"]
    BY DEF Recovered
  <1>2. ASSUME NEW e \in sending
        PROVE  /\ e.by.kind = "feed" /\ e.by.chain # c => e \in stay /\ left(e) = e
               /\ left(e).by.kind = "feed" => e.by.kind = "feed"
    <2>1. e \in [by : Senders, pkt : Packets]
      BY DEF ProcessTypeOK
    <2>2. Old(e.by).kind = "feed" => e.by.kind = "feed"
      BY <2>1 DEF Old, Senders
    <2>3. e.by.chain # c => left(e) = e
      BY <2>1
    <2>4. left(e).by.kind = "feed" => e.by.kind = "feed"
      BY <2>1, <2>2, <2>3
    <2> QED
      BY <2>3, <2>4
  <1> HIDE DEF left
  <1>3. \A p \in Packets : Past(p) => Past(p)'
    BY RecoveredPast
  <1>4. ASSUME NEW f \in sending', f.by.kind = "feed"
        PROVE  f \in sending /\ f.pkt \in ahead' /\ Running(Source[f.pkt])' /\ f.by.chain # c
    <2>1. PICK e \in stay : f = left(e)
      BY <1>1
    <2>2. e.by.kind = "feed" /\ e.by.chain # c
      BY <1>2, <1>4, <2>1
    <2>3. f = e
      BY <1>2, <2>1, <2>2
    <2>4. f.by = FeedSender(f.pkt) /\ Running(Source[f.pkt]) /\ f.pkt \in ahead
      BY <2>2, <2>3 DEF FetchedInv
    <2>5. Source[f.pkt] # c
      BY <2>2, <2>3, <2>4 DEF FeedSender, Sender
    <2>6. feeder'[Source[f.pkt]] = feeder[Source[f.pkt]]
      <3>1. f.pkt \in Packets /\ Source[f.pkt] \in Chain
        BY <2>4, AttestorAssumption DEF ProcessTypeOK
      <3> QED
        BY <1>1, <2>5, <3>1 DEF ProcessTypeOK
    <2> QED
      BY <2>2, <2>3, <2>4, <2>6 DEF Running
  <1>5. ASSUME NEW f \in sending', NEW g \in sending, f.by.kind = "feed", g.by = f.by
        PROVE  g \in sending' \/ Past(g.pkt)'
    <2>1. g.by.kind = "feed" /\ g.by.chain # c
      BY <1>4, <1>5
    <2>2. g \in stay /\ left(g) = g
      BY <1>2, <2>1
    <2> QED
      BY <1>1, <2>2
  <1>6. ahead' \subseteq ahead
    OBVIOUS
  <1> QED
    BY <1>3, <1>4, <1>5, <1>6, FetchedLess

(* Every step keeps what is fetched ahead of the feed's position. *)
LEMMA FetchedStep ==
    ASSUME ProcessTypeOK, JobsInv, FeedersInv, FetchedInv, WindowsInv, [Next]_vars
    PROVE  FetchedInv' /\ WindowsInv'
  <1> USE DEF process, feeding, polling, stored, collector
  <1>1. CASE Ends
    BY <1>1, GoneFetched DEF Ends, Dies, ConsumeReturns, GoneFetched
  <1>2. CASE ~Ends
    <2>1. \A p \in Packets : Past(p) => Past(p)'
      BY <1>2, PastStep
    <2>2. ASSUME ahead' = ahead, \A e \in sending' \ sending : e.by.kind # "feed",
                 sending \subseteq sending', \A c \in Chain : Running(c) => Running(c)'
          PROVE  FetchedInv' /\ WindowsInv'
      <3>1. \A e \in sending' : e.by.kind = "feed" =>
              e \in sending /\ e.pkt \in ahead' /\ Running(Source[e.pkt])'
        BY <2>2, AttestorAssumption DEF FetchedInv, ProcessTypeOK
      <3> QED
        BY <2>1, <2>2, <3>1, FetchedLess
    <2>3. CASE \/ StartRelay \/ TakeToken \/ ReceivePktsFromCollector
               \/ ReceiveMissed \/ GetMissedPacketFails \/ KillSignal \/ ClosePktCh
               \/ UNCHANGED vars
               \/ \E w \in Workers :
                    \/ Screen(w) \/ SignPacket(w) \/ SendToCollector(w) \/ CallFails(w)
                    \/ PutInRetry(w) \/ StoreVerdict(w) \/ PutInCompleted(w)
      <3>1. UNCHANGED <<ahead, sending, feeder>>
        BY <1>2, <2>3 DEF StartRelay, TakeToken, ReceivePktsFromCollector, ReceiveMissed,
              GetMissedPacketFails, KillSignal, ClosePktCh, vars, Screen, SignPacket,
              SendToCollector, CallFails, PutInRetry, StoreVerdict, PutInCompleted, Ends
      <3> QED
        BY <2>2, <3>1 DEF Running
    <2>4. CASE RegisterChain
      <3>1. PICK i \in DOMAIN Chains :
              Chains[i] \notin registered /\ feeder' = [feeder EXCEPT ![Chains[i]] = "queued"]
        BY <2>4 DEF RegisterChain
      <3>2. UNCHANGED <<ahead, sending>>
        BY <2>4 DEF RegisterChain
      <3>3. \A c \in Chain : Running(c) => Running(c)'
        <4> SUFFICES ASSUME NEW c \in Chain, Running(c) PROVE Running(c)'
          OBVIOUS
        <4>1. c \in registered
          BY DEF Running, FeedersInv
        <4>2. feeder'[c] = feeder[c]
          BY <3>1, <4>1 DEF ProcessTypeOK
        <4> QED
          BY <4>2 DEF Running
      <3> QED
        BY <2>2, <3>2, <3>3
    <2>5. ASSUME NEW c \in Chain, RunFeeder(c)
          PROVE  FetchedInv' /\ WindowsInv'
      <3>1. /\ sending' = sending /\ ahead' = Resumed(c) /\ ~Running(c)
            /\ \A d \in Chain : Running(d) => Running(d)'
        BY <2>5 DEF RunFeeder, Running, ProcessTypeOK
      <3>2. \A e \in sending' : e.by.kind = "feed" =>
              e \in sending /\ e.pkt \in ahead' /\ Running(Source[e.pkt])'
        <4> SUFFICES ASSUME NEW e \in sending, e.by.kind = "feed"
                     PROVE  e.pkt \in ahead' /\ Running(Source[e.pkt])'
          BY <3>1
        <4>1. e.pkt \in ahead /\ Running(Source[e.pkt]) /\ e.pkt \in Packets
          BY DEF FetchedInv, ProcessTypeOK
        <4>2. Source[e.pkt] # c /\ Source[e.pkt] \in Chain
          BY <3>1, <4>1, AttestorAssumption
        <4> QED
          BY <3>1, <4>1, <4>2 DEF Resumed
      <3>3. ahead' \subseteq ahead
        BY <3>1 DEF Resumed
      <3> QED
        BY <2>1, <3>1, <3>2, <3>3, FetchedLess
    <2>6. ASSUME NEW c \in Chain,
                 \/ \E kind \in {"retry", "old retry"} : RetryFeed(c, kind)
                 \/ \E kind \in {"prune", "old prune"} : PruneRefetch(c, kind)
          PROVE  FetchedInv' /\ WindowsInv'
      <3>1. PICK kind \in Kinds \ {"feed"} : \E batch : Send(Sender(kind, c, "any"), batch)
        BY <2>6 DEF RetryFeed, PruneRefetch, Kinds
      <3>2. sending \subseteq sending' /\ \A e \in sending' \ sending : e.by.kind # "feed"
        BY <3>1 DEF Send, Sender
      <3>3. UNCHANGED <<ahead, feeder>>
        BY <2>6 DEF RetryFeed, PruneRefetch
      <3> QED
        BY <2>2, <3>2, <3>3 DEF Running
    <2>7. CASE GetMissedPacket
      <3>1. PICK q \in reported : Send(MissedSender, {q})
        BY <2>7 DEF GetMissedPacket
      <3>2. sending \subseteq sending' /\ \A e \in sending' \ sending : e.by.kind # "feed"
        BY <3>1 DEF Send, MissedSender, Sender
      <3>3. UNCHANGED <<ahead, feeder>>
        BY <2>7 DEF GetMissedPacket
      <3> QED
        BY <2>2, <3>2, <3>3 DEF Running
    <2>8. ASSUME NEW c \in Chain, FeederPanics(c)
          PROVE  FetchedInv' /\ WindowsInv'
      BY <2>8, RecoveredFetched DEF FeederPanics
    <2>9. ASSUME NEW e \in sending, SendOnClosed(e)
          PROVE  FetchedInv' /\ WindowsInv'
      BY <1>2, <2>9, RecoveredFetched DEF SendOnClosed, Ends
    <2>10. ~(ClientNotMade \/ GoroutinePanics \/ ConsumeReturns \/ \E c \in Chain : NoDestination(c))
      BY <1>2 DEF ClientNotMade, GoroutinePanics, NoDestination, Ends
    <2> QED
      BY <2>3, <2>4, <2>5, <2>6, <2>7, <2>8, <2>9, <2>10, FetchStep, ReceiveFetched
      DEF Next, Ended
  <1> QED
    BY <1>1, <1>2

(* Every feeder that runs has a client. *)
LEMMA FeedersStep ==
    ASSUME ProcessTypeOK, FeedersInv, FetchedInv, [Next]_vars
    PROVE  FeedersInv'
  <1> USE DEF process, feeding, polling, stored, collector
  <1>1. CASE Ends
    BY <1>1, GoneFetched DEF Ends, Dies, ConsumeReturns
  <1>2. CASE ~Ends
    <2>1. CASE UNCHANGED <<registered, feeder>>
      BY <2>1 DEF FeedersInv
    <2>2. CASE RegisterChain
      BY <2>2 DEF RegisterChain, FeedersInv, ProcessTypeOK
    <2>3. ASSUME NEW c \in Chain, RunFeeder(c) \/ FeederPanics(c)
          PROVE  FeedersInv'
      <3>1. registered' = registered /\ feeder[c] # "none"
        BY <2>3 DEF RunFeeder, FeederPanics, Running
      <3>2. \A d \in Chain \ {c} : feeder'[d] = feeder[d]
        BY <2>3 DEF RunFeeder, FeederPanics, Recovered, ProcessTypeOK
      <3> QED
        BY <3>1, <3>2 DEF FeedersInv
    <2>4. ASSUME NEW e \in sending, SendOnClosed(e)
          PROVE  FeedersInv'
      <3>1. e.by.kind = "feed" /\ e.by.chain = "ethereum" /\ registered' = registered
        BY <1>2, <2>4 DEF SendOnClosed, Ends
      <3>2. feeder' = [feeder EXCEPT !["ethereum"] = "put back"]
        BY <1>2, <2>4 DEF SendOnClosed, Ends, Recovered
      <3>3. e.by = FeedSender(e.pkt) /\ Running(Source[e.pkt]) /\ e.pkt \in Packets
        BY <3>1 DEF FetchedInv, ProcessTypeOK
      <3>4. Source[e.pkt] = "ethereum" /\ Source[e.pkt] \in Chain
        BY <3>1, <3>3, AttestorAssumption DEF FeedSender, Sender
      <3>5. "ethereum" \in registered
        BY <3>3, <3>4 DEF FeedersInv, Running
      <3>6. \A d \in Chain \ {"ethereum"} : feeder'[d] = feeder[d]
        BY <3>2 DEF ProcessTypeOK
      <3> QED
        BY <3>1, <3>5, <3>6 DEF FeedersInv
    <2>5. \/ UNCHANGED <<registered, feeder>> \/ RegisterChain
          \/ \E c \in Chain : RunFeeder(c) \/ FeederPanics(c)
          \/ \E e \in sending : SendOnClosed(e)
      BY <1>2 DEF Next, StartRelay, FetchWindow, RetryFeed, PruneRefetch,
            NoDestination, GoroutinePanics, TakeToken, Receive,
            Screen, SignPacket, SendToCollector, CallFails, PutInRetry, StoreVerdict,
            PutInCompleted, ReceivePktsFromCollector, ReceiveMissed, GetMissedPacket,
            GetMissedPacketFails, ClientNotMade, KillSignal, ClosePktCh, Ended, vars, Ends
    <2> QED
      BY <2>1, <2>2, <2>3, <2>4, <2>5
  <1> QED
    BY <1>1, <1>2

-------------------------------------------------------------------------------
(* The invariant *)

(* No verdict has been given when the process starts. *)
LEMMA VerdictsInit == Init => VerdictsInv
  <1> SUFFICES ASSUME Init PROVE VerdictsInv
    OBVIOUS
  <1>1. DOMAIN screened = {} /\ signatures = {}
    BY DEF Init, EmptyBucket
  <1>2. \A w \in Workers : worker[w].at = "idle"
    BY DEF Init, Idle
  <1> QED
    BY <1>1, <1>2 DEF VerdictsInv

(* A store of an earlier run has packets of a route in the feed's order. *)
LEMMA OrderInit == Init => OrderInv
  <1> SUFFICES ASSUME Init PROVE OrderInv
    OBVIOUS
  <1>1. PICK s \in Starts : ahead = s.ahead /\ completed = s.completed /\ retryNS = s.retry
    BY DEF Init
  <1>2. \A w \in Workers : worker[w].at = "idle"
    BY DEF Init, Idle
  <1>3. \A p \in Packets : Past(p) <=> p \in completed \cup retryNS
    <2>1. sending = {}
      BY DEF Init
    <2>2. \A w \in Workers : \A p : ~HoldsJob(worker[w], p)
      BY <1>2 DEF HoldsJob
    <2> QED
      BY <2>1, <2>2 DEF Past
  <1>4. ASSUME NEW p \in ahead, NEW q \in Packets, SameRoute(p, q), Position[p] < Position[q],
               Past(q)
        PROVE  Past(p) \/ InGap(p, completed)
    <2>1. p \in Packets
      BY <1>1, AttestorAssumption
    <2>2. q \in s.completed \cup s.retry
      BY <1>1, <1>3, <1>4
    <2>3. p \in s.completed \cup s.retry \/ InGap(p, s.completed)
      BY <1>1, <1>4, <2>2, AttestorAssumption
    <2> QED
      BY <1>1, <1>3, <2>1, <2>3
  <1> QED
    BY <1>4 DEF OrderInv

(* The process starts with nothing fetched and no feeder. *)
LEMMA ProcessInit == Init => ProcessInv
  <1> SUFFICES ASSUME Init PROVE ProcessInv
    OBVIOUS
  <1>1. sending = {} /\ feeder = [c \in Chain |-> "none"]
    BY DEF Init
  <1>2. JobsInv
    BY DEF Init, Idle, JobsInv, GivesBack
  <1>3. FeedersInv /\ FetchedInv /\ WindowsInv
    BY <1>1 DEF FeedersInv, FetchedInv, WindowsInv
  <1> QED
    BY <1>2, <1>3, TypesInit, VerdictsInit, OrderInit DEF ProcessInv

(* Every step keeps the invariant. *)
LEMMA ProcessStep == ProcessInv /\ [Next]_vars => ProcessInv'
  BY TypesStep, VerdictsStep, FeedersStep, FetchedStep, OrderStep DEF ProcessInv

(* The invariant of the process, whatever store it starts from. *)
THEOREM Invariance == Spec => []ProcessInv
  BY ProcessInit, ProcessStep, PTL DEF Spec

(* Every signature of a packet carries one verdict. *)
THEOREM VerdictsAgree == Spec => []OneVerdictPerPacket
  <1>1. ProcessInv => OneVerdictPerPacket
    BY DEF ProcessInv, VerdictsInv, OneVerdictPerPacket
  <1> QED
    BY <1>1, Invariance, PTL

-------------------------------------------------------------------------------
(* No packet is lost *)

(* What is in hand is ahead of the feed or past it. *)
LEMMA KeptIsPast ==
    ASSUME ProcessTypeOK, FetchedInv, NEW p \in Packets
    PROVE  /\ Kept(p) => p \in ahead \/ Past(p) \/ InGap(p, completed)
           /\ Past(p) \/ InGap(p, completed) => Kept(p)
  <1> DEFINE doing(w) == /\ worker[w].at \in {"screen", "sign", "send", "failed", "completed"}
                         /\ worker[w].pkt = p /\ ~worker[w].missed
  <1>1. \A w \in Workers : doing(w) <=> HoldsJob(worker[w], p)
    BY DEF HoldsJob
  <1>2. ASSUME NEW e \in sending, e.pkt = p, e.by.kind # "missed"
        PROVE  p \in ahead \/ Past(p)
    <2>1. CASE e.by.kind = "feed"
      BY <1>2, <2>1 DEF FetchedInv
    <2>2. CASE e.by.kind # "feed"
      BY <1>2, <2>2 DEF Past
    <2> QED
      BY <2>1, <2>2
  <1>3. InHand(p) => p \in ahead \/ Past(p)
    BY <1>1, <1>2 DEF InHand, Past
  <1>4. Past(p) => p \in completed \/ InHand(p)
    BY <1>1 DEF InHand, Past
  <1> QED
    BY <1>3, <1>4 DEF Kept, Past

(* A packet leaves what lies ahead when the last of its window is taken:   *)
(* it has been sent.                                                       *)
LEMMA TakenIsPast ==
    ASSUME ProcessTypeOK, FetchedInv, WindowsInv, NEW e \in sending, Receive(e),
           NEW p \in ahead, p \notin ahead'
    PROVE  Past(p)'
  <1> DEFINE rest == {g \in sending \ {e} : g.by = e.by}
             f == [by |-> e.by, pkt |-> p]
  <1>1. e.by.kind = "feed" /\ rest = {} /\ p \in Window(e.pkt)
    BY DEF Receive
  <1>2. p \in Packets /\ e.pkt \in Packets /\ e \in [by : Senders, pkt : Packets]
    BY DEF ProcessTypeOK
  <1>3. SameFeed(e.pkt, p) /\ Position[p] <= Position[e.pkt]
    BY <1>1, <1>2, AttestorAssumption DEF Window, SameFeed
  <1>4. f \in sending \/ Past(p)
    BY <1>1, <1>3 DEF WindowsInv
  <1>5. ASSUME f \in sending PROVE p = e.pkt
    <2>1. f \notin rest
      BY <1>1
    <2>2. f.by = e.by /\ f.pkt = p
      OBVIOUS
    <2> QED
      BY <1>5, <2>1, <2>2
  <1>6. p = e.pkt => Past(p)'
    BY <1>1, <1>2, ReceivePast
  <1>7. Past(p) => Past(p)'
    BY <1>2, ReceivePast
  <1> QED
    BY <1>4, <1>5, <1>6, <1>7

(* A packet that the feed skips when it resumes is past it, in a gap, or   *)
(* shares its block with a completed one.                                  *)
LEMMA SkippedIsPast ==
    ASSUME ProcessTypeOK, OrderInv, NEW c \in Chain, NEW p \in ahead, p \notin Resumed(c)
    PROVE  Past(p) \/ InGap(p, completed) \/ SharesBlock(p)
  <1>1. p \in Packets /\ Feeds(p) /\ Source[p] = c
    BY DEF ProcessTypeOK, Resumed
  <1>2. Dest[p] \in IF c = "ethereum" THEN DestChains[c] ELSE {Dest[p]}
    BY <1>1 DEF Feeds, HasNamespace
  <1>3. PICK q \in completed : /\ Source[q] = c /\ Dest[q] = Dest[p]
                               /\ ~(Position[q] < Position[p])
    BY <1>1, <1>2 DEF Resumed
  <1>4. q \in Packets /\ Position[q] \in Nat /\ Position[p] \in Nat /\ Past(q)
    BY <1>1, <1>3, AttestorAssumption DEF ProcessTypeOK, Past
  <1>5. SameRoute(p, q)
    BY <1>1, <1>3 DEF SameRoute
  <1>6. CASE q = p
    BY <1>4, <1>6
  <1>7. CASE q # p /\ Position[q] = Position[p]
    BY <1>3, <1>5, <1>7 DEF SharesBlock
  <1>8. CASE Position[p] < Position[q]
    BY <1>4, <1>5, <1>8 DEF OrderInv
  <1> QED
    BY <1>3, <1>4, <1>6, <1>7, <1>8

(* What no longer lies ahead was taken or skipped. *)
LEMMA LeavesFeed ==
    ASSUME [Next]_vars, ~Ends, NEW p \in ahead, p \notin ahead'
    PROVE  \/ \E e \in sending : Receive(e)
           \/ \E c \in Chain : RunFeeder(c)
  BY DEF Next, StartRelay, RegisterChain, FetchWindow, RetryFeed, PruneRefetch,
         NoDestination, FeederPanics, GoroutinePanics, TakeToken,
         Screen, SignPacket, SendToCollector, CallFails, PutInRetry, StoreVerdict,
         PutInCompleted, ReceivePktsFromCollector, ReceiveMissed, GetMissedPacket,
         GetMissedPacketFails, ClientNotMade, KillSignal, ClosePktCh, SendOnClosed, Ended,
         vars, Ends, feeding

(* No step loses a packet while the process runs. *)
LEMMA KeptStep ==
    ASSUME ProcessInv, [Next]_vars, NEW p \in Packets, Kept(p)
    PROVE  Kept(p)' \/ SharesBlock(p) \/ ~Alive'
  <1> USE DEF ProcessInv
  <1>1. CASE Ends
    BY <1>1 DEF Ends, Dies, ConsumeReturns, Alive
  <1>2. CASE ~Ends
    <2>1. ProcessTypeOK' /\ FetchedInv'
      BY TypesStep, FetchedStep
    <2>2. Past(p)' => Kept(p)'
      BY DEF Past, Kept, InHand, HoldsJob
    <2>3. InGap(p, completed) => Kept(p)'
      BY CompletedGrows DEF InGap, Kept
    <2>4. p \in ahead' => Kept(p)'
      BY DEF Kept
    <2>5. Past(p) => Kept(p)'
      BY <1>2, <2>2, PastStep
    <2>6. CASE p \in ahead /\ p \notin ahead'
      <3>1. ASSUME NEW e \in sending, Receive(e) PROVE Kept(p)'
        BY <2>2, <2>6, <3>1, TakenIsPast
      <3>2. ASSUME NEW c \in Chain, RunFeeder(c) PROVE Kept(p)' \/ SharesBlock(p)
        <4>1. p \notin Resumed(c)
          BY <2>6, <3>2 DEF RunFeeder
        <4> QED
          BY <2>3, <2>5, <2>6, <4>1, SkippedIsPast
      <3> QED
        BY <1>2, <2>6, <3>1, <3>2, LeavesFeed
    <2> QED
      BY <2>3, <2>4, <2>5, <2>6, KeptIsPast
  <1> QED
    BY <1>1, <1>2

(* While the process runs no packet is lost between feed, senders, workers *)
(* and the store, whatever panics and refetches there are.                 *)
THEOREM PacketsAlwaysKept == Spec => PacketsKept
  <1>1. ProcessInv /\ [Next]_vars =>
          [\A p \in Packets : Kept(p) => Kept(p)' \/ SharesBlock(p) \/ ~Alive']_vars
    BY KeptStep
  <1> QED
    BY <1>1, Invariance, PTL DEF Spec, PacketsKept

-------------------------------------------------------------------------------
(* The keys of the store.  Shifting is a recursive function; that there is *)
(* one, and what it has in common for two numbers, is shown by the least   *)
(* place where it would fail.                                              *)

(* A set of numbers that is not empty has a least one. *)
LEMMA LeastNat ==
    ASSUME NEW S, S \subseteq Nat, S # {}
    PROVE  \E m \in S : \A n \in S : m <= n
  <1>1. PICK m \in S : \A n \in S : <<n, m>> \notin OpToRel(<, Nat)
    BY NatLessThanWellFounded, WFMin
  <1>2. \A n \in S : ~(n < m)
    BY <1>1 DEF OpToRel
  <1> QED
    BY <1>2

(* The equations of a function that divides by B at each step. *)
Shifts(s, k, B, W) ==
    /\ s \in [0 .. W -> Nat] /\ s[0] = k
    /\ \A n \in 1 .. W : s[n] = s[n - 1] \div B

(* The quotients of a number, one for each byte, exist. *)
LEMMA ShiftsExists ==
    ASSUME NEW k \in Nat, NEW B \in Nat \ {0}
    PROVE  \A W \in Nat : \E s : Shifts(s, k, B, W)
  <1> DEFINE Bad == {W \in Nat : ~ \E s : Shifts(s, k, B, W)}
  <1>1. SUFFICES ASSUME Bad # {} PROVE FALSE
    OBVIOUS
  <1>2. PICK W \in Bad : \A V \in Bad : W <= V
    BY <1>1, LeastNat
  <1>3. CASE W = 0
    <2>1. Shifts([n \in 0 .. 0 |-> k], k, B, 0)
      BY DEF Shifts
    <2> QED
      BY <1>3, <2>1
  <1>4. CASE W # 0
    <2>1. W - 1 \in Nat /\ W - 1 \notin Bad
      BY <1>2, <1>4
    <2>2. PICK s : Shifts(s, k, B, W - 1)
      BY <2>1
    <2> DEFINE t == [n \in 0 .. W |-> IF n = W THEN s[W - 1] \div B ELSE s[n]]
    <2>3. \A n \in 0 .. W - 1 : s[n] \in Nat
      BY <2>2 DEF Shifts
    <2>4. s[W - 1] \div B \in Nat
      BY <2>1, <2>3
    <2>5. t \in [0 .. W -> Nat] /\ t[0] = k
      BY <1>2, <1>4, <2>2, <2>3, <2>4 DEF Shifts
    <2>6. \A n \in 1 .. W : t[n] = t[n - 1] \div B
      BY <1>2, <1>4, <2>2 DEF Shifts
    <2>7. Shifts(t, k, B, W)
      BY <2>5, <2>6 DEF Shifts
    <2> QED
      BY <2>7
  <1> QED
    BY <1>3, <1>4

(* `shifted' is the list of those quotients. *)
LEMMA ShiftedShifts ==
    ASSUME NEW k \in Nat, NEW B \in Nat \ {0}, NEW W \in Nat
    PROVE  Shifts(shifted(k, B, W), k, B, W)
  <1> DEFINE Equation(s) == s = [n \in 0 .. W |-> IF n = 0 THEN k ELSE s[n - 1] \div B]
  <1>1. PICK s : Shifts(s, k, B, W)
    BY ShiftsExists
  <1>2. Equation(s)
    BY <1>1 DEF Shifts
  <1>3. shifted(k, B, W) = CHOOSE t : Equation(t)
    BY DEF shifted
  <1> DEFINE t == shifted(k, B, W)
  <1>4. Equation(t)
    BY <1>2, <1>3
  <1> HIDE DEF t
  <1> DEFINE F == [n \in 0 .. W |-> IF n = 0 THEN k ELSE t[n - 1] \div B]
  <1>5. t[0] = k /\ \A n \in 1 .. W : t[n] = t[n - 1] \div B
    <2>1. \A n \in 0 .. W : F[n] = IF n = 0 THEN k ELSE t[n - 1] \div B
      OBVIOUS
    <2>2. t = F
      BY <1>4
    <2> HIDE DEF F
    <2> QED
      BY <2>1, <2>2
  <1>6. \A n \in 0 .. W : t[n] \in Nat
    <2> DEFINE Bad == {n \in 0 .. W : t[n] \notin Nat}
    <2>1. SUFFICES ASSUME Bad # {} PROVE FALSE
      OBVIOUS
    <2>2. PICK n \in Bad : \A m \in Bad : n <= m
      <3>1. Bad \subseteq Nat
        OBVIOUS
      <3> QED
        BY <2>1, <3>1, LeastNat
    <2>3. n # 0 /\ n - 1 \in 0 .. W /\ n - 1 \notin Bad
      BY <1>5, <2>2
    <2>4. t[n - 1] \in Nat /\ t[n] = t[n - 1] \div B
      BY <1>5, <2>2, <2>3
    <2> QED
      BY <2>2, <2>4
  <1>7. t \in [0 .. W -> Nat]
    <2>1. \A n \in 0 .. W : (IF n = 0 THEN k ELSE t[n - 1] \div B) \in Nat
      BY <1>5, <1>6
    <2>2. F \in [0 .. W -> Nat]
      BY <2>1
    <2>3. t = F
      BY <1>4
    <2> HIDE DEF F
    <2> QED
      BY <2>2, <2>3
  <1> QED
    BY <1>5, <1>7 DEF Shifts, t

(* Shifting keeps the order, weakly; and numbers that have become equal    *)
(* stay equal.                                                             *)
LEMMA ShiftsMonotonic ==
    ASSUME NEW B \in Nat \ {0}, NEW W \in Nat, NEW k \in Nat, NEW l \in Nat, k <= l,
           NEW s, NEW t, Shifts(s, k, B, W), Shifts(t, l, B, W)
    PROVE  \A n \in 0 .. W : s[n] <= t[n]
  <1> DEFINE Bad == {n \in 0 .. W : ~(s[n] <= t[n])}
  <1>1. SUFFICES ASSUME Bad # {} PROVE FALSE
    OBVIOUS
  <1>2. PICK n \in Bad : \A m \in Bad : n <= m
    <2>1. Bad \subseteq Nat
      OBVIOUS
    <2> QED
      BY <1>1, <2>1, LeastNat
  <1>3. n # 0
    BY <1>2 DEF Shifts
  <1>4. n - 1 \in 0 .. W /\ n - 1 \notin Bad
    BY <1>2, <1>3
  <1>5. s[n - 1] \in Nat /\ t[n - 1] \in Nat /\ s[n - 1] <= t[n - 1]
    BY <1>4 DEF Shifts
  <1>6. s[n] = s[n - 1] \div B /\ t[n] = t[n - 1] \div B
    <2>1. n \in 1 .. W
      BY <1>2, <1>3
    <2> QED
      BY <2>1 DEF Shifts
  <1>7. \A a, b \in Nat : a <= b => a \div B <= b \div B
    OBVIOUS
  <1>8. s[n] <= t[n]
    BY <1>5, <1>6, <1>7
  <1> QED
    BY <1>2, <1>8

(* Two numbers with a quotient in common have all the later ones in common. *)
LEMMA ShiftsStayEqual ==
    ASSUME NEW B \in Nat \ {0}, NEW W \in Nat, NEW k \in Nat, NEW l \in Nat,
           NEW s, NEW t, Shifts(s, k, B, W), Shifts(t, l, B, W),
           NEW m \in 0 .. W, s[m] = t[m]
    PROVE  \A n \in m .. W : s[n] = t[n]
  <1> DEFINE Bad == {n \in m .. W : s[n] # t[n]}
  <1>1. SUFFICES ASSUME Bad # {} PROVE FALSE
    OBVIOUS
  <1>2. PICK n \in Bad : \A i \in Bad : n <= i
    <2>1. Bad \subseteq Nat
      OBVIOUS
    <2> QED
      BY <1>1, <2>1, LeastNat
  <1>3. n # m
    BY <1>2
  <1>4. n - 1 \in m .. W /\ n - 1 \notin Bad /\ n \in 1 .. W
    BY <1>2, <1>3
  <1>5. s[n - 1] = t[n - 1]
    BY <1>4
  <1>6. s[n] = s[n - 1] \div B /\ t[n] = t[n - 1] \div B
    BY <1>4 DEF Shifts
  <1> QED
    BY <1>2, <1>5, <1>6

(* A number is made of its quotient and its last digit. *)
LEMMA Digits ==
    ASSUME NEW B \in Nat \ {0}, NEW q \in Nat
    PROVE  /\ q = (q \div B) * B + (q % B)
           /\ q % B \in 0 .. B - 1 /\ q \div B \in Nat
  OBVIOUS

(* Of two numbers with the same rest after a shift, the smaller has the    *)
(* smaller last byte.                                                      *)
LEMMA LastByte ==
    ASSUME NEW B \in Nat \ {0}, NEW a \in Nat, NEW b \in Nat, a \div B = b \div B, a < b
    PROVE  a % B < b % B
  BY Digits

(* The key of a number of W bytes, as a sequence of bytes.                 *)
LEMMA KeyBytes ==
    ASSUME NEW B \in Nat \ {0}, NEW W \in Nat, NEW k \in Nat
    PROVE  LET key == getKeyByteForKeyConstraint(k, B, W)
               s   == shifted(k, B, W)
           IN  /\ key \in Seq(0 .. B - 1) /\ Len(key) = W /\ DOMAIN key = 1 .. W
               /\ \A i \in 1 .. W : key[i] = s[W - i] % B
  <1> DEFINE key == getKeyByteForKeyConstraint(k, B, W)
             s   == shifted(k, B, W)
  <1>1. Shifts(s, k, B, W)
    BY ShiftedShifts
  <1>2. key = [i \in 1 .. W |-> s[W - i] % B]
    BY DEF getKeyByteForKeyConstraint
  <1> HIDE DEF key, s
  <1>3. \A i \in 1 .. W : W - i \in 0 .. W /\ s[W - i] \in Nat
    BY <1>1 DEF Shifts
  <1>4. key \in [1 .. W -> 0 .. B - 1]
    BY <1>2, <1>3, Digits
  <1>5. key \in Seq(0 .. B - 1) /\ Len(key) = W /\ DOMAIN key = 1 .. W
    BY <1>4
  <1> QED
    BY <1>2, <1>5 DEF key, s

(* bolt's order of the keys is that of the numbers they stand for, for     *)
(* bytes of any size and numbers of any width (256 and 8 in the code): so  *)
(* its cursors find the first and the last completed number                *)
(* (getKeyByteForKeyConstraint, bytes.Compare).                            *)
THEOREM KeysAreOrdered ==
    ASSUME NEW B \in Nat \ {0}, NEW W \in Nat, NEW k, NEW l, Fits(k, B, W), Fits(l, B, W), k < l
    PROVE  KeyBefore(getKeyByteForKeyConstraint(k, B, W), getKeyByteForKeyConstraint(l, B, W))
  <1> DEFINE s == shifted(k, B, W)
             t == shifted(l, B, W)
             a == getKeyByteForKeyConstraint(k, B, W)
             b == getKeyByteForKeyConstraint(l, B, W)
  <1>1. k \in Nat /\ l \in Nat /\ s[W] = 0 /\ t[W] = 0
    BY DEF Fits
  <1>2. Shifts(s, k, B, W) /\ Shifts(t, l, B, W)
    BY <1>1, ShiftedShifts
  <1>3. /\ DOMAIN a = 1 .. W
        /\ \A i \in 1 .. W : a[i] = s[W - i] % B /\ b[i] = t[W - i] % B
    BY <1>1, KeyBytes
  <1> HIDE DEF s, t, a, b
  <1> DEFINE Equal == {n \in 0 .. W : s[n] = t[n]}
  <1>4. PICK m \in Equal : \A n \in Equal : m <= n
    <2>1. W \in Equal /\ Equal \subseteq Nat
      BY <1>1
    <2> QED
      BY <2>1, LeastNat
  <1>5. m # 0 /\ m \in 1 .. W
    BY <1>2, <1>4 DEF Shifts
  <1>6. \A n \in m .. W : s[n] = t[n]
    BY <1>1, <1>2, <1>4, ShiftsStayEqual
  <1>7. m - 1 \in 0 .. W /\ s[m - 1] \in Nat /\ t[m - 1] \in Nat
    BY <1>2, <1>5 DEF Shifts
  <1>8. s[m - 1] < t[m - 1]
    <2>1. s[m - 1] <= t[m - 1]
      BY <1>1, <1>2, <1>7, ShiftsMonotonic
    <2>2. m - 1 \notin Equal
      BY <1>4, <1>7
    <2> QED
      BY <1>7, <2>1, <2>2
  <1>9. s[m - 1] % B < t[m - 1] % B
    <2>1. s[m] = s[m - 1] \div B /\ t[m] = t[m - 1] \div B /\ s[m] = t[m]
      BY <1>2, <1>4, <1>5 DEF Shifts
    <2> QED
      BY <1>7, <1>8, <2>1, LastByte
  <1> DEFINE i == W - (m - 1)
  <1>10. i \in 1 .. W /\ W - i = m - 1
    BY <1>5
  <1>11. a[i] < b[i]
    BY <1>3, <1>9, <1>10
  <1>12. \A j \in 1 .. i - 1 : a[j] = b[j]
    <2> TAKE j \in 1 .. i - 1
    <2>1. j \in 1 .. W /\ W - j \in m .. W
      BY <1>5, <1>10
    <2> QED
      BY <1>3, <1>6, <2>1
  <1> HIDE DEF i
  <1>13. KeyBefore(a, b)
    BY <1>3, <1>10, <1>11, <1>12 DEF KeyBefore
  <1> QED
    BY <1>13 DEF a, b

(* Reading a key gives back the number it stands for (convertType of       *)
(* getKeyByteForKeyConstraint), for numbers and bytes of any size.         *)
THEOREM KeysAreReadBack ==
    ASSUME NEW B \in Nat \ {0}, NEW W \in Nat, NEW k, Fits(k, B, W)
    PROVE  convertType(getKeyByteForKeyConstraint(k, B, W), B) = k
  <1> DEFINE s   == shifted(k, B, W)
             key == getKeyByteForKeyConstraint(k, B, W)
  <1>1. k \in Nat /\ s[W] = 0 /\ Shifts(s, k, B, W)
    BY ShiftedShifts DEF Fits
  <1>2. Len(key) = W /\ \A i \in 1 .. W : key[i] = s[W - i] % B
    BY <1>1, KeyBytes
  <1> HIDE DEF s, key
  <1> DEFINE Equation(n) == n = [i \in 0 .. W |-> IF i = 0 THEN 0 ELSE n[i - 1] * B + key[i]]
             rest == [i \in 0 .. W |-> s[W - i]]
  <1>3. \A i \in 1 .. W : rest[i] = rest[i - 1] * B + key[i]
    <2> TAKE i \in 1 .. W
    <2>1. W - i \in 0 .. W /\ W - (i - 1) \in 1 .. W /\ i - 1 \in 0 .. W
      OBVIOUS
    <2>2. s[W - i] \in Nat /\ s[W - (i - 1)] = s[W - i] \div B
      <3>1. (W - (i - 1)) - 1 = W - i
        OBVIOUS
      <3> QED
        BY <1>1, <2>1, <3>1 DEF Shifts
    <2>3. \A x, y, z \in Nat : x \div B = y /\ x % B = z => x = y * B + z
      BY Digits
    <2>4. PICK x, y, z : x = s[W - i] /\ y = s[W - (i - 1)] /\ z = key[i]
      OBVIOUS
    <2>5. rest[i] = x /\ rest[i - 1] = y
      BY <2>1, <2>4
    <2>6. x \in Nat /\ x \div B = y /\ x % B = z
      BY <1>2, <2>2, <2>4
    <2>7. y \in Nat /\ z \in Nat
      BY <2>6
    <2>8. x = y * B + z
      BY <2>3, <2>6, <2>7
    <2> HIDE DEF rest
    <2> QED
      BY <2>4, <2>5, <2>8
  <1>4. Equation(rest)
    <2>1. rest[0] = 0
      BY <1>1
    <2>2. rest = [i \in 0 .. W |-> rest[i]]
      OBVIOUS
    <2> HIDE DEF rest
    <2>3. \A i \in 0 .. W : rest[i] = IF i = 0 THEN 0 ELSE rest[i - 1] * B + key[i]
      BY <1>3, <2>1
    <2> QED
      BY <2>2, <2>3
  <1> DEFINE num == CHOOSE n : Equation(n)
  <1>5. convertType(key, B) = num[W]
    BY <1>2 DEF convertType
  <1>6. Equation(num)
    BY <1>4
  <1> DEFINE F == [i \in 0 .. W |-> IF i = 0 THEN 0 ELSE num[i - 1] * B + key[i]]
  <1>7. num[0] = 0 /\ \A i \in 1 .. W : num[i] = num[i - 1] * B + key[i]
    <2>1. \A i \in 0 .. W : F[i] = IF i = 0 THEN 0 ELSE num[i - 1] * B + key[i]
      OBVIOUS
    <2>2. num = F
      BY <1>6
    <2> HIDE DEF F, num
    <2> QED
      BY <2>1, <2>2
  <1> HIDE DEF num, rest
  <1>8. \A i \in 0 .. W : num[i] = rest[i]
    <2> DEFINE Bad == {i \in 0 .. W : num[i] # rest[i]}
    <2>1. SUFFICES ASSUME Bad # {} PROVE FALSE
      OBVIOUS
    <2>2. PICK i \in Bad : \A j \in Bad : i <= j
      <3>1. Bad \subseteq Nat
        OBVIOUS
      <3> QED
        BY <2>1, <3>1, LeastNat
    <2>3. i # 0
      BY <1>1, <1>7, <2>2 DEF rest
    <2>4. i \in 1 .. W /\ i - 1 \in 0 .. W /\ i - 1 \notin Bad
      BY <2>2, <2>3
    <2>5. num[i] = rest[i]
      BY <1>3, <1>7, <2>4
    <2> QED
      BY <2>2, <2>5
  <1>9. num[W] = k
    <2>1. rest[W] = s[0]
      BY DEF rest
    <2> QED
      BY <1>1, <1>8, <2>1 DEF Shifts
  <1> QED
    BY <1>5, <1>9 DEF key

(* The keys of the store keep order, for the bases and widths of the run. *)
LEMMA KeysKeepTheirOrder == KeysKeepOrder
  <1> SUFFICES ASSUME NEW base \in 2 .. 4, NEW width \in 1 .. 3,
                      NEW k, NEW l, Fits(k, base, width), Fits(l, base, width)
               PROVE  LET key(n) == getKeyByteForKeyConstraint(n, base, width)
                      IN  /\ convertType(key(k), base) = k
                          /\ k < l => KeyBefore(key(k), key(l))
    BY DEF KeysKeepOrder
  <1>1. base \in Nat \ {0} /\ width \in Nat
    OBVIOUS
  <1> QED
    BY <1>1, KeysAreOrdered, KeysAreReadBack

-------------------------------------------------------------------------------
(****************************************************************************)
(* The signing service, once started, signs with the key of its file for    *)
(* the chain named, and nothing else (signingService/chain, serve.go).      *)
(****************************************************************************)
(* The keys of a service that starts are the wallets of its key file.      *)
LEMMA KeysAreWallets ==
    ASSUME NEW keyFile \in KeyFiles, setUp("cred", ServiceChains, keyFile) # Failed
    PROVE  LET service == setUp("cred", ServiceChains, keyFile)
           IN  /\ service.cred = "cred" /\ service.chains = ServiceChains
               /\ DOMAIN service.keys = DOMAIN keyFile
               /\ \A name \in DOMAIN keyFile : service.keys[name] = keyFile[name].wallet_address
  <1> DEFINE keys == [name \in DOMAIN keyFile |-> keyFile[name].derived]
  <1>1. setUp("cred", ServiceChains, keyFile) = [cred |-> "cred", chains |-> ServiceChains, keys |-> keys]
    BY DEF setUp
  <1>2. \A name \in DOMAIN keyFile : validateKey(keyFile[name])
    BY DEF setUp
  <1>3. \A name \in DOMAIN keyFile : keys[name] = keyFile[name].wallet_address
    BY <1>2 DEF validateKey
  <1> HIDE DEF keys
  <1>4. DOMAIN keys = DOMAIN keyFile
    BY DEF keys
  <1> QED
    BY <1>1, <1>3, <1>4

(* The signature of a signer with its key, and none without it. *)
LEMMA AnswersWithKey ==
    ASSUME NEW service, NEW cred, service.cred = cred, NEW p, NEW name \in {"aleo", "ethereum"},
           p.dstChain \in DOMAIN service.chains, service.chains[p.dstChain] = name,
           name = "aleo" => p.amount \in U128
    PROVE  SignedAs(service, cred, p) =
             IF name \in DOMAIN service.keys THEN {service.keys[name]} ELSE {}
  <1> DEFINE sp      == [packet |-> p, isWhite |-> TRUE]
             request == [cred |-> cred, method |-> "POST", body |-> sp]
             digest  == IF name = "aleo" THEN hashAleo(p, TRUE) ELSE hashEthereum(p, TRUE)
             signed  == [hash |-> digest,
                         signature |-> [signer |-> service.keys[name], digest |-> digest]]
             answer  == HashAndSign(service, sp)
  <1>1. sp # Unreadable /\ sp # NoPacket /\ sp.packet = p /\ sp.isWhite = TRUE
    BY DEF Unreadable, NoPacket
  <1>2. signStatus(service, request) = IF "panic" \in DOMAIN answer THEN 0
                                       ELSE IF "error" \in DOMAIN answer THEN 400 ELSE 200
    BY DEF signStatus
  <1>3. name = "aleo" => digest # Failed
    BY DEF hashAleo, BHP, Failed
  <1>4. CASE name \in DOMAIN service.keys
    <2>1. answer = signed
      <3>1. CASE name = "ethereum"
        BY <1>1, <1>4, <3>1 DEF HashAndSign, signEthereum
      <3>2. CASE name = "aleo"
        BY <1>1, <1>3, <1>4, <3>2 DEF HashAndSign, signAleo
      <3> QED
        BY <3>1, <3>2
    <2> HIDE DEF answer, digest, sp
    <2>2. "panic" \notin DOMAIN answer /\ "error" \notin DOMAIN answer /\ answer # Failed
      BY <2>1 DEF Failed
    <2>3. HashAndSignScreenedPacket(service, cred, sp) = answer
      BY <1>2, <2>2 DEF HashAndSignScreenedPacket, answer
    <2> QED
      BY <1>4, <2>1, <2>2, <2>3 DEF SignedAs, sp
  <1>5. CASE name \notin DOMAIN service.keys
    <2>1. "panic" \in DOMAIN answer \/ "error" \in DOMAIN answer
      <3>1. CASE name = "ethereum"
        <4>1. answer = [panic |-> TRUE]
          BY <1>1, <1>5, <3>1 DEF HashAndSign, signEthereum
        <4> QED
          BY <4>1
      <3>2. CASE name = "aleo"
        <4>1. answer = [error |-> "signing failed"]
          BY <1>1, <1>3, <1>5, <3>2 DEF HashAndSign, signAleo
        <4> QED
          BY <4>1
      <3> QED
        BY <3>1, <3>2
    <2> HIDE DEF answer, digest, sp
    <2>2. signStatus(service, request) # 200
      BY <1>2, <2>1
    <2>3. HashAndSignScreenedPacket(service, cred, sp) = Failed
      BY <2>2 DEF HashAndSignScreenedPacket
    <2> QED
      BY <1>5, <2>3 DEF SignedAs, sp
  <1> QED
    BY <1>4, <1>5

(* A packet whose amount the hasher refuses is not signed. *)
LEMMA RefusesAmount ==
    ASSUME NEW service, NEW cred, service.cred = cred, NEW p,
           p.dstChain \in DOMAIN service.chains, service.chains[p.dstChain] = "aleo",
           p.amount \notin U128
    PROVE  SignedAs(service, cred, p) = {}
  <1> DEFINE sp      == [packet |-> p, isWhite |-> TRUE]
             request == [cred |-> cred, method |-> "POST", body |-> sp]
             answer  == HashAndSign(service, sp)
  <1>1. sp # Unreadable /\ sp # NoPacket /\ sp.packet = p
    BY DEF Unreadable, NoPacket
  <1>2. signStatus(service, request) = IF "panic" \in DOMAIN answer THEN 0
                                       ELSE IF "error" \in DOMAIN answer THEN 400 ELSE 200
    BY DEF signStatus
  <1>3. answer = [error |-> "hashing failed"]
    BY <1>1 DEF HashAndSign, hashAleo
  <1> HIDE DEF answer, sp
  <1>4. signStatus(service, request) # 200
    <2>1. "error" \in DOMAIN answer
      BY <1>3
    <2> QED
      BY <1>2, <2>1
  <1>5. HashAndSignScreenedPacket(service, cred, sp) = Failed
    BY <1>4 DEF HashAndSignScreenedPacket
  <1> QED
    BY <1>5 DEF SignedAs, sp

(* With other credentials nothing is signed. *)
LEMMA RefusesStranger ==
    ASSUME NEW service, NEW cred, service.cred # cred, NEW p
    PROVE  SignedAs(service, cred, p) = {}
  <1> DEFINE sp == [packet |-> p, isWhite |-> TRUE]
  <1>1. signStatus(service, [cred |-> cred, method |-> "POST", body |-> sp]) = 403
    BY DEF signStatus
  <1>2. HashAndSignScreenedPacket(service, cred, sp) = Failed
    BY <1>1 DEF HashAndSignScreenedPacket
  <1> QED
    BY <1>2 DEF SignedAs

(* Any service that has started answers the dial. *)
LEMMA DialIsAnswered ==
    ASSUME NEW service, NEW cred
    PROVE  dial(service, cred)
  <1> DEFINE request == [cred |-> cred, method |-> "POST", body |-> Unreadable]
             answer  == HashAndSign(service, Unreadable)
  <1>1. "error" \in DOMAIN answer /\ "panic" \notin DOMAIN answer
    <2>1. answer = [error |-> "bad body"]
      BY DEF HashAndSign
    <2> QED
      BY <2>1
  <1>2. signStatus(service, request) = IF cred # service.cred THEN 403
                                       ELSE IF "panic" \in DOMAIN answer THEN 0
                                       ELSE IF "error" \in DOMAIN answer THEN 400 ELSE 200
    BY DEF signStatus
  <1> HIDE DEF answer
  <1>3. signStatus(service, request) = 403 \/ signStatus(service, request) = 400
    BY <1>1, <1>2
  <1> HIDE DEF request
  <1>4. dial(service, cred) <=> (signStatus(service, request) >= 400 /\ signStatus(service, request) <= 499)
    BY DEF dial, request
  <1> QED
    BY <1>3, <1>4

(* A dialed service signs what it has keys for, and refuses the rest. *)
LEMMA ServiceSigns == DialedServiceSigns
  <1> DEFINE SignsRight(service, keyFile, cred) ==
               LET signed(name) == IF cred = service.cred /\ name \in DOMAIN keyFile
                                   THEN {keyFile[name].wallet_address} ELSE {}
               IN  /\ \A p \in ToEthereum : SignedAs(service, cred, p) = signed("ethereum")
                   /\ \A p \in ToAleo : SignedAs(service, cred, p) =
                        IF p.amount \in U128 THEN signed("aleo") ELSE {}
  <1>1. ASSUME NEW keyFile \in KeyFiles, setUp("cred", ServiceChains, keyFile) # Failed, NEW cred
        PROVE  SignsRight(setUp("cred", ServiceChains, keyFile), keyFile, cred)
    <2> DEFINE service == setUp("cred", ServiceChains, keyFile)
    <2>1. /\ service.cred = "cred" /\ service.chains = ServiceChains
          /\ DOMAIN service.keys = DOMAIN keyFile
          /\ \A name \in DOMAIN keyFile : service.keys[name] = keyFile[name].wallet_address
      BY <1>1, KeysAreWallets
    <2> HIDE DEF service
    <2>2. \A p \in ToEthereum : p.dstChain \in DOMAIN ServiceChains /\ ServiceChains[p.dstChain] = "ethereum"
      BY SigningAssumption
    <2>3. \A p \in ToAleo : p.dstChain \in DOMAIN ServiceChains /\ ServiceChains[p.dstChain] = "aleo"
      BY SigningAssumption
    <2>4. CASE cred = service.cred
      <3>1. ASSUME NEW p \in ToEthereum
            PROVE  SignedAs(service, cred, p) = IF "ethereum" \in DOMAIN keyFile
                                                THEN {keyFile["ethereum"].wallet_address} ELSE {}
        <4>1. SignedAs(service, cred, p) =
                IF "ethereum" \in DOMAIN service.keys THEN {service.keys["ethereum"]} ELSE {}
          BY <2>1, <2>2, <2>4, AnswersWithKey
        <4> QED
          BY <2>1, <4>1
      <3>2. ASSUME NEW p \in ToAleo
            PROVE  SignedAs(service, cred, p) = IF p.amount \in U128
                                                THEN IF "aleo" \in DOMAIN keyFile
                                                     THEN {keyFile["aleo"].wallet_address} ELSE {}
                                                ELSE {}
        <4>1. CASE p.amount \in U128
          <5>1. SignedAs(service, cred, p) =
                  IF "aleo" \in DOMAIN service.keys THEN {service.keys["aleo"]} ELSE {}
            BY <2>1, <2>3, <2>4, <4>1, AnswersWithKey
          <5> QED
            BY <2>1, <4>1, <5>1
        <4>2. CASE p.amount \notin U128
          BY <2>1, <2>3, <2>4, <4>2, RefusesAmount
        <4> QED
          BY <4>1, <4>2
      <3> QED
        BY <2>4, <3>1, <3>2 DEF service
    <2>5. CASE cred # service.cred
      <3>1. \A p : SignedAs(service, cred, p) = {}
        BY <2>5, RefusesStranger
      <3> QED
        BY <2>5, <3>1 DEF service
    <2> QED
      BY <2>4, <2>5
  <1>2. \A keyFile, cred : dial(setUp("cred", ServiceChains, keyFile), cred)
    BY DialIsAnswered
  <1> QED
    BY <1>1, <1>2 DEF DialedServiceSigns

-------------------------------------------------------------------------------
(****************************************************************************)
(* What the attestor reads of its configuration: which feeds have their     *)
(* namespaces, and that all wait at least for finality                      *)
(* (chainService/config).                                                   *)
(****************************************************************************)
LEMMA MaxOfTwo ==
    ASSUME NEW a \in Int, NEW b \in Int
    PROVE  Max({a, b}) >= b
  <1> DEFINE m == IF a >= b THEN a ELSE b
  <1>1. m \in {a, b} /\ \A y \in {a, b} : m >= y
    OBVIOUS
  <1>2. \A x \in {a, b} : (\A y \in {a, b} : x >= y) => x = m
    OBVIOUS
  <1> HIDE DEF m
  <1>3. Max({a, b}) = m
    BY <1>1, <1>2 DEF Max
  <1> QED
    BY <1>1, <1>3

(* A set of indices that is not empty contains its maximum. *)
LEMMA MaxOfIndices ==
    ASSUME NEW n \in Nat, NEW S \in SUBSET (1 .. n), S # {}
    PROVE  Max(S) \in S
  <1> DEFINE T == {n - i : i \in S}
  <1>1. T \subseteq Nat /\ T # {}
    <2>1. \A i \in S : n - i \in Nat
      OBVIOUS
    <2>2. \E i \in S : n - i \in T
      OBVIOUS
    <2> QED
      BY <2>1, <2>2
  <1>2. PICK m \in T : \A k \in T : m <= k
    <2> HIDE DEF T
    <2> QED
      BY <1>1, LeastNat
  <1>3. PICK i \in S : m = n - i
    OBVIOUS
  <1>4. \A j \in S : i >= j
    BY <1>2, <1>3
  <1> QED
    BY <1>4 DEF Max

(* A chain named as a destination is one of the configured chains. *)
LEMMA NamesHaveIds ==
    ASSUME NEW n \in Nat, NEW chains, DOMAIN chains = 1 .. n
    PROVE  LET id == chainNameToChainID(chains)
           IN  \A name \in DOMAIN id : id[name] \in {chains[j].chain_id : j \in 1 .. n}
  <1> DEFINE id == chainNameToChainID(chains)
  <1> SUFFICES ASSUME NEW name \in DOMAIN id PROVE id[name] \in {chains[j].chain_id : j \in 1 .. n}
    OBVIOUS
  <1> DEFINE S == {i \in 1 .. n : chains[i].name = name}
  <1>1. PICK i \in 1 .. n : name = chains[i].name
    BY DEF chainNameToChainID
  <1>2. S \in SUBSET (1 .. n) /\ S # {}
    BY <1>1
  <1>3. id[name] = chains[Max(S)].chain_id
    BY DEF chainNameToChainID
  <1> HIDE DEF S, id
  <1>4. Max(S) \in 1 .. n
    BY <1>2, MaxOfIndices
  <1> QED
    BY <1>3, <1>4

(* A feeder waits at least for the finality of its chain (waitHeight). *)
LEMMA WaitsForFinality ==
    ASSUME NEW chain, chain.name \in {"aleo", "ethereum"}, chain.finality_height \in Nat,
           chain.pkt_validity_wait_dur \in Nat, chain.average_block_gen_dur \in Nat
    PROVE  waitHeight(chain) >= chain.finality_height
  <1> DEFINE default  == DefaultTimes[chain.name]
             validity == OrDefault(chain.pkt_validity_wait_dur, default.validity)
             block    == IF chain.name = "aleo" THEN OrDefault(chain.average_block_gen_dur, default.block)
                         ELSE default.block
             deep     == validity \div block
  <1>1. default.validity \in Nat /\ default.block \in Nat \ {0}
    BY ConfigAssumption
  <1>2. validity \in Nat
    BY <1>1 DEF OrDefault
  <1>3. block \in Nat \ {0}
    BY <1>1 DEF OrDefault
  <1>4. waitHeight(chain) = Max({deep, chain.finality_height})
    BY DEF waitHeight
  <1> HIDE DEF validity, block
  <1>5. deep \in Int /\ chain.finality_height \in Int
    BY <1>2, <1>3
  <1> HIDE DEF deep
  <1> QED
    BY <1>4, <1>5, MaxOfTwo

(* A chain of an accepted configuration. *)
LEMMA CheckedChain ==
    ASSUME NEW file \in Files, validateChainConfig(file.chains) # Invalid, NEW i \in DOMAIN file.chains
    PROVE  LET checked == validateChainConfig(file.chains).chains
               chain   == checked[i]
               ids     == {checked[j].chain_id : j \in DOMAIN checked}
           IN  /\ DOMAIN checked = DOMAIN file.chains
               /\ chain.dest_chains \subseteq ids /\ DOMAIN chain.start_seq \subseteq ids
               /\ chain.finality_height \in Nat
               /\ chain.pkt_validity_wait_dur \in Nat /\ chain.average_block_gen_dur \in Nat
  <1> DEFINE chains == file.chains
             id     == chainNameToChainID(chains)
             Numbers(c) == [d \in {id[name] : name \in DOMAIN c.start_seq} |->
                              c.start_seq[CHOOSE name \in DOMAIN c.start_seq : id[name] = d]]
             Checked(c) == [c EXCEPT !.dest_chains = {id[name] : name \in c.dest_chains},
                                     !.start_seq = Numbers(c)]
             checked == validateChainConfig(chains).chains
  <1>1. /\ \A j \in DOMAIN chains : chains[j].dest_chains \cup DOMAIN chains[j].start_seq \subseteq DOMAIN id
        /\ checked = [j \in DOMAIN chains |-> Checked(chains[j])]
    BY DEF validateChainConfig
  <1>2. Len(chains) \in Nat /\ DOMAIN chains = 1 .. Len(chains)
    BY ConfigAssumption
  <1>3. \A name \in DOMAIN id : id[name] \in {chains[j].chain_id : j \in DOMAIN chains}
    BY <1>2, NamesHaveIds
  <1> HIDE DEF id
  <1>4. ASSUME NEW j \in DOMAIN chains
        PROVE  LET c == chains[j] d == checked[j]
               IN /\ d.name = c.name /\ d.chain_id = c.chain_id /\ d.node_url = c.node_url
                  /\ d.finality_height = c.finality_height
                  /\ d.pkt_validity_wait_dur = c.pkt_validity_wait_dur
                  /\ d.average_block_gen_dur = c.average_block_gen_dur
                  /\ d.dest_chains = {id[name] : name \in c.dest_chains}
                  /\ d.start_seq = Numbers(c)
    <2> DEFINE c == chains[j]
    <2>1. c = [f \in DOMAIN c |-> c[f]] /\ ChainFields \subseteq DOMAIN c
      BY ConfigAssumption
    <2>2. checked[j] = Checked(c)
      BY <1>1
    <2> HIDE DEF c, checked
    <2> QED
      BY <2>1, <2>2 DEF ChainFields, c
  <1>5. DOMAIN checked = DOMAIN chains
    BY <1>1
  <1> HIDE DEF checked
  <1>6. {checked[j].chain_id : j \in DOMAIN checked} = {chains[j].chain_id : j \in DOMAIN chains}
    <2>1. \A j \in DOMAIN chains : checked[j].chain_id = chains[j].chain_id
      BY <1>4
    <2> HIDE DEF chains
    <2> QED
      BY <1>5, <2>1
  <1>7. chains[i].dest_chains \cup DOMAIN chains[i].start_seq \subseteq DOMAIN id
    BY <1>1
  <1>8. DOMAIN Numbers(chains[i]) = {id[name] : name \in DOMAIN chains[i].start_seq}
    OBVIOUS
  <1>9. /\ checked[i].dest_chains \subseteq {chains[j].chain_id : j \in DOMAIN chains}
        /\ DOMAIN checked[i].start_seq \subseteq {chains[j].chain_id : j \in DOMAIN chains}
    <2> HIDE DEF Numbers
    <2> QED
    BY <1>3, <1>4, <1>7, <1>8
  <1>10. LET c == chains[i]
         IN  /\ c.finality_height \in Nat
             /\ c.pkt_validity_wait_dur \in Nat /\ c.average_block_gen_dur \in Nat
    BY ConfigAssumption
  <1> HIDE DEF chains
  <1> QED
    BY <1>4, <1>5, <1>6, <1>9, <1>10 DEF checked, chains

(* Every accepted configuration gives every destination's feed its buckets. *)
LEMMA Namespaces == FeedsHaveNamespaces
  <1> SUFFICES ASSUME NEW file \in Files, NEW flags \in Flags, InitConfig(file, flags) # Invalid
               PROVE  LET config == InitConfig(file, flags)
                      IN  /\ config.dbPath # config.logPath
                          /\ \A i \in DOMAIN config.chains :
                               LET chain == config.chains[i]
                                   client == NewClient(chain)
                               IN  client # Invalid =>
                                   /\ WithoutNamespaces(client) =
                                        IF chain.name = "aleo" THEN DOMAIN chain.start_seq \ chain.dest_chains ELSE {}
                                   /\ client.dests \subseteq
                                        {config.chains[j].chain_id : j \in DOMAIN config.chains}
                                   /\ client.waitHeight >= chain.finality_height
    BY DEF FeedsHaveNamespaces
  <1> DEFINE config  == InitConfig(file, flags)
             checked == validateChainConfig(file.chains)
             dbPath  == getPath(flags.db_dir, file.db_dir, "verulinkBolt.db")
             logPath == getPath(flags.log_dir, file.log.output_dir, "verulink.log")
  <1>1. /\ checked # Invalid /\ dbPath # <<>> /\ logPath # <<>>
        /\ config.chains = checked.chains /\ config.dbPath = dbPath /\ config.logPath = logPath
    BY DEF InitConfig
  <1>2. dbPath # logPath
    <2>1. dbPath[2] = "verulinkBolt.db"
      BY <1>1 DEF getPath
    <2>2. logPath[2] = "verulink.log"
      BY <1>1 DEF getPath
    <2> HIDE DEF dbPath, logPath
    <2>3. "verulinkBolt.db" # "verulink.log"
      OBVIOUS
    <2> QED
      BY <2>1, <2>2, <2>3
  <1> HIDE DEF config, dbPath, logPath
  <1>3. ASSUME NEW i \in DOMAIN config.chains
        PROVE  LET chain == config.chains[i]
                   client == NewClient(chain)
               IN  client # Invalid =>
                   /\ WithoutNamespaces(client) =
                        IF chain.name = "aleo" THEN DOMAIN chain.start_seq \ chain.dest_chains ELSE {}
                   /\ client.dests \subseteq
                        {config.chains[j].chain_id : j \in DOMAIN config.chains}
                   /\ client.waitHeight >= chain.finality_height
    <2> DEFINE chain  == config.chains[i]
               client == NewClient(chain)
               ids    == {config.chains[j].chain_id : j \in DOMAIN config.chains}
    <2>1. i \in DOMAIN file.chains
      BY <1>1 DEF validateChainConfig
    <2> SUFFICES ASSUME client # Invalid
                 PROVE  /\ WithoutNamespaces(client) =
                             IF chain.name = "aleo" THEN DOMAIN chain.start_seq \ chain.dest_chains
                             ELSE {}
                        /\ client.dests \subseteq ids
                        /\ client.waitHeight >= chain.finality_height
      OBVIOUS
    <2>2. /\ chain.dest_chains \subseteq ids /\ DOMAIN chain.start_seq \subseteq ids
          /\ chain.finality_height \in Nat
          /\ chain.pkt_validity_wait_dur \in Nat /\ chain.average_block_gen_dur \in Nat
      <3> HIDE DEF checked
      <3>1. LET new == checked.chains
                c   == new[i]
                new_ids == {new[j].chain_id : j \in DOMAIN new}
            IN  /\ c.dest_chains \subseteq new_ids /\ DOMAIN c.start_seq \subseteq new_ids
                /\ c.finality_height \in Nat
                /\ c.pkt_validity_wait_dur \in Nat /\ c.average_block_gen_dur \in Nat
        BY <1>1, <2>1, CheckedChain DEF checked
      <3> QED
        BY <1>1, <3>1
    <2> HIDE DEF chain, ids
    <2>3. /\ chain.name \in {"aleo", "ethereum"} /\ client.dests = DOMAIN FirstSequences(chain)
          /\ client.namespaces = CreatedNamespaces(chain)
          /\ client.waitHeight = waitHeight(chain)
      BY DEF NewClient
    <2>4. DOMAIN FirstSequences(chain) =
            chain.dest_chains \cup IF chain.name = "aleo" THEN DOMAIN chain.start_seq ELSE {}
      BY DEF FirstSequences
    <2> HIDE DEF client
    <2>5. client.dests \subseteq ids
      BY <2>2, <2>3, <2>4
    <2>6. WithoutNamespaces(client) =
            IF chain.name = "aleo" THEN DOMAIN chain.start_seq \ chain.dest_chains ELSE {}
      <3>1. \A d : {"rpns", "bsns"} \X {d} \subseteq client.namespaces <=> d \in chain.dest_chains
        <4>1. client.namespaces = {"rpns", "bsns"} \X chain.dest_chains
          BY <2>3 DEF CreatedNamespaces
        <4>2. ASSUME NEW d, {"rpns", "bsns"} \X {d} \subseteq client.namespaces
              PROVE  d \in chain.dest_chains
          <5>1. <<"rpns", d>> \in {"rpns", "bsns"} \X {d}
            OBVIOUS
          <5> QED
            BY <4>1, <4>2, <5>1
        <4>3. ASSUME NEW d \in chain.dest_chains
              PROVE  {"rpns", "bsns"} \X {d} \subseteq client.namespaces
          BY <4>1
        <4> QED
          BY <4>2, <4>3
      <3>2. WithoutNamespaces(client) = client.dests \ chain.dest_chains
        BY <3>1 DEF WithoutNamespaces
      <3> QED
        BY <2>3, <2>4, <3>2
    <2>7. client.waitHeight >= chain.finality_height
      BY <2>2, <2>3, WaitsForFinality
    <2> QED
      BY <2>3, <2>5, <2>6, <2>7 DEF chain, client, ids
  <1> QED
    BY <1>1, <1>2, <1>3 DEF config

-------------------------------------------------------------------------------
(****************************************************************************)
(* A packet laid out as text by the Aleo node is read back by the parser    *)
(* (aleo/utils.go); of a part of that text nothing is read, or the packet   *)
(* with the first digits of its height.                                     *)
(****************************************************************************)
(* A sequence, of whatever elements. *)
IsSequence(s) == Len(s) \in Nat /\ s = [i \in 1 .. Len(s) |-> s[i]]

(* A function on 1 .. n is a sequence of length n. *)
LEMMA SequenceOf ==
    ASSUME NEW s, NEW n \in Nat, s = [i \in 1 .. n |-> s[i]]
    PROVE  IsSequence(s) /\ Len(s) = n /\ DOMAIN s = 1 .. n
  <1>1. Len(s) = n
    <2>1. s \in [1 .. n -> {s[i] : i \in 1 .. n}]
      OBVIOUS
    <2>2. s \in Seq({s[i] : i \in 1 .. n})
      BY <2>1
    <2> QED
      BY <2>1, <2>2
  <1> QED
    BY <1>1 DEF IsSequence

(* What is where in a concatenation. *)
LEMMA Concatenation ==
    ASSUME NEW s, NEW t, IsSequence(s), IsSequence(t)
    PROVE  /\ IsSequence(s \o t) /\ Len(s \o t) = Len(s) + Len(t)
           /\ \A i \in 1 .. Len(s) : (s \o t)[i] = s[i]
           /\ \A i \in 1 .. Len(t) : (s \o t)[Len(s) + i] = t[i]
  <1> DEFINE A == {s[i] : i \in 1 .. Len(s)} B == {t[i] : i \in 1 .. Len(t)} S == A \cup B
  <1>1. s \in Seq(S) /\ t \in Seq(S)
    <2>1. s \in [1 .. Len(s) -> S] /\ t \in [1 .. Len(t) -> S]
      <3>1. \A i \in 1 .. Len(s) : s[i] \in S
        OBVIOUS
      <3>2. \A i \in 1 .. Len(t) : t[i] \in S
        OBVIOUS
      <3> HIDE DEF S
      <3> QED
        BY <3>1, <3>2 DEF IsSequence
    <2> HIDE DEF S
    <2> QED
      BY <2>1 DEF IsSequence
  <1> HIDE DEF S
  <1>2. /\ s \o t \in Seq(S) /\ Len(s \o t) = Len(s) + Len(t)
        /\ \A i \in 1 .. Len(s) + Len(t) : (s \o t)[i] = IF i <= Len(s) THEN s[i] ELSE t[i - Len(s)]
    BY <1>1, ConcatProperties
  <1> DEFINE u == s \o t
  <1>3. u \in Seq(S) /\ Len(u) = Len(s) + Len(t)
    BY <1>2
  <1>4. \A i \in 1 .. Len(s) + Len(t) : u[i] = IF i <= Len(s) THEN s[i] ELSE t[i - Len(s)]
    BY <1>2
  <1>5. Len(s) \in Nat /\ Len(t) \in Nat
    BY DEF IsSequence
  <1> HIDE DEF u
  <1>6. IsSequence(u)
    BY <1>3 DEF IsSequence
  <1>7. \A i \in 1 .. Len(s) : u[i] = s[i]
    BY <1>4, <1>5
  <1>8. \A i \in 1 .. Len(t) : u[Len(s) + i] = t[i]
    BY <1>4, <1>5
  <1> QED
    BY <1>3, <1>6, <1>7, <1>8 DEF u

(* What is where in a part of a sequence. *)
LEMMA Slice ==
    ASSUME NEW s, IsSequence(s), NEW m \in Nat, NEW n \in Nat, m + n <= Len(s)
    PROVE  LET t == SubSeq(s, m + 1, m + n)
           IN  IsSequence(t) /\ Len(t) = n /\ \A i \in 1 .. n : t[i] = s[m + i]
  <1> DEFINE S == {s[i] : i \in 1 .. Len(s)}
             t == SubSeq(s, m + 1, m + n)
  <1>1. s \in Seq(S) /\ Len(s) \in Nat
    BY DEF IsSequence
  <1>2. t = [i \in 1 .. n |-> s[m + i]]
    BY <1>1
  <1>3. Len(t) = n
    BY <1>1
  <1> HIDE DEF t
  <1> QED
    BY <1>2, <1>3 DEF IsSequence, t

(* What is where in the beginning of a sequence. *)
LEMMA Prefix ==
    ASSUME NEW s, IsSequence(s), NEW n \in Nat, n <= Len(s)
    PROVE  LET t == SubSeq(s, 1, n)
           IN  IsSequence(t) /\ Len(t) = n /\ \A i \in 1 .. n : t[i] = s[i]
  <1> DEFINE S == {s[i] : i \in 1 .. Len(s)}
             t == SubSeq(s, 1, n)
  <1>1. s \in Seq(S) /\ Len(s) \in Nat
    BY DEF IsSequence
  <1>2. t = [i \in 1 .. n |-> s[i]]
    BY <1>1
  <1>3. Len(t) = n
    BY <1>1
  <1> HIDE DEF t
  <1> QED
    BY <1>2, <1>3 DEF IsSequence, t

(* A sequence of one. *)
LEMMA Single ==
    ASSUME NEW x
    PROVE  IsSequence(<<x>>) /\ Len(<<x>>) = 1 /\ <<x>>[1] = x
  BY DEF IsSequence

(* A sequence of two. *)
LEMMA Two ==
    ASSUME NEW x, NEW y
    PROVE  IsSequence(<<x, y>>) /\ Len(<<x, y>>) = 2 /\ <<x, y>>[1] = x /\ <<x, y>>[2] = y
  BY DEF IsSequence

(* A sequence of three. *)
LEMMA Three ==
    ASSUME NEW x, NEW y, NEW z
    PROVE  LET s == <<x, y, z>>
           IN  IsSequence(s) /\ Len(s) = 3 /\ s[1] = x /\ s[2] = y /\ s[3] = z
  BY DEF IsSequence

(* A sequence of four. *)
LEMMA Four ==
    ASSUME NEW x, NEW y, NEW z, NEW v
    PROVE  LET s == <<x, y, z, v>>
           IN  IsSequence(s) /\ Len(s) = 4 /\ s[1] = x /\ s[2] = y /\ s[3] = z /\ s[4] = v
  BY DEF IsSequence

(* Where the parts of a concatenation begin. *)
LEMMA SixParts ==
    ASSUME NEW a, NEW b, NEW c, NEW d, NEW e, NEW f,
           IsSequence(a), IsSequence(b), IsSequence(c),
           IsSequence(d), IsSequence(e), IsSequence(f)
    PROVE  LET T == a \o b \o c \o d \o e \o f
           IN  /\ IsSequence(T)
               /\ Len(T) = Len(a) + Len(b) + Len(c) + Len(d) + Len(e) + Len(f)
               /\ \A i \in 1 .. Len(a) : T[i] = a[i]
               /\ \A i \in 1 .. Len(b) : T[Len(a) + i] = b[i]
               /\ \A i \in 1 .. Len(c) : T[Len(a) + Len(b) + i] = c[i]
               /\ \A i \in 1 .. Len(d) : T[Len(a) + Len(b) + Len(c) + i] = d[i]
               /\ \A i \in 1 .. Len(e) : T[Len(a) + Len(b) + Len(c) + Len(d) + i] = e[i]
               /\ \A i \in 1 .. Len(f) : T[Len(a) + Len(b) + Len(c) + Len(d) + Len(e) + i] = f[i]
  <1> DEFINE T2 == a \o b   T3 == T2 \o c   T4 == T3 \o d   T5 == T4 \o e   T6 == T5 \o f
  <1>0. /\ Len(a) \in Nat /\ Len(b) \in Nat /\ Len(c) \in Nat
        /\ Len(d) \in Nat /\ Len(e) \in Nat /\ Len(f) \in Nat
    BY DEF IsSequence
  <1>2. /\ IsSequence(T2) /\ Len(T2) = Len(a) + Len(b)
        /\ \A i \in 1 .. Len(a) : T2[i] = a[i]
        /\ \A i \in 1 .. Len(b) : T2[Len(a) + i] = b[i]
    BY Concatenation
  <1> HIDE DEF T2
  <1>3. /\ IsSequence(T3) /\ Len(T3) = Len(T2) + Len(c)
        /\ \A i \in 1 .. Len(T2) : T3[i] = T2[i]
        /\ \A i \in 1 .. Len(c) : T3[Len(T2) + i] = c[i]
    <2>1. IsSequence(T2)
      BY <1>2
    <2> QED
      BY <2>1, Concatenation
  <1> HIDE DEF T3
  <1>4. /\ IsSequence(T4) /\ Len(T4) = Len(T3) + Len(d)
        /\ \A i \in 1 .. Len(T3) : T4[i] = T3[i]
        /\ \A i \in 1 .. Len(d) : T4[Len(T3) + i] = d[i]
    <2>1. IsSequence(T3)
      BY <1>3
    <2> QED
      BY <2>1, Concatenation
  <1> HIDE DEF T4
  <1>5. /\ IsSequence(T5) /\ Len(T5) = Len(T4) + Len(e)
        /\ \A i \in 1 .. Len(T4) : T5[i] = T4[i]
        /\ \A i \in 1 .. Len(e) : T5[Len(T4) + i] = e[i]
    <2>1. IsSequence(T4)
      BY <1>4
    <2> QED
      BY <2>1, Concatenation
  <1> HIDE DEF T5
  <1>6. /\ IsSequence(T6) /\ Len(T6) = Len(T5) + Len(f)
        /\ \A i \in 1 .. Len(T5) : T6[i] = T5[i]
        /\ \A i \in 1 .. Len(f) : T6[Len(T5) + i] = f[i]
    <2>1. IsSequence(T5)
      BY <1>5
    <2> QED
      BY <2>1, Concatenation
  <1> HIDE DEF T6
  <1>7. /\ Len(T2) = Len(a) + Len(b)
        /\ Len(T3) = Len(a) + Len(b) + Len(c)
        /\ Len(T4) = Len(a) + Len(b) + Len(c) + Len(d)
        /\ Len(T5) = Len(a) + Len(b) + Len(c) + Len(d) + Len(e)
        /\ Len(T6) = Len(a) + Len(b) + Len(c) + Len(d) + Len(e) + Len(f)
    BY <1>0, <1>2, <1>3, <1>4, <1>5, <1>6
  <1>8. \A i \in 1 .. Len(T4) : T6[i] = T4[i]
    <2>1. \A i \in 1 .. Len(T4) : i \in 1 .. Len(T5)
      BY <1>0, <1>7
    <2> QED
      BY <1>5, <1>6, <2>1
  <1>9. \A i \in 1 .. Len(T3) : T6[i] = T3[i]
    <2>1. \A i \in 1 .. Len(T3) : i \in 1 .. Len(T4)
      BY <1>0, <1>7
    <2> QED
      BY <1>4, <1>8, <2>1
  <1>10. \A i \in 1 .. Len(T2) : T6[i] = T2[i]
    <2>1. \A i \in 1 .. Len(T2) : i \in 1 .. Len(T3)
      BY <1>0, <1>7
    <2> QED
      BY <1>3, <1>9, <2>1
  <1>11. \A i \in 1 .. Len(a) : T6[i] = a[i]
    <2>1. \A i \in 1 .. Len(a) : i \in 1 .. Len(T2)
      BY <1>0, <1>7
    <2> QED
      BY <1>2, <1>10, <2>1
  <1>12. \A i \in 1 .. Len(b) : T6[Len(a) + i] = b[i]
    <2>1. \A i \in 1 .. Len(b) : Len(a) + i \in 1 .. Len(T2)
      BY <1>0, <1>7
    <2> QED
      BY <1>2, <1>10, <2>1
  <1>13. \A i \in 1 .. Len(c) : T6[Len(T2) + i] = c[i]
    <2>1. \A i \in 1 .. Len(c) : Len(T2) + i \in 1 .. Len(T3)
      BY <1>0, <1>7
    <2> QED
      BY <1>3, <1>9, <2>1
  <1>14. \A i \in 1 .. Len(d) : T6[Len(T3) + i] = d[i]
    <2>1. \A i \in 1 .. Len(d) : Len(T3) + i \in 1 .. Len(T4)
      BY <1>0, <1>7
    <2> QED
      BY <1>4, <1>8, <2>1
  <1>15. \A i \in 1 .. Len(e) : T6[Len(T4) + i] = e[i]
    <2>1. \A i \in 1 .. Len(e) : Len(T4) + i \in 1 .. Len(T5)
      BY <1>0, <1>7
    <2> QED
      BY <1>5, <1>6, <2>1
  <1>16. \A i \in 1 .. Len(f) : T6[Len(T5) + i] = f[i]
    BY <1>6
  <1>17. IsSequence(T6)
    BY <1>6
  <1> QED
    BY <1>7, <1>11, <1>12, <1>13, <1>14, <1>15, <1>16, <1>17 DEF T2, T3, T4, T5, T6

(* An Ethereum address fills the last bytes of an array of an Aleo packet. *)
LEMMA PaddedAddress ==
    ASSUME NEW addr
    PROVE  /\ IsSequence(ArrayText(addr)) /\ Len(ArrayText(addr)) = AddrLen
           /\ \A i \in 1 .. AddrLen : "type" \in DOMAIN ArrayText(addr)[i] /\ ArrayText(addr)[i].type = "u8"
           /\ \A i \in 1 .. EthLen : ArrayText(addr)[AddrLen - EthLen + i].value = addr[i]
  <1>1. AddrLen \in Nat /\ EthLen \in Nat /\ AddrLen > EthLen
    BY TextAssumption
  <1> DEFINE s == ArrayText(addr)
             byte(i) == IF i <= AddrLen - EthLen THEN 0 ELSE addr[i - (AddrLen - EthLen)]
  <1>2. s = [i \in 1 .. AddrLen |-> Val(byte(i), "u8")]
    BY DEF ArrayText
  <1>3. \A i \in 1 .. AddrLen : s[i] = Val(byte(i), "u8")
    BY <1>2
  <1>4. s = [i \in 1 .. AddrLen |-> s[i]]
    BY <1>2
  <1>5. \A i \in 1 .. EthLen : byte(AddrLen - EthLen + i) = addr[i]
    BY <1>1
  <1> HIDE DEF byte, s
  <1>6. IsSequence(s) /\ Len(s) = AddrLen
    BY <1>1, <1>4, SequenceOf
  <1>7. \A i \in 1 .. AddrLen : s[i].value = byte(i) /\ s[i].type = "u8" /\ "type" \in DOMAIN s[i]
    <2>1. \A n : Val(n, "u8").value = n /\ Val(n, "u8").type = "u8" /\ "type" \in DOMAIN Val(n, "u8")
      BY DEF Val
    <2> QED
      BY <1>3, <2>1
  <1>8. \A i \in 1 .. EthLen : AddrLen - EthLen + i \in 1 .. AddrLen
    BY <1>1
  <1> QED
    BY <1>5, <1>6, <1>7, <1>8 DEF s

FromAleo(p) == IsPacket(p, {"dstAddr", "token", "receiver"}, {"srcAddr", "sender"})

(* The text of an OutPacket, token by token. *)
LaidOut(T, p, x) ==
    LET A == AddrLen
    IN  /\ IsSequence(T) /\ Len(T) = 3 * A + 22
        /\ T[1] = Name("version") /\ T[2] = Val(p.version, "u8")
        /\ T[3] = Name("sequence") /\ T[4] = Val(p.sequence, "u64")
        /\ T[5] = Name("source") /\ T[6] = Name("chain_id") /\ T[7] = Val(p.srcChain, "u128")
        /\ T[8] = Name("addr") /\ T[9] = p.srcAddr[1]
        /\ T[10] = Name("destination") /\ T[11] = Name("chain_id")
        /\ T[12] = Val(p.dstChain, "u128") /\ T[13] = Name("addr")
        /\ \A i \in 1 .. A : T[13 + i] = ArrayText(p.dstAddr)[i]
        /\ T[A + 14] = Name("message") /\ T[A + 15] = Name("sender_address")
        /\ T[A + 16] = p.sender[1] /\ T[A + 17] = Name("dest_token_address")
        /\ \A i \in 1 .. A : T[A + 17 + i] = ArrayText(p.token)[i]
        /\ T[2 * A + 18] = Name("amount") /\ T[2 * A + 19] = Val(p.amount, "u128")
        /\ T[2 * A + 20] = Name("receiver_address")
        /\ \A i \in 1 .. A : T[2 * A + 20 + i] = ArrayText(p.receiver)[i]
        /\ T[3 * A + 21] = Name("height") /\ T[3 * A + 22] = x
        /\ \A s : x # Name(s)

(* A sequence equal to its first element alone has length one. *)
LEMMA OneToken ==
    ASSUME NEW s, s = <<s[1]>>
    PROVE  IsSequence(s) /\ Len(s) = 1
  <1>1. \A x : IsSequence(<<x>>) /\ Len(<<x>>) = 1
    BY Single
  <1> QED
    BY <1>1

(* The tokens of the source. *)
LEMMA SourceText ==
    ASSUME NEW p, p.srcAddr = <<p.srcAddr[1]>>
    PROVE  LET s == FieldText(p, "source")
           IN  /\ IsSequence(s) /\ Len(s) = 5
               /\ s[1] = Name("source") /\ s[2] = Name("chain_id") /\ s[3] = Val(p.srcChain, "u128")
               /\ s[4] = Name("addr") /\ s[5] = p.srcAddr[1]
  <1> DEFINE head == <<Name("source"), Name("chain_id"), Val(p.srcChain, "u128"), Name("addr")>>
             s    == head \o p.srcAddr
  <1>1. FieldText(p, "source") = s
    BY DEF FieldText
  <1>2. /\ IsSequence(head) /\ Len(head) = 4 /\ head[1] = Name("source") /\ head[2] = Name("chain_id")
        /\ head[3] = Val(p.srcChain, "u128") /\ head[4] = Name("addr")
    BY Four
  <1> HIDE DEF head
  <1>3. IsSequence(p.srcAddr) /\ Len(p.srcAddr) = 1
    BY OneToken
  <1>4. /\ IsSequence(s) /\ Len(s) = 4 + 1
        /\ \A i \in 1 .. 4 : s[i] = head[i]
        /\ \A i \in 1 .. 1 : s[4 + i] = p.srcAddr[i]
    <2>1. /\ IsSequence(s) /\ Len(s) = Len(head) + Len(p.srcAddr)
          /\ \A i \in 1 .. Len(head) : s[i] = head[i]
          /\ \A i \in 1 .. Len(p.srcAddr) : s[Len(head) + i] = p.srcAddr[i]
      <3>1. IsSequence(head) /\ IsSequence(p.srcAddr)
        BY <1>2, <1>3
      <3> QED
        BY <3>1, Concatenation
    <2> HIDE DEF s
    <2> QED
      BY <1>2, <1>3, <2>1
  <1> HIDE DEF s
  <1>5. s[4 + 1] = p.srcAddr[1]
    BY <1>4
  <1> QED
    BY <1>1, <1>2, <1>4, <1>5

(* The tokens of the destination. *)
LEMMA DestinationText ==
    ASSUME NEW p
    PROVE  LET s == FieldText(p, "destination")
           IN  /\ IsSequence(s) /\ Len(s) = AddrLen + 4
               /\ s[1] = Name("destination") /\ s[2] = Name("chain_id")
               /\ s[3] = Val(p.dstChain, "u128") /\ s[4] = Name("addr")
               /\ \A i \in 1 .. AddrLen : s[4 + i] = ArrayText(p.dstAddr)[i]
  <1> DEFINE head == <<Name("destination"), Name("chain_id"), Val(p.dstChain, "u128"), Name("addr")>>
             s    == head \o ArrayText(p.dstAddr)
  <1>1. FieldText(p, "destination") = s
    BY DEF FieldText
  <1>2. /\ IsSequence(head) /\ Len(head) = 4 /\ head[1] = Name("destination")
        /\ head[2] = Name("chain_id") /\ head[3] = Val(p.dstChain, "u128") /\ head[4] = Name("addr")
    BY Four
  <1> HIDE DEF head
  <1>3. IsSequence(ArrayText(p.dstAddr)) /\ Len(ArrayText(p.dstAddr)) = AddrLen
    BY PaddedAddress
  <1>4. /\ IsSequence(s) /\ Len(s) = 4 + AddrLen
        /\ \A i \in 1 .. 4 : s[i] = head[i]
        /\ \A i \in 1 .. AddrLen : s[4 + i] = ArrayText(p.dstAddr)[i]
    <2>1. /\ IsSequence(s) /\ Len(s) = Len(head) + Len(ArrayText(p.dstAddr))
          /\ \A i \in 1 .. Len(head) : s[i] = head[i]
          /\ \A i \in 1 .. Len(ArrayText(p.dstAddr)) : s[Len(head) + i] = ArrayText(p.dstAddr)[i]
      <3>1. IsSequence(head) /\ IsSequence(ArrayText(p.dstAddr))
        BY <1>2, <1>3
      <3> QED
        BY <3>1, Concatenation
    <2> HIDE DEF s
    <2> QED
      BY <1>2, <1>3, <2>1
  <1> HIDE DEF s
  <1>5. AddrLen \in Nat
    BY TextAssumption
  <1> QED
    BY <1>1, <1>2, <1>4, <1>5

(* The tokens of the message. *)
LEMMA MessageText ==
    ASSUME NEW p, p.sender = <<p.sender[1]>>
    PROVE  LET s == FieldText(p, "message") A == AddrLen
           IN  /\ IsSequence(s) /\ Len(s) = 2 * A + 7
               /\ s[1] = Name("message") /\ s[2] = Name("sender_address") /\ s[3] = p.sender[1]
               /\ s[4] = Name("dest_token_address")
               /\ \A i \in 1 .. A : s[4 + i] = ArrayText(p.token)[i]
               /\ s[A + 5] = Name("amount") /\ s[A + 6] = Val(p.amount, "u128")
               /\ s[A + 7] = Name("receiver_address")
               /\ \A i \in 1 .. A : s[A + 7 + i] = ArrayText(p.receiver)[i]
  <1> DEFINE a == <<Name("message"), Name("sender_address")>>
             c == <<Name("dest_token_address")>>
             d == ArrayText(p.token)
             e == <<Name("amount"), Val(p.amount, "u128"), Name("receiver_address")>>
             f == ArrayText(p.receiver)
             s == a \o p.sender \o c \o d \o e \o f
             A == AddrLen
  <1>1. FieldText(p, "message") = s
    BY DEF FieldText
  <1>2. IsSequence(a) /\ Len(a) = 2 /\ a[1] = Name("message") /\ a[2] = Name("sender_address")
    BY Two
  <1>3. IsSequence(p.sender) /\ Len(p.sender) = 1
    BY OneToken
  <1>4. IsSequence(c) /\ Len(c) = 1 /\ c[1] = Name("dest_token_address")
    BY Single
  <1>5. IsSequence(d) /\ Len(d) = A /\ IsSequence(f) /\ Len(f) = A
    BY PaddedAddress
  <1>6. /\ IsSequence(e) /\ Len(e) = 3
        /\ e[1] = Name("amount") /\ e[2] = Val(p.amount, "u128") /\ e[3] = Name("receiver_address")
    BY Three
  <1> HIDE DEF a, c, d, e, f
  <1>7. A \in Nat
    BY TextAssumption
  <1>8. /\ IsSequence(s) /\ Len(s) = 2 + 1 + 1 + A + 3 + A
        /\ \A i \in 1 .. 2 : s[i] = a[i]
        /\ \A i \in 1 .. 1 : s[2 + i] = p.sender[i]
        /\ \A i \in 1 .. 1 : s[2 + 1 + i] = c[i]
        /\ \A i \in 1 .. A : s[2 + 1 + 1 + i] = d[i]
        /\ \A i \in 1 .. 3 : s[2 + 1 + 1 + A + i] = e[i]
        /\ \A i \in 1 .. A : s[2 + 1 + 1 + A + 3 + i] = f[i]
    <2> DEFINE b == p.sender
    <2>1. /\ IsSequence(a) /\ IsSequence(b) /\ IsSequence(c)
          /\ IsSequence(d) /\ IsSequence(e) /\ IsSequence(f)
      BY <1>2, <1>3, <1>4, <1>5, <1>6
    <2> HIDE DEF b
    <2> DEFINE T == a \o b \o c \o d \o e \o f
    <2>2. /\ IsSequence(T)
          /\ Len(T) = Len(a) + Len(b) + Len(c) + Len(d) + Len(e) + Len(f)
          /\ \A i \in 1 .. Len(a) : T[i] = a[i]
          /\ \A i \in 1 .. Len(b) : T[Len(a) + i] = b[i]
          /\ \A i \in 1 .. Len(c) : T[Len(a) + Len(b) + i] = c[i]
          /\ \A i \in 1 .. Len(d) : T[Len(a) + Len(b) + Len(c) + i] = d[i]
          /\ \A i \in 1 .. Len(e) : T[Len(a) + Len(b) + Len(c) + Len(d) + i] = e[i]
          /\ \A i \in 1 .. Len(f) : T[Len(a) + Len(b) + Len(c) + Len(d) + Len(e) + i] = f[i]
      BY <2>1, SixParts
    <2>3. s = T /\ b = p.sender
      BY DEF b
    <2>4. /\ Len(a) = 2 /\ Len(b) = 1 /\ Len(c) = 1 /\ Len(d) = A /\ Len(e) = 3 /\ Len(f) = A
      BY <1>2, <1>3, <1>4, <1>5, <1>6, <2>3
    <2> HIDE DEF a, c, d, e, f, T, s, A
    <2>5. IsSequence(s) /\ Len(s) = 2 + 1 + 1 + A + 3 + A
      BY <2>2, <2>3, <2>4
    <2>6. /\ \A i \in 1 .. 2 : s[i] = a[i]
          /\ \A i \in 1 .. 1 : s[2 + i] = b[i]
      BY <2>2, <2>3, <2>4, Zenon
    <2>7. /\ \A i \in 1 .. 1 : s[2 + 1 + i] = c[i]
          /\ \A i \in 1 .. A : s[2 + 1 + 1 + i] = d[i]
      BY <2>2, <2>3, <2>4, Zenon
    <2>8. /\ \A i \in 1 .. 3 : s[2 + 1 + 1 + A + i] = e[i]
          /\ \A i \in 1 .. A : s[2 + 1 + 1 + A + 3 + i] = f[i]
      BY <2>2, <2>3, <2>4, Zenon
    <2> QED
      BY <2>3, <2>5, <2>6, <2>7, <2>8, Zenon
  <1> HIDE DEF s
  <1>9. /\ s[1] = a[1] /\ s[2] = a[2] /\ s[3] = p.sender[1] /\ s[4] = c[1]
    <2>1. 1 \in 1 .. 2 /\ 2 \in 1 .. 2 /\ 1 \in 1 .. 1 /\ 2 + 1 = 3 /\ 2 + 1 + 1 = 4
      OBVIOUS
    <2> QED
      BY <1>8, <2>1
  <1>10. s[A + 5] = e[1] /\ s[A + 6] = e[2] /\ s[A + 7] = e[3]
    <2>1. /\ 1 \in 1 .. 3 /\ 2 \in 1 .. 3 /\ 3 \in 1 .. 3
          /\ 2 + 1 + 1 + A + 1 = A + 5 /\ 2 + 1 + 1 + A + 2 = A + 6 /\ 2 + 1 + 1 + A + 3 = A + 7
      BY <1>7
    <2> QED
      BY <1>8, <2>1
  <1>11. /\ \A i \in 1 .. A : s[4 + i] = d[i]
         /\ \A i \in 1 .. A : s[A + 7 + i] = f[i]
    <2>1. /\ \A i \in 1 .. A : 2 + 1 + 1 + i = 4 + i
          /\ \A i \in 1 .. A : 2 + 1 + 1 + A + 3 + i = A + 7 + i
      BY <1>7
    <2> QED
      BY <1>8, <2>1
  <1>12. IsSequence(s) /\ Len(s) = 2 * A + 7
    BY <1>7, <1>8
  <1> QED
    BY <1>1, <1>2, <1>4, <1>6, <1>9, <1>10, <1>11, <1>12 DEF d, f

(* No value is taken for a name, and no name for another. *)
LEMMA ValuesAreNoNames ==
    /\ \A n, t, s : Val(n, t) # Name(s)
    /\ \A x, s : "type" \in DOMAIN x => x # Name(s)
    /\ \A s, t : Name(s) = Name(t) => s = t
  BY DEF Val, Name

(* The text of a packet has each token at its place. *)
LEMMA TextOfPacket ==
    ASSUME NEW p, FromAleo(p)
    PROVE  LaidOut(PacketText(p), p, Val(p.height, "u64"))
  <1> DEFINE A == AddrLen
             a == FieldText(p, "version")
             b == FieldText(p, "sequence")
             c == FieldText(p, "source")
             d == FieldText(p, "destination")
             e == FieldText(p, "message")
             f == FieldText(p, "height")
             T == a \o b \o c \o d \o e \o f
  <1>1. p.srcAddr = <<p.srcAddr[1]>> /\ p.sender = <<p.sender[1]>>
    BY DEF FromAleo, IsPacket
  <1>2. A \in Nat
    BY TextAssumption
  <1>3. /\ IsSequence(a) /\ Len(a) = 2 /\ a[1] = Name("version") /\ a[2] = Val(p.version, "u8")
    <2>1. a = <<Name("version"), Val(p.version, "u8")>>
      BY DEF FieldText
    <2> QED
      BY <2>1, Two
  <1>4. /\ IsSequence(b) /\ Len(b) = 2 /\ b[1] = Name("sequence") /\ b[2] = Val(p.sequence, "u64")
    <2>1. b = <<Name("sequence"), Val(p.sequence, "u64")>>
      BY DEF FieldText
    <2> QED
      BY <2>1, Two
  <1>5. /\ IsSequence(c) /\ Len(c) = 5
        /\ c[1] = Name("source") /\ c[2] = Name("chain_id") /\ c[3] = Val(p.srcChain, "u128")
        /\ c[4] = Name("addr") /\ c[5] = p.srcAddr[1]
    BY <1>1, SourceText
  <1>6. /\ IsSequence(d) /\ Len(d) = A + 4
        /\ d[1] = Name("destination") /\ d[2] = Name("chain_id")
        /\ d[3] = Val(p.dstChain, "u128") /\ d[4] = Name("addr")
        /\ \A i \in 1 .. A : d[4 + i] = ArrayText(p.dstAddr)[i]
    BY DestinationText
  <1>7. /\ IsSequence(e) /\ Len(e) = 2 * A + 7
        /\ e[1] = Name("message") /\ e[2] = Name("sender_address") /\ e[3] = p.sender[1]
        /\ e[4] = Name("dest_token_address")
        /\ \A i \in 1 .. A : e[4 + i] = ArrayText(p.token)[i]
        /\ e[A + 5] = Name("amount") /\ e[A + 6] = Val(p.amount, "u128")
        /\ e[A + 7] = Name("receiver_address")
        /\ \A i \in 1 .. A : e[A + 7 + i] = ArrayText(p.receiver)[i]
    BY <1>1, MessageText
  <1>8. /\ IsSequence(f) /\ Len(f) = 2 /\ f[1] = Name("height") /\ f[2] = Val(p.height, "u64")
    <2>1. f = <<Name("height"), Val(p.height, "u64")>>
      BY DEF FieldText
    <2> QED
      BY <2>1, Two
  <1>9. PacketText(p) = T
    BY DEF PacketText
  <1> HIDE DEF a, b, c, d, e, f
  <1>10. /\ IsSequence(T)
         /\ Len(T) = Len(a) + Len(b) + Len(c) + Len(d) + Len(e) + Len(f)
         /\ \A i \in 1 .. Len(a) : T[i] = a[i]
         /\ \A i \in 1 .. Len(b) : T[Len(a) + i] = b[i]
         /\ \A i \in 1 .. Len(c) : T[Len(a) + Len(b) + i] = c[i]
         /\ \A i \in 1 .. Len(d) : T[Len(a) + Len(b) + Len(c) + i] = d[i]
         /\ \A i \in 1 .. Len(e) : T[Len(a) + Len(b) + Len(c) + Len(d) + i] = e[i]
         /\ \A i \in 1 .. Len(f) : T[Len(a) + Len(b) + Len(c) + Len(d) + Len(e) + i] = f[i]
    <2>1. /\ IsSequence(a) /\ IsSequence(b) /\ IsSequence(c)
          /\ IsSequence(d) /\ IsSequence(e) /\ IsSequence(f)
      BY <1>3, <1>4, <1>5, <1>6, <1>7, <1>8
    <2> QED
      BY <2>1, SixParts
  <1> HIDE DEF T
  <1>11. Len(T) = 3 * A + 22
    BY <1>2, <1>3, <1>4, <1>5, <1>6, <1>7, <1>8, <1>10
  <1>12. /\ \A i \in 1 .. 2 : T[i] = a[i]
         /\ \A i \in 1 .. 2 : T[2 + i] = b[i]
         /\ \A i \in 1 .. 5 : T[4 + i] = c[i]
    BY <1>3, <1>4, <1>5, <1>10
  <1>13. \A i \in 1 .. A + 4 : T[9 + i] = d[i]
    BY <1>2, <1>3, <1>4, <1>5, <1>6, <1>10
  <1>14. \A i \in 1 .. 2 * A + 7 : T[A + 13 + i] = e[i]
    <2>1. Len(a) + Len(b) + Len(c) + Len(d) = A + 13
      BY <1>2, <1>3, <1>4, <1>5, <1>6
    <2> QED
      BY <1>7, <1>10, <2>1
  <1>15. T[3 * A + 21] = f[1] /\ T[3 * A + 22] = f[2]
    <2>1. Len(a) + Len(b) + Len(c) + Len(d) + Len(e) = 3 * A + 20
      BY <1>2, <1>3, <1>4, <1>5, <1>6, <1>7
    <2>2. 3 * A + 20 + 1 = 3 * A + 21 /\ 3 * A + 20 + 2 = 3 * A + 22
      BY <1>2
    <2>3. \A i \in 1 .. 2 : T[3 * A + 20 + i] = f[i]
      BY <1>8, <1>10, <2>1
    <2> QED
      BY <2>2, <2>3
  <1>16. /\ T[1] = Name("version") /\ T[2] = Val(p.version, "u8")
         /\ T[3] = Name("sequence") /\ T[4] = Val(p.sequence, "u64")
         /\ T[5] = Name("source") /\ T[6] = Name("chain_id") /\ T[7] = Val(p.srcChain, "u128")
         /\ T[8] = Name("addr") /\ T[9] = p.srcAddr[1]
    <2>1. /\ T[1] = a[1] /\ T[2] = a[2] /\ T[2 + 1] = b[1] /\ T[2 + 2] = b[2]
          /\ T[4 + 1] = c[1] /\ T[4 + 2] = c[2] /\ T[4 + 3] = c[3] /\ T[4 + 4] = c[4] /\ T[4 + 5] = c[5]
      BY <1>12
    <2> QED
      BY <1>3, <1>4, <1>5, <2>1
  <1>17. /\ T[10] = Name("destination") /\ T[11] = Name("chain_id")
         /\ T[12] = Val(p.dstChain, "u128") /\ T[13] = Name("addr")
    <2>1. T[9 + 1] = d[1] /\ T[9 + 2] = d[2] /\ T[9 + 3] = d[3] /\ T[9 + 4] = d[4]
      BY <1>2, <1>13
    <2> QED
      BY <1>6, <2>1
  <1>18. \A i \in 1 .. A : T[13 + i] = ArrayText(p.dstAddr)[i]
    <2>1. \A i \in 1 .. A : 4 + i \in 1 .. A + 4 /\ 9 + (4 + i) = 13 + i
      BY <1>2
    <2> QED
      BY <1>6, <1>13, <2>1
  <1>19. /\ T[A + 14] = Name("message") /\ T[A + 15] = Name("sender_address")
         /\ T[A + 16] = p.sender[1] /\ T[A + 17] = Name("dest_token_address")
    <2>1. /\ 1 \in 1 .. 2 * A + 7 /\ A + 13 + 1 = A + 14
          /\ 2 \in 1 .. 2 * A + 7 /\ A + 13 + 2 = A + 15
          /\ 3 \in 1 .. 2 * A + 7 /\ A + 13 + 3 = A + 16
          /\ 4 \in 1 .. 2 * A + 7 /\ A + 13 + 4 = A + 17
      BY <1>2
    <2> QED
      BY <1>7, <1>14, <2>1
  <1>20. \A i \in 1 .. A : T[A + 17 + i] = ArrayText(p.token)[i]
    <2>1. \A i \in 1 .. A : 4 + i \in 1 .. 2 * A + 7 /\ A + 13 + (4 + i) = A + 17 + i
      BY <1>2
    <2> QED
      BY <1>7, <1>14, <2>1
  <1>21. /\ T[2 * A + 18] = Name("amount") /\ T[2 * A + 19] = Val(p.amount, "u128")
         /\ T[2 * A + 20] = Name("receiver_address")
    <2>1. /\ A + 5 \in 1 .. 2 * A + 7 /\ A + 13 + (A + 5) = 2 * A + 18
          /\ A + 6 \in 1 .. 2 * A + 7 /\ A + 13 + (A + 6) = 2 * A + 19
          /\ A + 7 \in 1 .. 2 * A + 7 /\ A + 13 + (A + 7) = 2 * A + 20
      BY <1>2
    <2> QED
      BY <1>7, <1>14, <2>1
  <1>22. \A i \in 1 .. A : T[2 * A + 20 + i] = ArrayText(p.receiver)[i]
    <2>1. \A i \in 1 .. A : A + 7 + i \in 1 .. 2 * A + 7 /\ A + 13 + (A + 7 + i) = 2 * A + 20 + i
      BY <1>2
    <2> QED
      BY <1>7, <1>14, <2>1
  <1> QED
    BY <1>8, <1>9, <1>10, <1>11, <1>15, <1>16, <1>17, <1>18, <1>19, <1>20, <1>21, <1>22,
       ValuesAreNoNames DEF LaidOut

(* The maximum with 0 of a set of one number is that number. *)
LEMMA MaxWithZero ==
    ASSUME NEW S, NEW k \in Nat, \A i \in S : i = k, k \in S
    PROVE  Max({0} \cup S) = k
  <1>1. k \in {0} \cup S /\ \A y \in {0} \cup S : k >= y
    OBVIOUS
  <1>2. \A x \in {0} \cup S : (\A y \in {0} \cup S : x >= y) => x = k
    OBVIOUS
  <1> QED
    BY <1>1, <1>2 DEF Max

(* Where the names stand in the text of a packet. *)
LEMMA NamesOfText ==
    ASSUME NEW p, FromAleo(p), NEW T, NEW x, LaidOut(T, p, x), NEW s, NEW i \in 1 .. 3 * AddrLen + 22,
           T[i] = Name(s)
    PROVE  /\ s = "version" => i = 1
           /\ s = "sequence" => i = 3
           /\ s = "source" => i = 5
           /\ s = "destination" => i = 10
           /\ s = "message" => i = AddrLen + 14
           /\ s = "height" => i = 3 * AddrLen + 21
           /\ s = "chain_id" => i \in {6, 11}
           /\ s = "addr" => i \in {8, 13}
           /\ s = "sender_address" => i = AddrLen + 15
           /\ s = "dest_token_address" => i = AddrLen + 17
           /\ s = "amount" => i = 2 * AddrLen + 18
           /\ s = "receiver_address" => i = 2 * AddrLen + 20
  <1> DEFINE A == AddrLen
  <1>1. A \in Nat
    BY TextAssumption
  <1>2. \/ i \in {2, 4, 7, 9, 12, A + 16, 2 * A + 19, 3 * A + 22}
        \/ i \in {1, 3, 5, 6, 8, 10, 11, 13}
        \/ i \in {A + 14, A + 15, A + 17, 2 * A + 18, 2 * A + 20, 3 * A + 21}
        \/ \E j \in 1 .. A : i = 13 + j
        \/ \E j \in 1 .. A : i = A + 17 + j
        \/ \E j \in 1 .. A : i = 2 * A + 20 + j
    <2>1. CASE i <= 13
      BY <1>1, <2>1
    <2>2. CASE 13 < i /\ i <= A + 13
      <3>1. i - 13 \in 1 .. A /\ i = 13 + (i - 13)
        BY <1>1, <2>2
      <3> QED
        BY <3>1
    <2>3. CASE A + 13 < i /\ i <= A + 17
      BY <1>1, <2>3
    <2>4. CASE A + 17 < i /\ i <= 2 * A + 17
      <3>1. i - (A + 17) \in 1 .. A /\ i = A + 17 + (i - (A + 17))
        BY <1>1, <2>4
      <3> QED
        BY <3>1
    <2>5. CASE 2 * A + 17 < i /\ i <= 2 * A + 20
      BY <1>1, <2>5
    <2>6. CASE 2 * A + 20 < i /\ i <= 3 * A + 20
      <3>1. i - (2 * A + 20) \in 1 .. A /\ i = 2 * A + 20 + (i - (2 * A + 20))
        BY <1>1, <2>6
      <3> QED
        BY <3>1
    <2>7. CASE 3 * A + 20 < i
      BY <1>1, <2>7
    <2> QED
      BY <1>1, <2>1, <2>2, <2>3, <2>4, <2>5, <2>6, <2>7
  <1>3. "type" \in DOMAIN p.srcAddr[1] /\ "type" \in DOMAIN p.sender[1]
    BY DEF FromAleo, IsPacket
  <1>4. /\ T[2] = Val(p.version, "u8") /\ T[4] = Val(p.sequence, "u64")
        /\ T[7] = Val(p.srcChain, "u128") /\ T[9] = p.srcAddr[1] /\ T[12] = Val(p.dstChain, "u128")
        /\ T[A + 16] = p.sender[1] /\ T[2 * A + 19] = Val(p.amount, "u128")
        /\ T[3 * A + 22] = x /\ x # Name(s)
    BY DEF LaidOut
  <1>5. /\ T[1] = Name("version") /\ T[3] = Name("sequence") /\ T[5] = Name("source")
        /\ T[6] = Name("chain_id") /\ T[8] = Name("addr") /\ T[10] = Name("destination")
        /\ T[11] = Name("chain_id") /\ T[13] = Name("addr") /\ T[A + 14] = Name("message")
        /\ T[A + 15] = Name("sender_address") /\ T[A + 17] = Name("dest_token_address")
        /\ T[2 * A + 18] = Name("amount") /\ T[2 * A + 20] = Name("receiver_address")
        /\ T[3 * A + 21] = Name("height")
    BY DEF LaidOut
  <1>6. /\ \A k \in 1 .. A : T[13 + k] = ArrayText(p.dstAddr)[k]
        /\ \A k \in 1 .. A : T[A + 17 + k] = ArrayText(p.token)[k]
        /\ \A k \in 1 .. A : T[2 * A + 20 + k] = ArrayText(p.receiver)[k]
    BY DEF LaidOut
  <1>7. \A addr : \A j \in 1 .. A : "type" \in DOMAIN ArrayText(addr)[j]
    BY PaddedAddress
  <1>8. /\ \A n, t : Val(n, t) # Name(s)
        /\ \A y : "type" \in DOMAIN y => y # Name(s)
        /\ \A t : Name(t) = Name(s) => t = s
    BY ValuesAreNoNames
  <1> HIDE DEF A
  <1>9. i \notin {2, 4, 7, 9, 12, A + 16, 2 * A + 19, 3 * A + 22}
    BY <1>3, <1>4, <1>8
  <1>10. /\ ~ \E j \in 1 .. A : i = 13 + j
         /\ ~ \E j \in 1 .. A : i = A + 17 + j
         /\ ~ \E j \in 1 .. A : i = 2 * A + 20 + j
    <2>1. \A addr : \A j \in 1 .. A : ArrayText(addr)[j] # Name(s)
      BY <1>7, <1>8
    <2> QED
      BY <1>6, <2>1
  <1>11. \A k, t : i = k /\ T[k] = Name(t) => s = t
    BY <1>8
  <1>12. CASE i \in {1, 3, 5, 6, 8, 10, 11, 13}
    <2>1. /\ (i = 1 => s = "version") /\ (i = 3 => s = "sequence") /\ (i = 5 => s = "source")
          /\ (i = 6 => s = "chain_id") /\ (i = 8 => s = "addr") /\ (i = 10 => s = "destination")
          /\ (i = 11 => s = "chain_id") /\ (i = 13 => s = "addr")
      BY <1>5, <1>11
    <2> QED
      BY <1>12, <2>1
  <1>13. CASE i \in {A + 14, A + 15, A + 17, 2 * A + 18, 2 * A + 20, 3 * A + 21}
    <2>1. /\ (i = A + 14 => s = "message") /\ (i = A + 15 => s = "sender_address")
          /\ (i = A + 17 => s = "dest_token_address") /\ (i = 2 * A + 18 => s = "amount")
          /\ (i = 2 * A + 20 => s = "receiver_address") /\ (i = 3 * A + 21 => s = "height")
      BY <1>5, <1>11
    <2> QED
      BY <1>13, <2>1 DEF A
  <1> QED
    BY <1>2, <1>9, <1>10, <1>12, <1>13

(* The parser finds the fields of a packet at their places. *)
LEMMA FieldsOfText ==
    ASSUME NEW p, FromAleo(p), NEW T, NEW x, LaidOut(T, p, x)
    PROVE  /\ FieldAt(T, "version") = 1 /\ FieldAt(T, "sequence") = 3
           /\ FieldAt(T, "source") = 5 /\ FieldAt(T, "destination") = 10
           /\ FieldAt(T, "message") = AddrLen + 14 /\ FieldAt(T, "height") = 3 * AddrLen + 21
  <1> DEFINE N == 3 * AddrLen + 22
  <1>1. AddrLen \in Nat /\ DOMAIN T = 1 .. N
    BY TextAssumption DEF LaidOut, IsSequence
  <1>2. ASSUME NEW f, NEW k \in 1 .. N, T[k] = Name(f), \A i \in 1 .. N : T[i] = Name(f) => i = k
        PROVE  FieldAt(T, f) = k
    <2> DEFINE S == {i \in DOMAIN T : T[i] = Name(f)}
    <2>1. k \in Nat /\ k \in S /\ \A i \in S : i = k
      BY <1>1, <1>2
    <2> HIDE DEF S
    <2>2. Max({0} \cup S) = k
      BY <2>1, MaxWithZero
    <2> QED
      BY <2>2 DEF FieldAt, S
  <1>3. /\ 1 \in 1 .. N /\ 3 \in 1 .. N /\ 5 \in 1 .. N /\ 10 \in 1 .. N
        /\ AddrLen + 14 \in 1 .. N /\ 3 * AddrLen + 21 \in 1 .. N
    BY <1>1
  <1>4. /\ \A i \in 1 .. N : T[i] = Name("version") => i = 1
        /\ \A i \in 1 .. N : T[i] = Name("sequence") => i = 3
        /\ \A i \in 1 .. N : T[i] = Name("source") => i = 5
        /\ \A i \in 1 .. N : T[i] = Name("destination") => i = 10
        /\ \A i \in 1 .. N : T[i] = Name("message") => i = AddrLen + 14
        /\ \A i \in 1 .. N : T[i] = Name("height") => i = 3 * AddrLen + 21
    <2>1. ASSUME NEW i \in 1 .. N, NEW s, T[i] = Name(s)
          PROVE  /\ s = "version" => i = 1
                 /\ s = "sequence" => i = 3
                 /\ s = "source" => i = 5
                 /\ s = "destination" => i = 10
                 /\ s = "message" => i = AddrLen + 14
                 /\ s = "height" => i = 3 * AddrLen + 21
      BY <2>1, NamesOfText
    <2> QED
      BY <2>1
  <1>5. /\ T[1] = Name("version") /\ T[3] = Name("sequence") /\ T[5] = Name("source")
        /\ T[10] = Name("destination") /\ T[AddrLen + 14] = Name("message")
        /\ T[3 * AddrLen + 21] = Name("height")
    BY DEF LaidOut
  <1> HIDE DEF N
  <1> QED
    BY <1>2, <1>3, <1>4, <1>5

(* It finds the members of the nested structs at theirs. *)
LEMMA StructsOfText ==
    ASSUME NEW p, FromAleo(p), NEW T, NEW x, LaidOut(T, p, x)
    PROVE  /\ NameAt(T, "source", "chain_id") = 6 /\ NameAt(T, "source", "addr") = 8
           /\ NameAt(T, "destination", "chain_id") = 11 /\ NameAt(T, "destination", "addr") = 13
           /\ NameAt(T, "message", "sender_address") = AddrLen + 15
           /\ NameAt(T, "message", "dest_token_address") = AddrLen + 17
           /\ NameAt(T, "message", "amount") = 2 * AddrLen + 18
           /\ NameAt(T, "message", "receiver_address") = 2 * AddrLen + 20
  <1> DEFINE N == 3 * AddrLen + 22
             slice(f) == FieldAt(T, f) + 1 .. FieldAt(T, f) + SliceLength(f)
  <1>1. AddrLen \in Nat \ {0}
    BY TextAssumption
  <1>2. ASSUME NEW f, NEW s, NEW k \in Nat, k \in slice(f), T[k] = Name(s),
               \A i \in slice(f) : T[i] = Name(s) => i = k
        PROVE  NameAt(T, f, s) = k
    <2> DEFINE S == {i \in slice(f) : T[i] = Name(s)}
    <2>1. k \in S /\ \A i \in S : i = k
      BY <1>2
    <2> HIDE DEF S
    <2>2. Max({0} \cup S) = k
      BY <2>1, MaxWithZero
    <2> QED
      BY <2>2 DEF NameAt, S
  <1>3. /\ slice("source") = 6 .. 9
        /\ slice("destination") = 11 .. AddrLen + 13
        /\ slice("message") = AddrLen + 15 .. 3 * AddrLen + 20
    <2>1. /\ SliceLength("source") = 4 /\ SliceLength("destination") = AddrLen + 3
          /\ SliceLength("message") = 2 * AddrLen + 6
      BY DEF SliceLength
    <2>2. /\ 5 + 1 = 6 /\ 5 + 4 = 9 /\ 10 + 1 = 11 /\ 10 + (AddrLen + 3) = AddrLen + 13
          /\ (AddrLen + 14) + 1 = AddrLen + 15 /\ (AddrLen + 14) + (2 * AddrLen + 6) = 3 * AddrLen + 20
      BY <1>1
    <2> QED
      BY <2>1, <2>2, FieldsOfText
  <1> HIDE DEF slice
  <1>4. /\ slice("source") \subseteq 1 .. N /\ slice("destination") \subseteq 1 .. N
        /\ slice("message") \subseteq 1 .. N
    BY <1>1, <1>3
  <1>5. ASSUME NEW i \in 1 .. N, NEW s, T[i] = Name(s)
        PROVE  /\ s = "chain_id" => i \in {6, 11}
               /\ s = "addr" => i \in {8, 13}
               /\ s = "sender_address" => i = AddrLen + 15
               /\ s = "dest_token_address" => i = AddrLen + 17
               /\ s = "amount" => i = 2 * AddrLen + 18
               /\ s = "receiver_address" => i = 2 * AddrLen + 20
    BY <1>5, NamesOfText
  <1>6. /\ T[6] = Name("chain_id") /\ T[8] = Name("addr") /\ T[11] = Name("chain_id")
        /\ T[13] = Name("addr") /\ T[AddrLen + 15] = Name("sender_address")
        /\ T[AddrLen + 17] = Name("dest_token_address") /\ T[2 * AddrLen + 18] = Name("amount")
        /\ T[2 * AddrLen + 20] = Name("receiver_address")
    BY DEF LaidOut
  <1> HIDE DEF N
  <1>7. /\ NameAt(T, "source", "chain_id") = 6 /\ NameAt(T, "source", "addr") = 8
    <2>1. /\ \A i \in slice("source") : T[i] = Name("chain_id") => i = 6
          /\ \A i \in slice("source") : T[i] = Name("addr") => i = 8
          /\ 6 \in slice("source") /\ 8 \in slice("source")
      BY <1>3, <1>4, <1>5
    <2> QED
      BY <1>2, <1>6, <2>1
  <1>8. /\ NameAt(T, "destination", "chain_id") = 11 /\ NameAt(T, "destination", "addr") = 13
    <2>1. /\ \A i \in slice("destination") : T[i] = Name("chain_id") => i = 11
          /\ \A i \in slice("destination") : T[i] = Name("addr") => i = 13
      BY <1>1, <1>3, <1>4, <1>5
    <2>2. 11 \in slice("destination") /\ 13 \in slice("destination")
      BY <1>1, <1>3
    <2> QED
      BY <1>2, <1>6, <2>1, <2>2
  <1>9. /\ NameAt(T, "message", "sender_address") = AddrLen + 15
        /\ NameAt(T, "message", "dest_token_address") = AddrLen + 17
        /\ NameAt(T, "message", "amount") = 2 * AddrLen + 18
        /\ NameAt(T, "message", "receiver_address") = 2 * AddrLen + 20
    <2>1. /\ \A i \in slice("message") : T[i] = Name("sender_address") => i = AddrLen + 15
          /\ \A i \in slice("message") : T[i] = Name("dest_token_address") => i = AddrLen + 17
          /\ \A i \in slice("message") : T[i] = Name("amount") => i = 2 * AddrLen + 18
          /\ \A i \in slice("message") : T[i] = Name("receiver_address") => i = 2 * AddrLen + 20
      BY <1>4, <1>5
    <2>2. /\ AddrLen + 15 \in slice("message") /\ AddrLen + 17 \in slice("message")
          /\ 2 * AddrLen + 18 \in slice("message") /\ 2 * AddrLen + 20 \in slice("message")
      BY <1>1, <1>3
    <2>3. /\ AddrLen + 15 \in Nat /\ AddrLen + 17 \in Nat
          /\ 2 * AddrLen + 18 \in Nat /\ 2 * AddrLen + 20 \in Nat
      BY <1>1
    <2> QED
      BY <1>2, <1>6, <2>1, <2>2, <2>3
  <1> QED
    BY <1>7, <1>8, <1>9

(* A sequence of length one is its element alone. *)
LEMMA OneTokenIs ==
    ASSUME NEW s, IsSequence(s), Len(s) = 1
    PROVE  s = <<s[1]>>
  BY DEF IsSequence

(* The values that the parser cuts out of the text. *)
LEMMA ValuesOfText ==
    ASSUME NEW p, FromAleo(p), NEW T, NEW x, LaidOut(T, p, x)
    PROVE  /\ ValuesOf(T, "source", "chain_id", 1) = <<Val(p.srcChain, "u128")>>
           /\ ValuesOf(T, "source", "addr", 1) = p.srcAddr
           /\ ValuesOf(T, "destination", "chain_id", 1) = <<Val(p.dstChain, "u128")>>
           /\ ValuesOf(T, "destination", "addr", AddrLen) = ArrayText(p.dstAddr)
           /\ ValuesOf(T, "message", "dest_token_address", AddrLen) = ArrayText(p.token)
           /\ ValuesOf(T, "message", "sender_address", 1) = p.sender
           /\ ValuesOf(T, "message", "receiver_address", AddrLen) = ArrayText(p.receiver)
           /\ ValuesOf(T, "message", "amount", 1) = <<Val(p.amount, "u128")>>
  <1> DEFINE A == AddrLen
  <1>1. A \in Nat /\ IsSequence(T) /\ Len(T) = 3 * A + 22
    BY TextAssumption DEF LaidOut
  <1>2. ASSUME NEW f, NEW s, NEW i \in Nat \ {0}, NameAt(T, f, s) = i, i + 1 <= 3 * A + 22
        PROVE  ValuesOf(T, f, s, 1) = <<T[i + 1]>>
    <2> DEFINE v == SubSeq(T, i + 1, i + 1)
    <2>1. IsSequence(v) /\ Len(v) = 1 /\ \A j \in 1 .. 1 : v[j] = T[i + j]
      <3>1. IsSequence(T) /\ i \in Nat /\ 1 \in Nat /\ i + 1 <= Len(T)
        BY <1>1, <1>2
      <3> QED
        BY <3>1, Slice
    <2>2. ValuesOf(T, f, s, 1) = v
      BY <1>2 DEF ValuesOf
    <2> HIDE DEF v
    <2>3. v = <<v[1]>> /\ v[1] = T[i + 1]
      BY <2>1, OneTokenIs
    <2> QED
      BY <2>2, <2>3
  <1>3. ASSUME NEW f, NEW s, NEW i \in Nat \ {0}, NameAt(T, f, s) = i, i + A <= 3 * A + 22,
               NEW addr, \A j \in 1 .. A : T[i + j] = ArrayText(addr)[j]
        PROVE  ValuesOf(T, f, s, A) = ArrayText(addr)
    <2> DEFINE v == SubSeq(T, i + 1, i + A) t == ArrayText(addr)
    <2>1. IsSequence(v) /\ Len(v) = A /\ \A j \in 1 .. A : v[j] = T[i + j]
      BY <1>1, <1>3, Slice
    <2>2. ValuesOf(T, f, s, A) = v
      BY <1>3 DEF ValuesOf
    <2>3. IsSequence(t) /\ Len(t) = A
      BY PaddedAddress
    <2>4. \A j \in 1 .. A : T[i + j] = t[j]
      BY <1>3
    <2> HIDE DEF v, t
    <2>5. \A j \in 1 .. A : v[j] = t[j]
      BY <2>1, <2>4
    <2>6. v = t
      BY <1>1, <2>1, <2>3, <2>5 DEF IsSequence
    <2> QED
      BY <2>2, <2>6 DEF t
  <1>4. p.srcAddr = <<p.srcAddr[1]>> /\ p.sender = <<p.sender[1]>>
    BY DEF FromAleo, IsPacket
  <1>5. /\ T[6 + 1] = Val(p.srcChain, "u128") /\ T[8 + 1] = p.srcAddr[1]
        /\ T[11 + 1] = Val(p.dstChain, "u128")
        /\ \A j \in 1 .. A : T[13 + j] = ArrayText(p.dstAddr)[j]
        /\ T[A + 16] = p.sender[1]
        /\ \A j \in 1 .. A : T[A + 17 + j] = ArrayText(p.token)[j]
        /\ T[2 * A + 19] = Val(p.amount, "u128")
        /\ \A j \in 1 .. A : T[2 * A + 20 + j] = ArrayText(p.receiver)[j]
    <2>1. 6 + 1 = 7 /\ 8 + 1 = 9 /\ 11 + 1 = 12
      OBVIOUS
    <2> QED
      BY <2>1 DEF LaidOut
  <1>6. /\ NameAt(T, "source", "chain_id") = 6 /\ NameAt(T, "source", "addr") = 8
        /\ NameAt(T, "destination", "chain_id") = 11 /\ NameAt(T, "destination", "addr") = 13
        /\ NameAt(T, "message", "sender_address") = A + 15
        /\ NameAt(T, "message", "dest_token_address") = A + 17
        /\ NameAt(T, "message", "amount") = 2 * A + 18
        /\ NameAt(T, "message", "receiver_address") = 2 * A + 20
    BY StructsOfText
  <1>7. /\ ValuesOf(T, "source", "chain_id", 1) = <<T[6 + 1]>>
        /\ ValuesOf(T, "source", "addr", 1) = <<T[8 + 1]>>
        /\ ValuesOf(T, "destination", "chain_id", 1) = <<T[11 + 1]>>
    <2>1. /\ 6 \in Nat \ {0} /\ 8 \in Nat \ {0} /\ 11 \in Nat \ {0}
          /\ 6 + 1 <= 3 * A + 22 /\ 8 + 1 <= 3 * A + 22 /\ 11 + 1 <= 3 * A + 22
      BY <1>1
    <2> QED
      BY <1>2, <1>6, <2>1
  <1>8. /\ ValuesOf(T, "message", "sender_address", 1) = <<T[A + 16]>>
        /\ ValuesOf(T, "message", "amount", 1) = <<T[2 * A + 19]>>
    <2>1. /\ A + 15 \in Nat \ {0} /\ 2 * A + 18 \in Nat \ {0}
          /\ (A + 15) + 1 = A + 16 /\ (2 * A + 18) + 1 = 2 * A + 19
          /\ (A + 15) + 1 <= 3 * A + 22 /\ (2 * A + 18) + 1 <= 3 * A + 22
      BY <1>1
    <2> QED
      BY <1>2, <1>6, <2>1
  <1>9. /\ ValuesOf(T, "destination", "addr", A) = ArrayText(p.dstAddr)
        /\ ValuesOf(T, "message", "dest_token_address", A) = ArrayText(p.token)
        /\ ValuesOf(T, "message", "receiver_address", A) = ArrayText(p.receiver)
    <2>1. /\ 13 \in Nat \ {0} /\ A + 17 \in Nat \ {0} /\ 2 * A + 20 \in Nat \ {0}
          /\ 13 + A <= 3 * A + 22 /\ (A + 17) + A <= 3 * A + 22 /\ (2 * A + 20) + A <= 3 * A + 22
      BY <1>1
    <2> QED
      BY <1>3, <1>5, <1>6, <2>1
  <1> QED
    BY <1>4, <1>5, <1>7, <1>8, <1>9

(* A packet with another height. *)
LEMMA WithHeight ==
    ASSUME NEW p, FromAleo(p), NEW h
    PROVE  [p EXCEPT !.height = h] =
             [version  |-> p.version, sequence |-> p.sequence, height |-> h,
              amount |-> p.amount, srcChain |-> p.srcChain, dstChain |-> p.dstChain,
              srcAddr |-> p.srcAddr, dstAddr |-> p.dstAddr, sender |-> p.sender,
              token |-> p.token, receiver |-> p.receiver]
  BY DEF FromAleo, IsPacket

(* A text in which only the last token is another. *)
LEMMA LaidOutElsewhere ==
    ASSUME NEW p, NEW T, NEW x, LaidOut(T, p, x), NEW C, NEW y, \A s : y # Name(s),
           IsSequence(C), Len(C) = Len(T), C[Len(C)] = y, \A i \in 1 .. Len(T) - 1 : C[i] = T[i]
    PROVE  LaidOut(C, p, y)
  <1> DEFINE A == AddrLen
  <1>1. A \in Nat /\ Len(T) = 3 * A + 22
    BY TextAssumption DEF LaidOut
  <1>2. \A i \in 1 .. 3 * A + 21 : C[i] = T[i]
    BY <1>1
  <1>3. /\ \A i \in {1, 2, 3, 4, 5, 6, 7, 8, 9, 10, 11, 12, 13} : C[i] = T[i]
        /\ \A i \in {A + 14, A + 15, A + 16, A + 17, 2 * A + 18, 2 * A + 19, 2 * A + 20, 3 * A + 21} :
             C[i] = T[i]
    BY <1>1, <1>2
  <1>4. \A i \in 1 .. A : /\ C[13 + i] = T[13 + i] /\ C[A + 17 + i] = T[A + 17 + i]
                          /\ C[2 * A + 20 + i] = T[2 * A + 20 + i]
    BY <1>1, <1>2
  <1>5. C[3 * A + 22] = y /\ Len(C) = 3 * A + 22
    BY <1>1
  <1> QED
    BY <1>3, <1>4, <1>5 DEF LaidOut

(* The parser accepts the text of a packet. *)
LEMMA TextIsParsed ==
    ASSUME NEW p, FromAleo(p), NEW T, NEW x, LaidOut(T, p, x)
    PROVE  parseMessage(T) =
             [version  |-> <<Val(p.version, "u8")>>, sequence |-> <<Val(p.sequence, "u64")>>,
              height   |-> <<x>>,
              srcChain |-> <<Val(p.srcChain, "u128")>>, srcAddr |-> p.srcAddr,
              dstChain |-> <<Val(p.dstChain, "u128")>>, dstAddr |-> ArrayText(p.dstAddr),
              token    |-> ArrayText(p.token), sender |-> p.sender,
              receiver |-> ArrayText(p.receiver), amount |-> <<Val(p.amount, "u128")>>]
  <1> DEFINE A == AddrLen
  <1>1. A \in Nat \ {0} /\ Len(T) = 3 * A + 22
    BY TextAssumption DEF LaidOut
  <1>2. /\ FieldAt(T, "version") = 1 /\ FieldAt(T, "sequence") = 3
        /\ FieldAt(T, "source") = 5 /\ FieldAt(T, "destination") = 10
        /\ FieldAt(T, "message") = A + 14 /\ FieldAt(T, "height") = 3 * A + 21
    BY FieldsOfText
  <1>3. /\ SliceLength("version") = 1 /\ SliceLength("sequence") = 1 /\ SliceLength("height") = 1
        /\ SliceLength("source") = 4 /\ SliceLength("destination") = A + 3
        /\ SliceLength("message") = 2 * A + 6
    BY DEF SliceLength
  <1>4. \A f \in RequiredFields : FieldAt(T, f) # 0 /\ ~SlicePanics(T, f)
    <2>1. /\ 1 + 1 <= 3 * A + 22 /\ 3 + 1 <= 3 * A + 22 /\ 5 + 4 <= 3 * A + 22
          /\ 10 + (A + 3) <= 3 * A + 22 /\ (A + 14) + (2 * A + 6) <= 3 * A + 22
          /\ (3 * A + 21) + 1 <= 3 * A + 22 /\ A + 14 # 0 /\ 3 * A + 21 # 0
      BY <1>1
    <2>2. /\ FieldAt(T, "version") # 0 /\ ~SlicePanics(T, "version")
          /\ FieldAt(T, "sequence") # 0 /\ ~SlicePanics(T, "sequence")
          /\ FieldAt(T, "height") # 0 /\ ~SlicePanics(T, "height")
      BY <1>1, <1>2, <1>3, <2>1 DEF SlicePanics
    <2>3. FieldAt(T, "source") # 0 /\ ~SlicePanics(T, "source")
      BY <1>1, <1>2, <1>3, <2>1 DEF SlicePanics
    <2>4. FieldAt(T, "destination") # 0 /\ ~SlicePanics(T, "destination")
      BY <1>1, <1>2, <1>3, <2>1 DEF SlicePanics
    <2>5. FieldAt(T, "message") # 0 /\ ~SlicePanics(T, "message")
      BY <1>1, <1>2, <1>3, <2>1 DEF SlicePanics
    <2> QED
      BY <2>2, <2>3, <2>4, <2>5 DEF RequiredFields
  <1>5. /\ NameAt(T, "source", "chain_id") = 6 /\ NameAt(T, "source", "addr") = 8
        /\ NameAt(T, "destination", "chain_id") = 11 /\ NameAt(T, "destination", "addr") = 13
        /\ NameAt(T, "message", "sender_address") = A + 15
        /\ NameAt(T, "message", "dest_token_address") = A + 17
        /\ NameAt(T, "message", "amount") = 2 * A + 18
        /\ NameAt(T, "message", "receiver_address") = 2 * A + 20
    BY StructsOfText
  <1>6. ASSUME NEW f, NEW s, NEW n \in Nat, NEW i \in Nat, NameAt(T, f, s) = i,
               i + n <= FieldAt(T, f) + SliceLength(f), i + n <= Len(T),
               FieldAt(T, f) + SliceLength(f) \in Nat
        PROVE  ~ValuesPanic(T, f, s, n)
    <2>1. ~(i + n > FieldAt(T, f) + SliceLength(f)) /\ ~(i + n > Len(T))
      BY <1>1, <1>6
    <2> QED
      BY <1>6, <2>1 DEF ValuesPanic
  <1>7. \A v \in StructValues : ~ValuesPanic(T, v[1], v[2], v[3])
    <2>1. ~ValuesPanic(T, "source", "chain_id", 1) /\ ~ValuesPanic(T, "source", "addr", 1)
      <3>1. /\ 6 + 1 <= 5 + 4 /\ 8 + 1 <= 5 + 4 /\ 6 + 1 <= Len(T) /\ 8 + 1 <= Len(T)
            /\ 5 + 4 \in Nat /\ 6 \in Nat /\ 8 \in Nat /\ 1 \in Nat
        BY <1>1
      <3> QED
        BY <1>2, <1>3, <1>5, <1>6, <3>1
    <2>2. /\ ~ValuesPanic(T, "destination", "chain_id", 1)
          /\ ~ValuesPanic(T, "destination", "addr", A)
      <3>1. /\ 11 + 1 <= 10 + (A + 3) /\ 13 + A <= 10 + (A + 3)
            /\ 11 + 1 <= Len(T) /\ 13 + A <= Len(T)
            /\ 10 + (A + 3) \in Nat /\ 11 \in Nat /\ 13 \in Nat /\ 1 \in Nat /\ A \in Nat
        BY <1>1
      <3> QED
        BY <1>2, <1>3, <1>5, <1>6, <3>1
    <2>3. /\ ~ValuesPanic(T, "message", "sender_address", 1)
          /\ ~ValuesPanic(T, "message", "amount", 1)
          /\ ~ValuesPanic(T, "message", "dest_token_address", A)
          /\ ~ValuesPanic(T, "message", "receiver_address", A)
      <3> DEFINE last == (A + 14) + (2 * A + 6)
      <3>1. /\ (A + 15) + 1 <= last /\ (2 * A + 18) + 1 <= last
            /\ (A + 17) + A <= last /\ (2 * A + 20) + A <= last
            /\ (A + 15) + 1 <= Len(T) /\ (2 * A + 18) + 1 <= Len(T)
            /\ (A + 17) + A <= Len(T) /\ (2 * A + 20) + A <= Len(T)
        BY <1>1
      <3>2. /\ last \in Nat /\ A + 15 \in Nat /\ 2 * A + 18 \in Nat /\ A + 17 \in Nat
            /\ 2 * A + 20 \in Nat /\ 1 \in Nat /\ A \in Nat
        BY <1>1
      <3>3. FieldAt(T, "message") + SliceLength("message") = last
        BY <1>2, <1>3
      <3> HIDE DEF last
      <3> QED
        BY <1>5, <1>6, <3>1, <3>2, <3>3
    <2> QED
      BY <2>1, <2>2, <2>3 DEF StructValues
  <1>8. /\ T[FieldAt(T, "version") + 1] = Val(p.version, "u8")
        /\ T[FieldAt(T, "sequence") + 1] = Val(p.sequence, "u64")
        /\ T[FieldAt(T, "height") + 1] = x
    <2>1. 1 + 1 = 2 /\ 3 + 1 = 4 /\ (3 * A + 21) + 1 = 3 * A + 22
      BY <1>1
    <2>2. T[2] = Val(p.version, "u8") /\ T[4] = Val(p.sequence, "u64") /\ T[3 * A + 22] = x
      BY DEF LaidOut
    <2> QED
      BY <1>2, <2>1, <2>2
  <1> QED
    BY <1>4, <1>7, <1>8, ValuesOfText DEF parseMessage

(* An address laid out as an array is read back. *)
LEMMA ArraysAreRead ==
    ASSUME NEW addr, addr = [i \in 1 .. EthLen |-> addr[i]]
    PROVE  IsArray(ArrayText(addr)) /\ parseAleoEthAddrToHexString(ArrayText(addr)) = addr
  <1> DEFINE v == ArrayText(addr)
  <1>1. /\ IsSequence(v) /\ Len(v) = AddrLen
        /\ \A i \in 1 .. AddrLen : "type" \in DOMAIN v[i] /\ v[i].type = "u8"
        /\ \A i \in 1 .. EthLen : v[AddrLen - EthLen + i].value = addr[i]
    BY PaddedAddress
  <1> HIDE DEF v
  <1>2. DOMAIN v = 1 .. AddrLen
    BY <1>1 DEF IsSequence
  <1>3. IsArray(v)
    BY <1>1, <1>2 DEF IsArray, HasType
  <1>4. parseAleoEthAddrToHexString(v) = [i \in 1 .. EthLen |-> addr[i]]
    BY <1>1 DEF parseAleoEthAddrToHexString
  <1> QED
    BY <1>3, <1>4 DEF v

(* A number is read back. *)
LEMMA NumbersAreRead ==
    ASSUME NEW n, NEW t
    PROVE  IsNumber(<<Val(n, t)>>, t) /\ <<Val(n, t)>>[1].value = n
  BY DEF IsNumber, HasType, Val

(* What is read of a text whose last token is x: the packet, but for the   *)
(* height, which is what x gives.                                          *)
LEMMA TextIsRead ==
    ASSUME NEW p, FromAleo(p), NEW T, NEW x, LaidOut(T, p, x)
    PROVE  getPktWithSeq(T) = IF IsNumber(<<x>>, "u64") THEN [p EXCEPT !.height = x.value]
                              ELSE Failed
  <1> DEFINE m == [version  |-> <<Val(p.version, "u8")>>, sequence |-> <<Val(p.sequence, "u64")>>,
                   height   |-> <<x>>,
                   srcChain |-> <<Val(p.srcChain, "u128")>>, srcAddr |-> p.srcAddr,
                   dstChain |-> <<Val(p.dstChain, "u128")>>, dstAddr |-> ArrayText(p.dstAddr),
                   token    |-> ArrayText(p.token), sender |-> p.sender,
                   receiver |-> ArrayText(p.receiver), amount |-> <<Val(p.amount, "u128")>>]
  <1>1. parseMessage(T) = m
    BY TextIsParsed
  <1>2. T # NullText
    <2>1. T[1] = Name("version")
      BY DEF LaidOut
    <2>2. NullText[1] = Name("null")
      BY DEF NullText
    <2>3. Name("version") # Name("null")
      BY ValuesAreNoNames
    <2> QED
      BY <2>1, <2>2, <2>3
  <1>3. m # Failed
    BY DEF Failed
  <1>4. getPktWithSeq(T) = parseAleoPacket(m)
    BY <1>1, <1>2, <1>3 DEF getPktWithSeq
  <1>5. /\ p.dstAddr = [i \in 1 .. EthLen |-> p.dstAddr[i]]
        /\ p.token = [i \in 1 .. EthLen |-> p.token[i]]
        /\ p.receiver = [i \in 1 .. EthLen |-> p.receiver[i]]
    BY DEF FromAleo, IsPacket
  <1>6. /\ IsArray(ArrayText(p.dstAddr)) /\ IsArray(ArrayText(p.token)) /\ IsArray(ArrayText(p.receiver))
        /\ parseAleoEthAddrToHexString(ArrayText(p.dstAddr)) = p.dstAddr
        /\ parseAleoEthAddrToHexString(ArrayText(p.token)) = p.token
        /\ parseAleoEthAddrToHexString(ArrayText(p.receiver)) = p.receiver
    BY <1>5, ArraysAreRead
  <1>7. \A n, t : IsNumber(<<Val(n, t)>>, t) /\ <<Val(n, t)>>[1].value = n
    BY NumbersAreRead
  <1>8. /\ m.version = <<Val(p.version, "u8")>> /\ m.sequence = <<Val(p.sequence, "u64")>>
        /\ m.height = <<x>> /\ m.srcChain = <<Val(p.srcChain, "u128")>>
        /\ m.srcAddr = p.srcAddr /\ m.dstChain = <<Val(p.dstChain, "u128")>>
        /\ m.dstAddr = ArrayText(p.dstAddr) /\ m.token = ArrayText(p.token)
        /\ m.sender = p.sender /\ m.receiver = ArrayText(p.receiver)
        /\ m.amount = <<Val(p.amount, "u128")>>
    OBVIOUS
  <1> HIDE DEF m
  <1>9. CASE ~IsNumber(<<x>>, "u64")
    <2>1. ~IsNumber(m.height, "u64")
      BY <1>8, <1>9
    <2>2. parseAleoPacket(m) = Failed
      BY <2>1 DEF parseAleoPacket
    <2> QED
      BY <1>4, <1>9, <2>2
  <1>10. CASE IsNumber(<<x>>, "u64")
    <2>1. /\ IsNumber(m.version, "u8") /\ IsNumber(m.sequence, "u64") /\ IsNumber(m.height, "u64")
          /\ \A v \in {m.srcChain, m.dstChain, m.amount} : IsNumber(v, "u128")
          /\ \A v \in {m.dstAddr, m.token, m.receiver} : IsArray(v)
      BY <1>6, <1>7, <1>8, <1>10
    <2>2. /\ m.version[1].value = p.version /\ m.sequence[1].value = p.sequence
          /\ m.height[1].value = x.value /\ m.amount[1].value = p.amount
          /\ m.srcChain[1].value = p.srcChain /\ m.dstChain[1].value = p.dstChain
          /\ m.srcAddr = p.srcAddr /\ m.sender = p.sender
          /\ parseAleoEthAddrToHexString(m.dstAddr) = p.dstAddr
          /\ parseAleoEthAddrToHexString(m.token) = p.token
          /\ parseAleoEthAddrToHexString(m.receiver) = p.receiver
      BY <1>6, <1>7, <1>8
    <2>3. parseAleoPacket(m) =
            [version  |-> p.version, sequence |-> p.sequence, height |-> x.value,
             amount |-> p.amount, srcChain |-> p.srcChain, dstChain |-> p.dstChain,
             srcAddr |-> p.srcAddr, dstAddr |-> p.dstAddr, sender |-> p.sender,
             token |-> p.token, receiver |-> p.receiver]
      BY <2>1, <2>2 DEF parseAleoPacket
    <2>4. [p EXCEPT !.height = x.value] =
            [version  |-> p.version, sequence |-> p.sequence, height |-> x.value,
             amount |-> p.amount, srcChain |-> p.srcChain, dstChain |-> p.dstChain,
             srcAddr |-> p.srcAddr, dstAddr |-> p.dstAddr, sender |-> p.sender,
             token |-> p.token, receiver |-> p.receiver]
      BY WithHeight
    <2> QED
      BY <1>4, <1>10, <2>3, <2>4
  <1> QED
    BY <1>9, <1>10

(* A packet from Aleo is read back from its text. *)
LEMMA PacketIsReadBack ==
    ASSUME NEW p, FromAleo(p)
    PROVE  getPktWithSeq(PacketText(p)) = p
  <1> DEFINE x == Val(p.height, "u64")
  <1>1. IsNumber(<<x>>, "u64") /\ x.value = p.height
    BY NumbersAreRead
  <1>2. LaidOut(PacketText(p), p, x)
    BY TextOfPacket
  <1> HIDE DEF x
  <1>3. getPktWithSeq(PacketText(p)) = [p EXCEPT !.height = x.value]
    BY <1>1, <1>2, TextIsRead
  <1>4. [p EXCEPT !.height = p.height] = p
    BY WithHeight DEF FromAleo, IsPacket
  <1> QED
    BY <1>1, <1>3, <1>4

(* A text with no height, or nothing after it, is no packet. *)
LEMMA ShortTextFails ==
    ASSUME NEW p, FromAleo(p), NEW T, NEW x, LaidOut(T, p, x),
           NEW C, IsSequence(C), Len(C) <= 3 * AddrLen + 21,
           \A i \in 1 .. Len(C) : \A s : C[i] = Name(s) => T[i] = Name(s)
    PROVE  getPktWithSeq(C) = Failed
  <1> DEFINE last == 3 * AddrLen + 21
             S == {i \in DOMAIN C : C[i] = Name("height")}
  <1>1. AddrLen \in Nat /\ last \in Nat /\ Len(C) \in Nat
    BY TextAssumption DEF IsSequence
  <1>2. \A i \in 1 .. Len(C) : i \in 1 .. 3 * AddrLen + 22
    BY <1>1
  <1>3. \A i \in S : i = last
    BY <1>2, NamesOfText DEF IsSequence
  <1>4. FieldAt(C, "height") = 0 \/ SlicePanics(C, "height")
    <2>1. CASE S = {}
      <3>1. FieldAt(C, "height") = Max({0} \cup S)
        BY DEF FieldAt
      <3>2. Max({0}) = 0
        BY DEF Max
      <3>3. {0} \cup S = {0}
        BY <2>1
      <3> QED
        BY <3>1, <3>2, <3>3
    <2>2. CASE S # {}
      <3>1. last \in S /\ last \in Nat
        BY <1>1, <1>3, <2>2
      <3>2. FieldAt(C, "height") = Max({0} \cup S)
        BY DEF FieldAt
      <3> HIDE DEF S, last
      <3>3. FieldAt(C, "height") = last
        BY <1>3, <3>1, <3>2, MaxWithZero
      <3>4. SliceLength("height") = 1
        BY DEF SliceLength
      <3>5. last + 1 > Len(C)
        BY <1>1 DEF last
      <3> QED
        BY <3>3, <3>4, <3>5 DEF SlicePanics
    <2> QED
      BY <2>1, <2>2
  <1>5. parseMessage(C) = Failed
    BY <1>4 DEF parseMessage, RequiredFields
  <1>6. C # NullText
    <2>1. NullText[1] = Name("null") /\ Len(NullText) = 1
      BY DEF NullText
    <2>2. T[1] = Name("version") /\ Name("version") # Name("null")
      BY ValuesAreNoNames DEF LaidOut
    <2>3. ASSUME C = NullText PROVE FALSE
      <3>1. 1 \in 1 .. Len(C) /\ C[1] = Name("null")
        BY <2>1, <2>3
      <3> QED
        BY <2>2, <3>1
    <2> QED
      BY <2>3
  <1> QED
    BY <1>5, <1>6 DEF getPktWithSeq

(* What is left of a token within which a text ends is no name. *)
LEMMA CutTokens ==
    ASSUME NEW token, NEW left \in CutToken(token)
    PROVE  /\ \A s : left # Name(s)
           /\ left = Broken \/ \E n \in DigitPrefixes(token.value) : left = Val(n, "none")
  BY DEF CutToken, Broken, Val, Name

(* A text that ends within its token n. *)
LEMMA EndsWithin ==
    ASSUME NEW T, IsSequence(T), NEW n \in 1 .. Len(T), NEW x
    PROVE  LET C == Append(SubSeq(T, 1, n - 1), x)
           IN  IsSequence(C) /\ Len(C) = n /\ C[n] = x /\ \A i \in 1 .. n - 1 : C[i] = T[i]
  <1> DEFINE begin == SubSeq(T, 1, n - 1)
             C == Append(begin, x)
             S == {T[i] : i \in 1 .. Len(T)} \cup {x}
  <1>1. n - 1 \in Nat /\ n - 1 <= Len(T) /\ (n - 1) + 1 = n /\ Len(T) \in Nat
    BY DEF IsSequence
  <1>2. IsSequence(begin) /\ Len(begin) = n - 1 /\ \A i \in 1 .. n - 1 : begin[i] = T[i]
    BY <1>1, Prefix
  <1>3. \A i \in 1 .. n - 1 : begin[i] \in S
    BY <1>1, <1>2
  <1> HIDE DEF S, begin
  <1>4. begin \in Seq(S) /\ x \in S
    <2>1. begin \in [1 .. n - 1 -> S]
      BY <1>2, <1>3 DEF IsSequence
    <2> QED
      BY <1>1, <2>1 DEF S
  <1>5. /\ C \in Seq(S) /\ Len(C) = n /\ C[n] = x
        /\ \A i \in 1 .. n - 1 : C[i] = begin[i]
    BY <1>1, <1>2, <1>4
  <1> HIDE DEF C
  <1>6. IsSequence(C)
    BY <1>5 DEF IsSequence
  <1> QED
    BY <1>2, <1>5, <1>6 DEF C, begin

(* Of a text that ends early nothing is read, or the packet with the first *)
(* digits of its height.                                                   *)
LEMMA CutTextIsRead ==
    ASSUME NEW p, FromAleo(p), NEW C \in Cuts(PacketText(p))
    PROVE  getPktWithSeq(C) \in
             {Failed} \cup {[p EXCEPT !.height = h] : h \in DigitPrefixes(p.height)}
  <1> DEFINE T == PacketText(p)
             x == Val(p.height, "u64")
  <1>1. LaidOut(T, p, x) /\ x.value = p.height
    BY TextOfPacket, NumbersAreRead DEF Val
  <1>2. \/ \E n \in 0 .. Len(T) - 1 : C = SubSeq(T, 1, n)
        \/ \E n \in 1 .. Len(T) : \E left \in CutToken(T[n]) : C = Append(SubSeq(T, 1, n - 1), left)
    BY DEF Cuts
  <1> HIDE DEF T, x
  <1>3. AddrLen \in Nat /\ IsSequence(T) /\ Len(T) = 3 * AddrLen + 22
    BY <1>1, TextAssumption DEF LaidOut
  <1>4. ASSUME NEW n \in 0 .. Len(T) - 1, C = SubSeq(T, 1, n)
        PROVE  getPktWithSeq(C) = Failed
    <2>1. n \in Nat /\ n <= Len(T) /\ n <= 3 * AddrLen + 21
      BY <1>3
    <2>2. IsSequence(C) /\ Len(C) = n /\ \A i \in 1 .. n : C[i] = T[i]
      BY <1>3, <1>4, <2>1, Prefix
    <2> QED
      BY <1>1, <2>1, <2>2, ShortTextFails
  <1>5. ASSUME NEW n \in 1 .. Len(T), NEW left \in CutToken(T[n]),
               C = Append(SubSeq(T, 1, n - 1), left)
        PROVE  getPktWithSeq(C) \in
                 {Failed} \cup {[p EXCEPT !.height = h] : h \in DigitPrefixes(p.height)}
    <2>1. IsSequence(C) /\ Len(C) = n /\ C[n] = left /\ \A i \in 1 .. n - 1 : C[i] = T[i]
      BY <1>3, <1>5, EndsWithin
    <2>2. /\ \A s : left # Name(s)
          /\ left = Broken \/ \E h \in DigitPrefixes(T[n].value) : left = Val(h, "none")
      BY CutTokens
    <2>3. CASE n # Len(T)
      <3>1. Len(C) <= 3 * AddrLen + 21
        BY <1>3, <2>1, <2>3
      <3>2. \A i \in 1 .. Len(C) : i = n \/ i \in 1 .. n - 1
        BY <1>3, <2>1
      <3>3. \A i \in 1 .. Len(C) : \A s : C[i] = Name(s) => T[i] = Name(s)
        BY <2>1, <2>2, <3>2
      <3>4. getPktWithSeq(C) = Failed
        BY <1>1, <2>1, <3>1, <3>3, ShortTextFails
      <3> QED
        BY <3>4
    <2>4. CASE n = Len(T)
      <3>1. T[n] = x
        BY <1>1, <1>3, <2>4 DEF LaidOut
      <3>2. LaidOut(C, p, left)
        BY <1>1, <1>3, <2>1, <2>2, <2>4, LaidOutElsewhere
      <3>3. getPktWithSeq(C) = IF IsNumber(<<left>>, "u64") THEN [p EXCEPT !.height = left.value]
                               ELSE Failed
        BY <3>2, TextIsRead
      <3>4. ASSUME NEW h \in DigitPrefixes(p.height), left = Val(h, "none")
            PROVE  left.value = h
        BY <3>4 DEF Val
      <3>5. left = Broken => ~IsNumber(<<left>>, "u64")
        BY DEF IsNumber, HasType, Broken
      <3> QED
        BY <1>1, <2>2, <3>1, <3>3, <3>4, <3>5
    <2> QED
      BY <2>3, <2>4
  <1> QED
    BY <1>2, <1>4, <1>5

(* A number that fits its width is kept by it. *)
LEMMA SmallNumbers ==
    ASSUME NEW m \in Nat, NEW n \in 0 .. m - 1
    PROVE  n % m = n
  OBVIOUS

(* The numbers of an event fit the packet's types. *)
LEMMA EventIsRead ==
    ASSUME NEW p \in ToAleo
    PROVE  [p EXCEPT !.version  = (@ % U64Modulus) % U8Modulus,
                     !.sequence = @ % U64Modulus,
                     !.height   = @ % U64Modulus] = p
  <1>1. /\ U8Modulus \in Nat /\ U64Modulus \in Nat /\ U8Modulus <= U64Modulus
    BY TextAssumption
  <1>2. /\ p.version \in 0 .. U8Modulus - 1
        /\ p.sequence \in 0 .. U64Modulus - 1 /\ p.height \in 0 .. U64Modulus - 1
    BY SigningAssumption
  <1>3. p.version \in 0 .. U64Modulus - 1
    BY <1>1, <1>2
  <1>4. /\ (p.version % U64Modulus) % U8Modulus = p.version
        /\ p.sequence % U64Modulus = p.sequence /\ p.height % U64Modulus = p.height
    BY <1>1, <1>2, <1>3, SmallNumbers
  <1>5. p = [version |-> p.version, sequence |-> p.sequence, height |-> p.height,
             amount |-> p.amount, srcChain |-> p.srcChain, dstChain |-> p.dstChain,
             srcAddr |-> p.srcAddr, dstAddr |-> p.dstAddr, sender |-> p.sender,
             token |-> p.token, receiver |-> p.receiver]
    BY SigningAssumption DEF IsPacket
  <1> QED
    BY <1>4, <1>5

(* The events of Ethereum are read as the packets that were sent. *)
LEMMA EventsAreRead ==
    /\ \A p \in ToAleo : ReadFromEthereum(p) = p
    /\ \A p, q \in ToAleo : /\ DOMAIN filterPacketLogs(<<q, p>>) = {1, 2}
                            /\ filterPacketLogs(<<q, p>>)[1] = q
                            /\ filterPacketLogs(<<q, p>>)[2] = p
  <1>1. ASSUME NEW p \in ToAleo PROVE ReadFromEthereum(p) = p
    <2> DEFINE events == <<p>>
    <2>1. DOMAIN events = {1} /\ events[1] = p
      OBVIOUS
    <2> HIDE DEF events
    <2>2. filterPacketLogs(events)[1] = p
      BY <2>1, EventIsRead DEF filterPacketLogs
    <2> QED
      BY <2>2 DEF ReadFromEthereum, events
  <1>2. ASSUME NEW p \in ToAleo, NEW q \in ToAleo
        PROVE  /\ DOMAIN filterPacketLogs(<<q, p>>) = {1, 2}
               /\ filterPacketLogs(<<q, p>>)[1] = q
               /\ filterPacketLogs(<<q, p>>)[2] = p
    <2> DEFINE events == <<q, p>>
    <2>1. DOMAIN events = {1, 2} /\ events[1] = q /\ events[2] = p
      OBVIOUS
    <2> HIDE DEF events
    <2>2. filterPacketLogs(events)[1] = q /\ filterPacketLogs(events)[2] = p
      BY <2>1, EventIsRead DEF filterPacketLogs
    <2>3. DOMAIN filterPacketLogs(events) = {1, 2}
      BY <2>1 DEF filterPacketLogs
    <2> QED
      BY <2>2, <2>3 DEF events
  <1> QED
    BY <1>1, <1>2

(* A missed packet is found, also behind another packet of the same blocks. *)
LEMMA MissedIsFound ==
    ASSUME NEW p \in ToAleo, NEW q \in ToAleo,
           <<p.sequence, p.dstChain>> # <<q.sequence, q.dstChain>>
    PROVE  GetMissedPacketEth(filterPacketLogs(<<q, p>>), p) = p
  <1> DEFINE packets == filterPacketLogs(<<q, p>>)
             found   == {i \in DOMAIN packets : packets[i].sequence = p.sequence
                                                 /\ packets[i].dstChain = p.dstChain}
  <1>1. DOMAIN packets = {1, 2} /\ packets[1] = q /\ packets[2] = p
    BY EventsAreRead
  <1>2. GetMissedPacketEth(packets, p) = IF found = {} THEN NotFound ELSE packets[Min(found)]
    BY DEF GetMissedPacketEth
  <1>3. p.sequence # q.sequence \/ p.dstChain # q.dstChain
    OBVIOUS
  <1> HIDE DEF packets
  <1>4. found = {2}
    BY <1>1, <1>3
  <1>5. Min({2}) = 2
    BY DEF Min
  <1> HIDE DEF found
  <1> QED
    BY <1>1, <1>2, <1>4, <1>5 DEF packets

(* All that the property says of packets read. *)
LEMMA PacketsReadBack == PacketReadBack
  <1>1. \A p \in ToEthereum : FromAleo(p)
    BY SigningAssumption DEF FromAleo
  <1>2. ASSUME NEW p \in ToEthereum
        PROVE  /\ getPktWithSeq(PacketText(p)) = p
               /\ \A cut \in Cuts(PacketText(p)) :
                    getPktWithSeq(cut) \in
                      {Failed} \cup {[p EXCEPT !.height = h] : h \in DigitPrefixes(p.height)}
    BY <1>1, PacketIsReadBack, CutTextIsRead
  <1> QED
    BY <1>2, MissedIsFound DEF PacketReadBack

-------------------------------------------------------------------------------
(****************************************************************************)
(* What is signed for a packet is what the destination recomputes           *)
(* (both chains' hash functions of signingService against the bridges),     *)
(* and no two packets have the same digest.                                 *)
(****************************************************************************)
ToAleoPacket(p) == IsPacket(p, {"srcAddr", "sender"}, {"dstAddr", "token", "receiver"})

(* A hash and a chunk of bytes stand for what they were made of. *)
LEMMA HashesAreInjective ==
    /\ \A x, y : Keccak(x) = Keccak(y) => x = y
    /\ \A x, y : BHP(x) = BHP(y) => x = y
    /\ \A x, y : Word(x) = Word(y) => x = y
    /\ \A x, y : Byte(x) = Byte(y) => x = y
    /\ \A x, y : EthAddress(x) = EthAddress(y) => x = y
    /\ \A x, y : Text(x) = Text(y) => x = y
  <1>1. \A x, y : Keccak(x) = Keccak(y) => x = y
    BY DEF Keccak
  <1>2. \A x, y : BHP(x) = BHP(y) => x = y
    BY DEF BHP
  <1>3. \A x, y : Word(x) = Word(y) => x = y
    BY DEF Word
  <1>4. \A x, y : Byte(x) = Byte(y) => x = y
    BY DEF Byte
  <1>5. \A x, y : EthAddress(x) = EthAddress(y) => x = y
    BY DEF EthAddress
  <1>6. \A x, y : Text(x) = Text(y) => x = y
    BY DEF Text
  <1> QED
    BY <1>1, <1>2, <1>3, <1>4, <1>5, <1>6

(* The record that both sides make a digest of. *)
LEMMA PacketFromFields ==
    ASSUME NEW p, NEW q, NEW E, NEW F, IsPacket(p, E, F), IsPacket(q, E, F),
           p.version = q.version, p.sequence = q.sequence, p.height = q.height,
           p.amount = q.amount, p.srcChain = q.srcChain, p.dstChain = q.dstChain,
           p.srcAddr = q.srcAddr, p.dstAddr = q.dstAddr, p.sender = q.sender,
           p.token = q.token, p.receiver = q.receiver
    PROVE  p = q
  <1>1. p = [version |-> p.version, sequence |-> p.sequence, height |-> p.height,
             amount |-> p.amount, srcChain |-> p.srcChain, dstChain |-> p.dstChain,
             srcAddr |-> p.srcAddr, dstAddr |-> p.dstAddr, sender |-> p.sender,
             token |-> p.token, receiver |-> p.receiver]
    BY DEF IsPacket
  <1>2. q = [version |-> q.version, sequence |-> q.sequence, height |-> q.height,
             amount |-> q.amount, srcChain |-> q.srcChain, dstChain |-> q.dstChain,
             srcAddr |-> q.srcAddr, dstAddr |-> q.dstAddr, sender |-> q.sender,
             token |-> q.token, receiver |-> q.receiver]
    BY DEF IsPacket
  <1> QED
    BY <1>1, <1>2

(* Two packets to Ethereum with the same bytes are the same. *)
LEMMA BytesOfPacket ==
    ASSUME NEW p, NEW q, FromAleo(p), FromAleo(q), packetBytes(p) = packetBytes(q)
    PROVE  p = q
  <1> DEFINE a == packetBytes(p) b == packetBytes(q)
  <1>1. /\ a[1] = Word(p.version) /\ a[2] = Word(p.sequence) /\ a[3] = Word(p.srcChain)
        /\ a[4] = Text(p.srcAddr) /\ a[5] = Word(p.dstChain) /\ a[6] = EthAddress(p.dstAddr)
        /\ a[7] = Text(p.sender) /\ a[8] = EthAddress(p.token) /\ a[9] = Word(p.amount)
        /\ a[10] = EthAddress(p.receiver) /\ a[11] = Word(p.height)
    BY DEF packetBytes
  <1>2. /\ b[1] = Word(q.version) /\ b[2] = Word(q.sequence) /\ b[3] = Word(q.srcChain)
        /\ b[4] = Text(q.srcAddr) /\ b[5] = Word(q.dstChain) /\ b[6] = EthAddress(q.dstAddr)
        /\ b[7] = Text(q.sender) /\ b[8] = EthAddress(q.token) /\ b[9] = Word(q.amount)
        /\ b[10] = EthAddress(q.receiver) /\ b[11] = Word(q.height)
    BY DEF packetBytes
  <1>3. a = b
    OBVIOUS
  <1> HIDE DEF a, b
  <1>4. /\ p.version = q.version /\ p.sequence = q.sequence /\ p.height = q.height
        /\ p.amount = q.amount /\ p.srcChain = q.srcChain /\ p.dstChain = q.dstChain
        /\ p.srcAddr = q.srcAddr /\ p.dstAddr = q.dstAddr /\ p.sender = q.sender
        /\ p.token = q.token /\ p.receiver = q.receiver
    BY <1>1, <1>2, <1>3, HashesAreInjective
  <1> QED
    BY <1>4, PacketFromFields DEF FromAleo

(* The digest of a packet screened as good is the one Bridge.sol makes of  *)
(* it for a YEA, and no other of its digests.                              *)
LEMMA EthereumDigests ==
    ASSUME NEW p, NEW q, FromAleo(p), FromAleo(q), NEW vote \in {"YEA", "NAY"}
    PROVE  hashEthereum(p, TRUE) =
             Keccak(<<SignedMessagePrefix, Keccak(<<hashInPacket(q), Byte(Vote[vote])>>)>>)
             <=> p = q /\ vote = "YEA"
  <1> DEFINE inner(h, n) == Keccak(<<h, Byte(n)>>)
             outer(h, n) == Keccak(<<SignedMessagePrefix, inner(h, n)>>)
  <1>1. Vote["YEA"] = 1 /\ Vote["NAY"] = 2
    BY DEF Vote
  <1>2. hashInPacket(q) = Keccak(packetBytes(q))
    BY DEF hashInPacket, packetBytes
  <1>3. hashEthereum(p, TRUE) = outer(Keccak(packetBytes(p)), 1)
    BY DEF hashEthereum, getEthBoolByte
  <1>4. \A g, h, m, n : outer(g, m) = outer(h, n) => g = h /\ m = n
    <2> SUFFICES ASSUME NEW g, NEW h, NEW m, NEW n, outer(g, m) = outer(h, n) PROVE g = h /\ m = n
      OBVIOUS
    <2>1. <<SignedMessagePrefix, inner(g, m)>> = <<SignedMessagePrefix, inner(h, n)>>
      BY HashesAreInjective
    <2>2. inner(g, m) = inner(h, n)
      <3> HIDE DEF inner
      <3> QED
        BY <2>1
    <2>3. <<g, Byte(m)>> = <<h, Byte(n)>>
      BY <2>2, HashesAreInjective
    <2>4. g = h /\ Byte(m) = Byte(n)
      BY <2>3
    <2> QED
      BY <2>4, HashesAreInjective
  <1> HIDE DEF outer
  <1>5. ASSUME outer(Keccak(packetBytes(p)), 1) = outer(Keccak(packetBytes(q)), Vote[vote])
        PROVE  p = q /\ vote = "YEA"
    <2>1. Keccak(packetBytes(p)) = Keccak(packetBytes(q)) /\ 1 = Vote[vote]
      BY <1>4, <1>5
    <2>2. packetBytes(p) = packetBytes(q)
      BY <2>1, HashesAreInjective
    <2>3. p = q
      BY <2>2, BytesOfPacket
    <2>4. vote # "NAY"
      BY <1>1, <2>1
    <2> QED
      BY <2>3, <2>4
  <1> QED
    BY <1>1, <1>2, <1>3, <1>5 DEF outer

(* A signature over one packet is a vote for that packet alone. *)
LEMMA SignatureIsCounted ==
    ASSUME NEW p, FromAleo(p), NEW q, FromAleo(q), NEW signer \in Attestors
    PROVE  CountedAs(q, [signer |-> signer, digest |-> hashEthereum(p, TRUE)])
             = IF q = p THEN "YEA" ELSE "revert"
  <1> DEFINE signature == [signer |-> signer, digest |-> hashEthereum(p, TRUE)]
             expected(vote) == Keccak(<<SignedMessagePrefix, Keccak(<<hashInPacket(q), Byte(Vote[vote])>>)>>)
  <1>1. "unknown signer" \notin Attestors
    BY SigningAssumption
  <1>2. \A vote \in {"YEA", "NAY"} : hashEthereum(p, TRUE) = expected(vote) <=> p = q /\ vote = "YEA"
    BY EthereumDigests
  <1>3. \A vote \in {"YEA", "NAY"} :
          _recover(q, signature, vote) = IF hashEthereum(p, TRUE) = expected(vote)
                                         THEN signer ELSE "unknown signer"
    BY DEF _recover
  <1> HIDE DEF expected
  <1>4. _recover(q, signature, "NAY") = "unknown signer"
    BY <1>2, <1>3
  <1>5. _recover(q, signature, "YEA") = IF q = p THEN signer ELSE "unknown signer"
    BY <1>2, <1>3
  <1> QED
    BY <1>1, <1>4, <1>5 DEF CountedAs

(* What is read of an answer, whole or cut, has the fields of a packet. *)
LEMMA AnswerIsPacket ==
    ASSUME NEW p \in ToEthereum, NEW answer \in {PacketText(p)} \cup Cuts(PacketText(p)),
           getPktWithSeq(answer) # Failed
    PROVE  FromAleo(getPktWithSeq(answer))
  <1>1. FromAleo(p)
    BY SigningAssumption DEF FromAleo
  <1>2. \/ getPktWithSeq(answer) = p
        \/ \E h : getPktWithSeq(answer) = [p EXCEPT !.height = h]
    BY PacketsReadBack DEF PacketReadBack
  <1>3. ASSUME NEW h PROVE FromAleo([p EXCEPT !.height = h])
    <2> DEFINE q == [p EXCEPT !.height = h]
    <2>1. q = [version  |-> p.version, sequence |-> p.sequence, height |-> h,
               amount |-> p.amount, srcChain |-> p.srcChain, dstChain |-> p.dstChain,
               srcAddr |-> p.srcAddr, dstAddr |-> p.dstAddr, sender |-> p.sender,
               token |-> p.token, receiver |-> p.receiver]
      BY <1>1, WithHeight
    <2> HIDE DEF q
    <2> QED
      BY <1>1, <2>1 DEF FromAleo, IsPacket, q
  <1> QED
    BY <1>1, <1>2, <1>3

(* The struct that the bridge program hashes, token by token. *)
StructLaidOut(T, p) ==
    LET A == AddrLen
    IN  /\ IsSequence(T) /\ Len(T) = 2 * A + 23
        /\ T[1] = Name("version") /\ T[2] = Val(p.version, "u8")
        /\ T[3] = Name("sequence") /\ T[4] = Val(p.sequence, "u64")
        /\ T[5] = Name("source") /\ T[6] = Name("chain_id") /\ T[7] = Val(p.srcChain, "u128")
        /\ T[8] = Name("addr")
        /\ \A i \in 1 .. A : T[8 + i] = ArrayText(p.srcAddr)[i]
        /\ T[A + 9] = Name("destination") /\ T[A + 10] = Name("chain_id")
        /\ T[A + 11] = Val(p.dstChain, "u128") /\ T[A + 12] = Name("addr")
        /\ T[A + 13] = p.dstAddr[1]
        /\ T[A + 14] = Name("message") /\ T[A + 15] = Name("sender_address")
        /\ \A i \in 1 .. A : T[A + 15 + i] = ArrayText(p.sender)[i]
        /\ T[2 * A + 16] = Name("dest_token_id") /\ T[2 * A + 17] = p.token[1]
        /\ T[2 * A + 18] = Name("amount") /\ T[2 * A + 19] = Val(p.amount, "u128")
        /\ T[2 * A + 20] = Name("receiver_address") /\ T[2 * A + 21] = p.receiver[1]
        /\ T[2 * A + 22] = Name("height") /\ T[2 * A + 23] = Val(p.height, "u64")

(* A sequence of eight. *)
LEMMA Eight ==
    ASSUME NEW a, NEW b, NEW c, NEW d, NEW e, NEW f, NEW g, NEW h
    PROVE  LET s == <<a, b, c, d, e, f, g, h>>
           IN  /\ IsSequence(s) /\ Len(s) = 8
               /\ s[1] = a /\ s[2] = b /\ s[3] = c /\ s[4] = d
               /\ s[5] = e /\ s[6] = f /\ s[7] = g /\ s[8] = h
  BY DEF IsSequence

(* There is one way to lay out the struct of a packet. *)
LEMMA OneStruct ==
    ASSUME NEW T, NEW U, NEW p, StructLaidOut(T, p), StructLaidOut(U, p)
    PROVE  T = U
  <1> DEFINE A == AddrLen
  <1>1. /\ A \in Nat /\ IsSequence(T) /\ IsSequence(U)
        /\ Len(T) = 2 * A + 23 /\ Len(U) = 2 * A + 23
    BY TextAssumption DEF StructLaidOut
  <1>2. /\ \A i \in 1 .. A : T[8 + i] = U[8 + i]
        /\ \A i \in 1 .. A : T[A + 15 + i] = U[A + 15 + i]
    BY DEF StructLaidOut
  <1>3. /\ T[1] = U[1] /\ T[2] = U[2] /\ T[3] = U[3] /\ T[4] = U[4]
        /\ T[5] = U[5] /\ T[6] = U[6] /\ T[7] = U[7] /\ T[8] = U[8]
    BY DEF StructLaidOut
  <1>4. /\ T[A + 9] = U[A + 9] /\ T[A + 10] = U[A + 10] /\ T[A + 11] = U[A + 11]
        /\ T[A + 12] = U[A + 12] /\ T[A + 13] = U[A + 13] /\ T[A + 14] = U[A + 14]
        /\ T[A + 15] = U[A + 15]
    BY DEF StructLaidOut
  <1>5. /\ T[2 * A + 16] = U[2 * A + 16] /\ T[2 * A + 17] = U[2 * A + 17]
        /\ T[2 * A + 18] = U[2 * A + 18] /\ T[2 * A + 19] = U[2 * A + 19]
        /\ T[2 * A + 20] = U[2 * A + 20] /\ T[2 * A + 21] = U[2 * A + 21]
        /\ T[2 * A + 22] = U[2 * A + 22] /\ T[2 * A + 23] = U[2 * A + 23]
    BY DEF StructLaidOut
  <1> HIDE DEF A
  <1>6. ASSUME NEW i \in 1 .. 2 * A + 23 PROVE T[i] = U[i]
    <2>1. CASE i <= 8
      BY <1>3, <2>1
    <2>2. CASE 8 < i /\ i <= A + 8
      <3>1. i - 8 \in 1 .. A /\ i = 8 + (i - 8)
        BY <1>1, <2>2
      <3> QED
        BY <1>2, <3>1
    <2>3. CASE A + 8 < i /\ i <= A + 15
      BY <1>1, <1>4, <2>3
    <2>4. CASE A + 15 < i /\ i <= 2 * A + 15
      <3>1. i - (A + 15) \in 1 .. A /\ i = A + 15 + (i - (A + 15))
        BY <1>1, <2>4
      <3> QED
        BY <1>2, <3>1
    <2>5. CASE 2 * A + 15 < i
      BY <1>1, <1>5, <2>5
    <2> QED
      BY <1>1, <2>1, <2>2, <2>3, <2>4, <2>5
  <1> QED
    BY <1>1, <1>6 DEF IsSequence

(* Two addresses with the same array are the same. *)
LEMMA ArrayIsAddress ==
    ASSUME NEW a, NEW b, a = [i \in 1 .. EthLen |-> a[i]], b = [i \in 1 .. EthLen |-> b[i]],
           \A i \in 1 .. AddrLen : ArrayText(a)[i] = ArrayText(b)[i]
    PROVE  a = b
  <1>1. \A i \in 1 .. EthLen : AddrLen - EthLen + i \in 1 .. AddrLen
    BY TextAssumption
  <1>2. \A i \in 1 .. EthLen : ArrayText(a)[AddrLen - EthLen + i].value
                                = ArrayText(b)[AddrLen - EthLen + i].value
    BY <1>1
  <1>3. /\ \A i \in 1 .. EthLen : ArrayText(a)[AddrLen - EthLen + i].value = a[i]
        /\ \A i \in 1 .. EthLen : ArrayText(b)[AddrLen - EthLen + i].value = b[i]
    BY PaddedAddress
  <1>4. \A i \in 1 .. EthLen : a[i] = b[i]
    BY <1>2, <1>3
  <1> QED
    BY <1>4

(* A value stands for one number. *)
LEMMA ValsAreInjective == \A m, n, t : Val(m, t) = Val(n, t) => m = n
  BY DEF Val

(* A struct is that of one packet to Aleo. *)
LEMMA StructOfPacket ==
    ASSUME NEW T, NEW p, NEW q, StructLaidOut(T, p), StructLaidOut(T, q),
           ToAleoPacket(p), ToAleoPacket(q)
    PROVE  p = q
  <1> DEFINE A == AddrLen
  <1>1. /\ Val(p.version, "u8") = Val(q.version, "u8") /\ Val(p.sequence, "u64") = Val(q.sequence, "u64")
        /\ Val(p.srcChain, "u128") = Val(q.srcChain, "u128")
        /\ Val(p.dstChain, "u128") = Val(q.dstChain, "u128")
        /\ Val(p.amount, "u128") = Val(q.amount, "u128") /\ Val(p.height, "u64") = Val(q.height, "u64")
    BY DEF StructLaidOut
  <1>2. /\ p.version = q.version /\ p.sequence = q.sequence /\ p.height = q.height
        /\ p.amount = q.amount /\ p.srcChain = q.srcChain /\ p.dstChain = q.dstChain
    BY <1>1, ValsAreInjective
  <1>3. /\ \A i \in 1 .. A : ArrayText(p.srcAddr)[i] = ArrayText(q.srcAddr)[i]
        /\ \A i \in 1 .. A : ArrayText(p.sender)[i] = ArrayText(q.sender)[i]
    BY DEF StructLaidOut
  <1>4. /\ p.srcAddr = [i \in 1 .. EthLen |-> p.srcAddr[i]] /\ p.sender = [i \in 1 .. EthLen |-> p.sender[i]]
        /\ q.srcAddr = [i \in 1 .. EthLen |-> q.srcAddr[i]] /\ q.sender = [i \in 1 .. EthLen |-> q.sender[i]]
    BY DEF ToAleoPacket, IsPacket
  <1>5. p.srcAddr = q.srcAddr /\ p.sender = q.sender
    <2>1. p.srcAddr = q.srcAddr
      <3> DEFINE a == p.srcAddr b == q.srcAddr
      <3>1. /\ a = [i \in 1 .. EthLen |-> a[i]] /\ b = [i \in 1 .. EthLen |-> b[i]]
            /\ \A i \in 1 .. AddrLen : ArrayText(a)[i] = ArrayText(b)[i]
        BY <1>3, <1>4
      <3> HIDE DEF a, b
      <3>2. a = b
        BY <3>1, ArrayIsAddress
      <3> QED
        BY <3>2 DEF a, b
    <2>2. p.sender = q.sender
      <3> DEFINE a == p.sender b == q.sender
      <3>1. /\ a = [i \in 1 .. EthLen |-> a[i]] /\ b = [i \in 1 .. EthLen |-> b[i]]
            /\ \A i \in 1 .. AddrLen : ArrayText(a)[i] = ArrayText(b)[i]
        BY <1>3, <1>4
      <3> HIDE DEF a, b
      <3>2. a = b
        BY <3>1, ArrayIsAddress
      <3> QED
        BY <3>2 DEF a, b
    <2> QED
      BY <2>1, <2>2
  <1>6. p.dstAddr[1] = q.dstAddr[1] /\ p.token[1] = q.token[1] /\ p.receiver[1] = q.receiver[1]
    BY DEF StructLaidOut
  <1>7. /\ p.dstAddr = <<p.dstAddr[1]>> /\ p.token = <<p.token[1]>> /\ p.receiver = <<p.receiver[1]>>
        /\ q.dstAddr = <<q.dstAddr[1]>> /\ q.token = <<q.token[1]>> /\ q.receiver = <<q.receiver[1]>>
    BY DEF ToAleoPacket, IsPacket
  <1>8. p.dstAddr = q.dstAddr /\ p.token = q.token /\ p.receiver = q.receiver
    BY <1>6, <1>7
  <1> QED
    BY <1>2, <1>5, <1>8, PacketFromFields DEF ToAleoPacket

(* What the signing service hashes is the struct of the packet. *)
LEMMA HashedStruct ==
    ASSUME NEW p, ToAleoPacket(p)
    PROVE  StructLaidOut(constructAleoPacket(p), p)
  <1> DEFINE A == AddrLen
             a == <<Name("version"), Val(p.version, "u8"), Name("sequence"), Val(p.sequence, "u64"),
                    Name("source"), Name("chain_id"), Val(p.srcChain, "u128"), Name("addr")>>
             b == ArrayText(p.srcAddr)
             c == <<Name("destination"), Name("chain_id"), Val(p.dstChain, "u128"), Name("addr")>>
             d == p.dstAddr
             e == <<Name("message"), Name("sender_address")>>
             f == ArrayText(p.sender)
             u == a \o b \o c \o d \o e \o f
             g == <<Name("dest_token_id")>>
             h == p.token
             k == <<Name("amount"), Val(p.amount, "u128"), Name("receiver_address")>>
             l == p.receiver
             m == <<Name("height"), Val(p.height, "u64")>>
             T == u \o g \o h \o k \o l \o m
  <1>1. A \in Nat
    BY TextAssumption
  <1>2. /\ IsSequence(a) /\ Len(a) = 8
        /\ a[1] = Name("version") /\ a[2] = Val(p.version, "u8") /\ a[3] = Name("sequence")
        /\ a[4] = Val(p.sequence, "u64") /\ a[5] = Name("source") /\ a[6] = Name("chain_id")
        /\ a[7] = Val(p.srcChain, "u128") /\ a[8] = Name("addr")
    BY Eight
  <1>3. IsSequence(b) /\ Len(b) = A /\ IsSequence(f) /\ Len(f) = A
    BY PaddedAddress
  <1>4. /\ IsSequence(c) /\ Len(c) = 4 /\ c[1] = Name("destination") /\ c[2] = Name("chain_id")
        /\ c[3] = Val(p.dstChain, "u128") /\ c[4] = Name("addr")
    BY Four
  <1>5. /\ IsSequence(d) /\ Len(d) = 1 /\ IsSequence(h) /\ Len(h) = 1
        /\ IsSequence(l) /\ Len(l) = 1
    <2>1. d = <<d[1]>> /\ h = <<h[1]>> /\ l = <<l[1]>>
      BY DEF ToAleoPacket, IsPacket
    <2> QED
      BY <2>1, OneToken
  <1>6. IsSequence(e) /\ Len(e) = 2 /\ e[1] = Name("message") /\ e[2] = Name("sender_address")
    BY Two
  <1>7. IsSequence(g) /\ Len(g) = 1 /\ g[1] = Name("dest_token_id")
    BY Single
  <1>8. /\ IsSequence(k) /\ Len(k) = 3
        /\ k[1] = Name("amount") /\ k[2] = Val(p.amount, "u128") /\ k[3] = Name("receiver_address")
    BY Three
  <1>9. IsSequence(m) /\ Len(m) = 2 /\ m[1] = Name("height") /\ m[2] = Val(p.height, "u64")
    BY Two
  <1>10. constructAleoPacket(p) = T
    BY DEF constructAleoPacket, constructEthAddressForAleoParameter, ArrayText
  <1> HIDE DEF a, b, c, d, e, f, g, h, k, l, m
  <1>11. /\ IsSequence(u)
         /\ Len(u) = Len(a) + Len(b) + Len(c) + Len(d) + Len(e) + Len(f)
         /\ \A i \in 1 .. Len(a) : u[i] = a[i]
         /\ \A i \in 1 .. Len(b) : u[Len(a) + i] = b[i]
         /\ \A i \in 1 .. Len(c) : u[Len(a) + Len(b) + i] = c[i]
         /\ \A i \in 1 .. Len(d) : u[Len(a) + Len(b) + Len(c) + i] = d[i]
         /\ \A i \in 1 .. Len(e) : u[Len(a) + Len(b) + Len(c) + Len(d) + i] = e[i]
         /\ \A i \in 1 .. Len(f) : u[Len(a) + Len(b) + Len(c) + Len(d) + Len(e) + i] = f[i]
    <2>1. /\ IsSequence(a) /\ IsSequence(b) /\ IsSequence(c)
          /\ IsSequence(d) /\ IsSequence(e) /\ IsSequence(f)
      BY <1>2, <1>3, <1>4, <1>5, <1>6
    <2> QED
      BY <2>1, SixParts
  <1>12. Len(u) = 2 * A + 15
    BY <1>1, <1>2, <1>3, <1>4, <1>5, <1>6, <1>11
  <1> HIDE DEF u
  <1>13. /\ IsSequence(T)
         /\ Len(T) = Len(u) + Len(g) + Len(h) + Len(k) + Len(l) + Len(m)
         /\ \A i \in 1 .. Len(u) : T[i] = u[i]
         /\ \A i \in 1 .. Len(g) : T[Len(u) + i] = g[i]
         /\ \A i \in 1 .. Len(h) : T[Len(u) + Len(g) + i] = h[i]
         /\ \A i \in 1 .. Len(k) : T[Len(u) + Len(g) + Len(h) + i] = k[i]
         /\ \A i \in 1 .. Len(l) : T[Len(u) + Len(g) + Len(h) + Len(k) + i] = l[i]
         /\ \A i \in 1 .. Len(m) : T[Len(u) + Len(g) + Len(h) + Len(k) + Len(l) + i] = m[i]
    <2>1. /\ IsSequence(u) /\ IsSequence(g) /\ IsSequence(h)
          /\ IsSequence(k) /\ IsSequence(l) /\ IsSequence(m)
      BY <1>5, <1>7, <1>8, <1>9, <1>11
    <2> QED
      BY <2>1, SixParts
  <1> HIDE DEF T
  <1>14. Len(T) = 2 * A + 23
    BY <1>1, <1>5, <1>7, <1>8, <1>9, <1>12, <1>13
  <1>15. \A i \in 1 .. 2 * A + 15 : T[i] = u[i]
    BY <1>12, <1>13
  <1>16. /\ T[1] = a[1] /\ T[2] = a[2] /\ T[3] = a[3] /\ T[4] = a[4]
         /\ T[5] = a[5] /\ T[6] = a[6] /\ T[7] = a[7] /\ T[8] = a[8]
    <2>1. \A i \in 1 .. 8 : u[i] = a[i]
      BY <1>2, <1>11
    <2>2. \A i \in 1 .. 8 : i \in 1 .. 2 * A + 15
      BY <1>1
    <2> QED
      BY <1>15, <2>1, <2>2
  <1>17. \A i \in 1 .. A : T[8 + i] = b[i]
    <2>1. \A i \in 1 .. A : u[8 + i] = b[i]
      BY <1>2, <1>3, <1>11
    <2>2. \A i \in 1 .. A : 8 + i \in 1 .. 2 * A + 15
      BY <1>1
    <2> QED
      BY <1>15, <2>1, <2>2
  <1>18. /\ T[A + 9] = c[1] /\ T[A + 10] = c[2] /\ T[A + 11] = c[3] /\ T[A + 12] = c[4]
    <2>1. Len(a) + Len(b) = A + 8
      BY <1>1, <1>2, <1>3
    <2>2. \A i \in 1 .. 4 : u[A + 8 + i] = c[i]
      BY <1>4, <1>11, <2>1
    <2>3. \A i \in 1 .. 4 : A + 8 + i \in 1 .. 2 * A + 15
      BY <1>1
    <2>4. \A i \in 1 .. 4 : T[A + 8 + i] = c[i]
      BY <1>15, <2>2, <2>3
    <2>5. /\ A + 8 + 1 = A + 9 /\ A + 8 + 2 = A + 10 /\ A + 8 + 3 = A + 11 /\ A + 8 + 4 = A + 12
      BY <1>1
    <2>6. /\ T[A + 8 + 1] = c[1] /\ T[A + 8 + 2] = c[2] /\ T[A + 8 + 3] = c[3] /\ T[A + 8 + 4] = c[4]
      BY <2>4
    <2> QED
      BY <2>5, <2>6
  <1>19. T[A + 13] = d[1]
    <2>1. Len(a) + Len(b) + Len(c) = A + 12 /\ A + 12 + 1 = A + 13 /\ A + 13 \in 1 .. 2 * A + 15
      BY <1>1, <1>2, <1>3, <1>4
    <2>2. u[A + 12 + 1] = d[1]
      BY <1>5, <1>11, <2>1
    <2> QED
      BY <1>15, <2>1, <2>2
  <1>20. T[A + 14] = e[1] /\ T[A + 15] = e[2]
    <2>1. /\ Len(a) + Len(b) + Len(c) + Len(d) = A + 13
          /\ A + 13 + 1 = A + 14 /\ A + 14 \in 1 .. 2 * A + 15
          /\ A + 13 + 2 = A + 15 /\ A + 15 \in 1 .. 2 * A + 15
      BY <1>1, <1>2, <1>3, <1>4, <1>5
    <2>2. u[A + 13 + 1] = e[1] /\ u[A + 13 + 2] = e[2]
      BY <1>6, <1>11, <2>1
    <2> QED
      BY <1>15, <2>1, <2>2
  <1>21. \A i \in 1 .. A : T[A + 15 + i] = f[i]
    <2>1. Len(a) + Len(b) + Len(c) + Len(d) + Len(e) = A + 15
      BY <1>1, <1>2, <1>3, <1>4, <1>5, <1>6
    <2>2. \A i \in 1 .. A : u[A + 15 + i] = f[i]
      BY <1>3, <1>11, <2>1
    <2>3. \A i \in 1 .. A : A + 15 + i \in 1 .. 2 * A + 15
      BY <1>1
    <2> QED
      BY <1>15, <2>2, <2>3
  <1>22. T[2 * A + 16] = g[1] /\ T[2 * A + 17] = h[1]
    <2>1. /\ Len(u) + 1 = 2 * A + 16 /\ Len(u) + Len(g) + 1 = 2 * A + 17
      BY <1>1, <1>7, <1>12
    <2>2. T[Len(u) + 1] = g[1] /\ T[Len(u) + Len(g) + 1] = h[1]
      BY <1>5, <1>7, <1>13
    <2> QED
      BY <2>1, <2>2
  <1>23. T[2 * A + 18] = k[1] /\ T[2 * A + 19] = k[2] /\ T[2 * A + 20] = k[3]
    <2>1. /\ Len(u) + Len(g) + Len(h) = 2 * A + 17
          /\ 2 * A + 17 + 1 = 2 * A + 18 /\ 2 * A + 17 + 2 = 2 * A + 19 /\ 2 * A + 17 + 3 = 2 * A + 20
      BY <1>1, <1>5, <1>7, <1>12
    <2>2. \A i \in 1 .. 3 : T[2 * A + 17 + i] = k[i]
      BY <1>8, <1>13, <2>1
    <2>3. T[2 * A + 17 + 1] = k[1] /\ T[2 * A + 17 + 2] = k[2] /\ T[2 * A + 17 + 3] = k[3]
      BY <2>2
    <2> QED
      BY <2>1, <2>3
  <1>24. T[2 * A + 21] = l[1]
    <2>1. Len(u) + Len(g) + Len(h) + Len(k) = 2 * A + 20 /\ 2 * A + 20 + 1 = 2 * A + 21
      BY <1>1, <1>5, <1>7, <1>8, <1>12
    <2>2. T[2 * A + 20 + 1] = l[1]
      BY <1>5, <1>13, <2>1
    <2> QED
      BY <2>1, <2>2
  <1>25. T[2 * A + 22] = m[1] /\ T[2 * A + 23] = m[2]
    <2>1. /\ Len(u) + Len(g) + Len(h) + Len(k) + Len(l) = 2 * A + 21
          /\ 2 * A + 21 + 1 = 2 * A + 22 /\ 2 * A + 21 + 2 = 2 * A + 23
      BY <1>1, <1>5, <1>7, <1>8, <1>12
    <2>2. T[2 * A + 21 + 1] = m[1] /\ T[2 * A + 21 + 2] = m[2]
      BY <1>9, <1>13, <2>1
    <2> QED
      BY <2>1, <2>2
  <1>26. IsSequence(T)
    BY <1>13
  <1>27. StructLaidOut(T, p)
    BY <1>2, <1>4, <1>6, <1>7, <1>8, <1>9, <1>14, <1>16, <1>17, <1>18, <1>19, <1>20, <1>21,
       <1>22, <1>23, <1>24, <1>25, <1>26 DEF StructLaidOut, b, d, f, h, l
  <1> QED
    BY <1>10, <1>27

(* struct Message, as the bridge program nests it. *)
LEMMA StructMessage ==
    ASSUME NEW p, ToAleoPacket(p)
    PROVE  LET A == AddrLen
               t == <<Name("sender_address")>> \o ArrayText(p.sender)
                    \o <<Name("dest_token_id")>> \o p.token
                    \o <<Name("amount"), Val(p.amount, "u128")>>
                    \o <<Name("receiver_address")>> \o p.receiver
           IN  /\ IsSequence(t) /\ Len(t) = A + 7
               /\ t[1] = Name("sender_address")
               /\ \A i \in 1 .. A : t[1 + i] = ArrayText(p.sender)[i]
               /\ t[A + 2] = Name("dest_token_id") /\ t[A + 3] = p.token[1]
               /\ t[A + 4] = Name("amount") /\ t[A + 5] = Val(p.amount, "u128")
               /\ t[A + 6] = Name("receiver_address") /\ t[A + 7] = p.receiver[1]
  <1> DEFINE A == AddrLen
             a == <<Name("sender_address")>>
             b == ArrayText(p.sender)
             c == <<Name("dest_token_id")>>
             d == p.token
             e == <<Name("amount"), Val(p.amount, "u128")>>
             f == <<Name("receiver_address")>>
             u == a \o b \o c \o d \o e \o f
             g == p.receiver
             t == u \o g
  <1>1. A \in Nat
    BY TextAssumption
  <1>2. /\ IsSequence(a) /\ Len(a) = 1 /\ a[1] = Name("sender_address")
        /\ IsSequence(c) /\ Len(c) = 1 /\ c[1] = Name("dest_token_id")
        /\ IsSequence(f) /\ Len(f) = 1 /\ f[1] = Name("receiver_address")
    BY Single
  <1>3. IsSequence(b) /\ Len(b) = A
    BY PaddedAddress
  <1>4. IsSequence(d) /\ Len(d) = 1 /\ IsSequence(g) /\ Len(g) = 1
    <2>1. d = <<d[1]>> /\ g = <<g[1]>>
      BY DEF ToAleoPacket, IsPacket
    <2> QED
      BY <2>1, OneToken
  <1>5. IsSequence(e) /\ Len(e) = 2 /\ e[1] = Name("amount") /\ e[2] = Val(p.amount, "u128")
    BY Two
  <1> HIDE DEF a, b, c, d, e, f, g
  <1>6. /\ IsSequence(u)
        /\ Len(u) = Len(a) + Len(b) + Len(c) + Len(d) + Len(e) + Len(f)
        /\ \A i \in 1 .. Len(a) : u[i] = a[i]
        /\ \A i \in 1 .. Len(b) : u[Len(a) + i] = b[i]
        /\ \A i \in 1 .. Len(c) : u[Len(a) + Len(b) + i] = c[i]
        /\ \A i \in 1 .. Len(d) : u[Len(a) + Len(b) + Len(c) + i] = d[i]
        /\ \A i \in 1 .. Len(e) : u[Len(a) + Len(b) + Len(c) + Len(d) + i] = e[i]
        /\ \A i \in 1 .. Len(f) : u[Len(a) + Len(b) + Len(c) + Len(d) + Len(e) + i] = f[i]
    <2>1. /\ IsSequence(a) /\ IsSequence(b) /\ IsSequence(c)
          /\ IsSequence(d) /\ IsSequence(e) /\ IsSequence(f)
      BY <1>2, <1>3, <1>4, <1>5
    <2> QED
      BY <2>1, SixParts
  <1>7. Len(u) = A + 6
    BY <1>1, <1>2, <1>3, <1>4, <1>5, <1>6
  <1> HIDE DEF u
  <1>8. /\ IsSequence(t) /\ Len(t) = Len(u) + Len(g)
        /\ \A i \in 1 .. Len(u) : t[i] = u[i]
        /\ \A i \in 1 .. Len(g) : t[Len(u) + i] = g[i]
    <2>1. IsSequence(u) /\ IsSequence(g)
      BY <1>4, <1>6
    <2> QED
      BY <2>1, Concatenation
  <1> HIDE DEF t
  <1>9. Len(t) = A + 7 /\ t[A + 7] = g[1]
    <2>1. Len(u) + Len(g) = A + 7 /\ Len(u) + 1 = A + 7
      BY <1>1, <1>4, <1>7
    <2>2. t[Len(u) + 1] = g[1]
      BY <1>4, <1>8
    <2> QED
      BY <1>8, <2>1, <2>2
  <1>10. \A i \in 1 .. A + 6 : t[i] = u[i]
    BY <1>7, <1>8
  <1>11. t[1] = a[1] /\ \A i \in 1 .. A : t[1 + i] = b[i]
    <2>1. u[1] = a[1] /\ \A i \in 1 .. A : u[1 + i] = b[i]
      BY <1>2, <1>3, <1>6
    <2>2. 1 \in 1 .. A + 6 /\ \A i \in 1 .. A : 1 + i \in 1 .. A + 6
      BY <1>1
    <2> QED
      BY <1>10, <2>1, <2>2
  <1>12. t[A + 2] = c[1] /\ t[A + 3] = d[1]
    <2>1. /\ Len(a) + Len(b) + 1 = A + 2 /\ A + 2 \in 1 .. A + 6
          /\ Len(a) + Len(b) + Len(c) + 1 = A + 3 /\ A + 3 \in 1 .. A + 6
      BY <1>1, <1>2, <1>3
    <2>2. u[Len(a) + Len(b) + 1] = c[1] /\ u[Len(a) + Len(b) + Len(c) + 1] = d[1]
      BY <1>2, <1>4, <1>6
    <2> QED
      BY <1>10, <2>1, <2>2
  <1>13. t[A + 4] = e[1] /\ t[A + 5] = e[2]
    <2>1. /\ Len(a) + Len(b) + Len(c) + Len(d) = A + 3
          /\ A + 3 + 1 = A + 4 /\ A + 4 \in 1 .. A + 6
          /\ A + 3 + 2 = A + 5 /\ A + 5 \in 1 .. A + 6
      BY <1>1, <1>2, <1>3, <1>4
    <2>2. u[A + 3 + 1] = e[1] /\ u[A + 3 + 2] = e[2]
      BY <1>5, <1>6, <2>1
    <2> QED
      BY <1>10, <2>1, <2>2
  <1>14. t[A + 6] = f[1]
    <2>1. /\ Len(a) + Len(b) + Len(c) + Len(d) + Len(e) = A + 5
          /\ A + 5 + 1 = A + 6 /\ A + 6 \in 1 .. A + 6
      BY <1>1, <1>2, <1>3, <1>4, <1>5
    <2>2. u[A + 5 + 1] = f[1]
      BY <1>2, <1>6, <2>1
    <2> QED
      BY <1>10, <2>1, <2>2
  <1> QED
    BY <1>2, <1>5, <1>8, <1>9, <1>11, <1>12, <1>13, <1>14 DEF a, b, c, d, e, f, g, u, t

(* What the Aleo bridge hashes is the struct of the packet. *)
LEMMA RecomputedStruct ==
    ASSUME NEW p, ToAleoPacket(p)
    PROVE  StructLaidOut(InPacket(p), p)
  <1> DEFINE A == AddrLen
             a == <<Name("version"), Val(p.version, "u8"), Name("sequence"), Val(p.sequence, "u64")>>
             b == <<Name("source")>>
             c1 == <<Name("chain_id"), Val(p.srcChain, "u128"), Name("addr")>>
             c == c1 \o ArrayText(p.srcAddr)
             d == <<Name("destination")>>
             e1 == <<Name("chain_id"), Val(p.dstChain, "u128"), Name("addr")>>
             e == e1 \o p.dstAddr
             f == <<Name("message")>>
             u == a \o b \o c \o d \o e \o f
             g == <<Name("sender_address")>> \o ArrayText(p.sender)
                  \o <<Name("dest_token_id")>> \o p.token
                  \o <<Name("amount"), Val(p.amount, "u128")>>
                  \o <<Name("receiver_address")>> \o p.receiver
             h == <<Name("height"), Val(p.height, "u64")>>
             w == u \o g
             T == w \o h
  <1>1. A \in Nat
    BY TextAssumption
  <1>2. /\ IsSequence(a) /\ Len(a) = 4 /\ a[1] = Name("version") /\ a[2] = Val(p.version, "u8")
        /\ a[3] = Name("sequence") /\ a[4] = Val(p.sequence, "u64")
    BY Four
  <1>3. /\ IsSequence(b) /\ Len(b) = 1 /\ b[1] = Name("source")
        /\ IsSequence(d) /\ Len(d) = 1 /\ d[1] = Name("destination")
        /\ IsSequence(f) /\ Len(f) = 1 /\ f[1] = Name("message")
    BY Single
  <1>4. /\ IsSequence(c) /\ Len(c) = A + 3
        /\ c[1] = Name("chain_id") /\ c[2] = Val(p.srcChain, "u128") /\ c[3] = Name("addr")
        /\ \A i \in 1 .. A : c[3 + i] = ArrayText(p.srcAddr)[i]
    <2> DEFINE s == ArrayText(p.srcAddr)
    <2>1. IsSequence(s) /\ Len(s) = A
      BY PaddedAddress
    <2>2. /\ IsSequence(c1) /\ Len(c1) = 3
          /\ c1[1] = Name("chain_id") /\ c1[2] = Val(p.srcChain, "u128") /\ c1[3] = Name("addr")
      BY Three
    <2> HIDE DEF c1, s
    <2>3. /\ IsSequence(c1 \o s) /\ Len(c1 \o s) = Len(c1) + Len(s)
          /\ \A i \in 1 .. Len(c1) : (c1 \o s)[i] = c1[i]
          /\ \A i \in 1 .. Len(s) : (c1 \o s)[Len(c1) + i] = s[i]
      <3>1. IsSequence(c1) /\ IsSequence(s)
        BY <2>1, <2>2
      <3> QED
        BY <3>1, Concatenation
    <2>4. c = c1 \o s
      BY DEF s
    <2> HIDE DEF c
    <2>5. Len(c) = A + 3 /\ IsSequence(c)
      BY <1>1, <2>1, <2>2, <2>3, <2>4
    <2>6. c[1] = c1[1] /\ c[2] = c1[2] /\ c[3] = c1[3]
      BY <2>2, <2>3, <2>4
    <2>7. \A i \in 1 .. A : c[3 + i] = s[i]
      BY <2>1, <2>2, <2>3, <2>4
    <2> QED
      BY <2>2, <2>5, <2>6, <2>7 DEF s
  <1>5. /\ IsSequence(e) /\ Len(e) = 4
        /\ e[1] = Name("chain_id") /\ e[2] = Val(p.dstChain, "u128") /\ e[3] = Name("addr")
        /\ e[4] = p.dstAddr[1]
    <2> DEFINE s == p.dstAddr
    <2>1. IsSequence(s) /\ Len(s) = 1
      <3>1. s = <<s[1]>>
        BY DEF ToAleoPacket, IsPacket
      <3> QED
        BY <3>1, OneToken
    <2>2. /\ IsSequence(e1) /\ Len(e1) = 3
          /\ e1[1] = Name("chain_id") /\ e1[2] = Val(p.dstChain, "u128") /\ e1[3] = Name("addr")
      BY Three
    <2> HIDE DEF e1, s
    <2>3. /\ IsSequence(e1 \o s) /\ Len(e1 \o s) = Len(e1) + Len(s)
          /\ \A i \in 1 .. Len(e1) : (e1 \o s)[i] = e1[i]
          /\ \A i \in 1 .. Len(s) : (e1 \o s)[Len(e1) + i] = s[i]
      <3>1. IsSequence(e1) /\ IsSequence(s)
        BY <2>1, <2>2
      <3> QED
        BY <3>1, Concatenation
    <2>4. e = e1 \o s
      BY DEF s
    <2> HIDE DEF e
    <2>5. Len(e) = 4 /\ IsSequence(e)
      BY <2>1, <2>2, <2>3, <2>4
    <2>6. e[1] = e1[1] /\ e[2] = e1[2] /\ e[3] = e1[3]
      BY <2>2, <2>3, <2>4
    <2>7. e[4] = s[1]
      <3>1. \A i \in 1 .. 1 : e[3 + i] = s[i]
        BY <2>1, <2>2, <2>3, <2>4
      <3>2. e[3 + 1] = s[1]
        BY <3>1
      <3> QED
        BY <3>2
    <2> QED
      BY <2>2, <2>5, <2>6, <2>7 DEF s
  <1>6. /\ IsSequence(g) /\ Len(g) = A + 7
        /\ g[1] = Name("sender_address")
        /\ \A i \in 1 .. A : g[1 + i] = ArrayText(p.sender)[i]
        /\ g[A + 2] = Name("dest_token_id") /\ g[A + 3] = p.token[1]
        /\ g[A + 4] = Name("amount") /\ g[A + 5] = Val(p.amount, "u128")
        /\ g[A + 6] = Name("receiver_address") /\ g[A + 7] = p.receiver[1]
    BY StructMessage
  <1>7. IsSequence(h) /\ Len(h) = 2 /\ h[1] = Name("height") /\ h[2] = Val(p.height, "u64")
    BY Two
  <1>8. InPacket(p) = T
    BY DEF InPacket
  <1> HIDE DEF a, b, c, d, e, f, g, h
  <1>9. /\ IsSequence(u)
        /\ Len(u) = Len(a) + Len(b) + Len(c) + Len(d) + Len(e) + Len(f)
        /\ \A i \in 1 .. Len(a) : u[i] = a[i]
        /\ \A i \in 1 .. Len(b) : u[Len(a) + i] = b[i]
        /\ \A i \in 1 .. Len(c) : u[Len(a) + Len(b) + i] = c[i]
        /\ \A i \in 1 .. Len(d) : u[Len(a) + Len(b) + Len(c) + i] = d[i]
        /\ \A i \in 1 .. Len(e) : u[Len(a) + Len(b) + Len(c) + Len(d) + i] = e[i]
        /\ \A i \in 1 .. Len(f) : u[Len(a) + Len(b) + Len(c) + Len(d) + Len(e) + i] = f[i]
    <2>1. /\ IsSequence(a) /\ IsSequence(b) /\ IsSequence(c)
          /\ IsSequence(d) /\ IsSequence(e) /\ IsSequence(f)
      BY <1>2, <1>3, <1>4, <1>5
    <2> QED
      BY <2>1, SixParts
  <1>10. Len(u) = A + 14
    BY <1>1, <1>2, <1>3, <1>4, <1>5, <1>9
  <1> HIDE DEF u
  <1>11. /\ IsSequence(w) /\ Len(w) = Len(u) + Len(g)
         /\ \A i \in 1 .. Len(u) : w[i] = u[i]
         /\ \A i \in 1 .. Len(g) : w[Len(u) + i] = g[i]
    <2>1. IsSequence(u) /\ IsSequence(g)
      BY <1>6, <1>9
    <2> QED
      BY <2>1, Concatenation
  <1>12. Len(w) = 2 * A + 21
    BY <1>1, <1>6, <1>10, <1>11
  <1> HIDE DEF w
  <1>13. /\ IsSequence(T) /\ Len(T) = Len(w) + Len(h)
         /\ \A i \in 1 .. Len(w) : T[i] = w[i]
         /\ \A i \in 1 .. Len(h) : T[Len(w) + i] = h[i]
    <2>1. IsSequence(w) /\ IsSequence(h)
      BY <1>7, <1>11
    <2> QED
      BY <2>1, Concatenation
  <1> HIDE DEF T
  <1>14. Len(T) = 2 * A + 23 /\ T[2 * A + 22] = h[1] /\ T[2 * A + 23] = h[2]
    <2>1. /\ Len(w) + Len(h) = 2 * A + 23 /\ Len(w) + 1 = 2 * A + 22 /\ Len(w) + 2 = 2 * A + 23
      BY <1>1, <1>7, <1>12
    <2>2. T[Len(w) + 1] = h[1] /\ T[Len(w) + 2] = h[2]
      BY <1>7, <1>13
    <2> QED
      BY <1>13, <2>1, <2>2
  <1>15. \A i \in 1 .. A + 14 : T[i] = u[i]
    <2>1. \A i \in 1 .. A + 14 : i \in 1 .. Len(u) /\ i \in 1 .. Len(w)
      BY <1>1, <1>10, <1>12
    <2> QED
      BY <1>11, <1>13, <2>1
  <1>16. \A i \in 1 .. A + 7 : T[A + 14 + i] = g[i]
    <2>1. \A i \in 1 .. A + 7 : i \in 1 .. Len(g) /\ A + 14 + i \in 1 .. Len(w)
      BY <1>1, <1>6, <1>12
    <2>2. \A i \in 1 .. A + 7 : w[A + 14 + i] = g[i]
      BY <1>10, <1>11, <2>1
    <2> QED
      BY <1>13, <2>1, <2>2
  <1>17. T[1] = a[1] /\ T[2] = a[2] /\ T[3] = a[3] /\ T[4] = a[4] /\ T[5] = b[1]
    <2>1. \A i \in 1 .. 4 : u[i] = a[i]
      BY <1>2, <1>9
    <2>2. u[4 + 1] = b[1]
      BY <1>2, <1>3, <1>9
    <2>3. \A i \in 1 .. 5 : i \in 1 .. A + 14
      BY <1>1
    <2>4. 4 + 1 = 5
      OBVIOUS
    <2> QED
      BY <1>15, <2>1, <2>2, <2>3, <2>4
  <1>18. \A i \in 1 .. A + 3 : T[5 + i] = c[i]
    <2>1. Len(a) + Len(b) = 5
      BY <1>2, <1>3
    <2>2. \A i \in 1 .. A + 3 : u[5 + i] = c[i]
      BY <1>4, <1>9, <2>1
    <2>3. \A i \in 1 .. A + 3 : 5 + i \in 1 .. A + 14
      BY <1>1
    <2> QED
      BY <1>15, <2>2, <2>3
  <1>19. /\ T[6] = c[1] /\ T[7] = c[2] /\ T[8] = c[3]
         /\ \A i \in 1 .. A : T[8 + i] = ArrayText(p.srcAddr)[i]
    <2>1. /\ 1 \in 1 .. A + 3 /\ 2 \in 1 .. A + 3 /\ 3 \in 1 .. A + 3
          /\ 5 + 1 = 6 /\ 5 + 2 = 7 /\ 5 + 3 = 8
          /\ \A i \in 1 .. A : 3 + i \in 1 .. A + 3 /\ 5 + (3 + i) = 8 + i
      BY <1>1
    <2> QED
      BY <1>4, <1>18, <2>1
  <1>20. T[A + 9] = d[1]
    <2>1. Len(a) + Len(b) + Len(c) = A + 8 /\ A + 8 + 1 = A + 9 /\ A + 9 \in 1 .. A + 14
      BY <1>1, <1>2, <1>3, <1>4
    <2>2. u[A + 8 + 1] = d[1]
      BY <1>3, <1>9, <2>1
    <2> QED
      BY <1>15, <2>1, <2>2
  <1>21. T[A + 10] = e[1] /\ T[A + 11] = e[2] /\ T[A + 12] = e[3] /\ T[A + 13] = e[4]
    <2>1. /\ Len(a) + Len(b) + Len(c) + Len(d) = A + 9
          /\ A + 9 + 1 = A + 10 /\ A + 10 \in 1 .. A + 14 /\ A + 9 + 2 = A + 11 /\ A + 11 \in 1 .. A + 14
          /\ A + 9 + 3 = A + 12 /\ A + 12 \in 1 .. A + 14 /\ A + 9 + 4 = A + 13 /\ A + 13 \in 1 .. A + 14
      BY <1>1, <1>2, <1>3, <1>4
    <2>2. \A i \in 1 .. 4 : u[A + 9 + i] = e[i]
      BY <1>5, <1>9, <2>1
    <2>3. u[A + 9 + 1] = e[1] /\ u[A + 9 + 2] = e[2] /\ u[A + 9 + 3] = e[3] /\ u[A + 9 + 4] = e[4]
      BY <2>2
    <2> QED
      BY <1>15, <2>1, <2>3
  <1>22. T[A + 14] = f[1]
    <2>1. /\ Len(a) + Len(b) + Len(c) + Len(d) + Len(e) = A + 13
          /\ A + 13 + 1 = A + 14 /\ A + 14 \in 1 .. A + 14
      BY <1>1, <1>2, <1>3, <1>4, <1>5
    <2>2. u[A + 13 + 1] = f[1]
      BY <1>3, <1>9, <2>1
    <2> QED
      BY <1>15, <2>1, <2>2
  <1>23. T[A + 15] = g[1] /\ \A i \in 1 .. A : T[A + 15 + i] = ArrayText(p.sender)[i]
    <2>1. /\ 1 \in 1 .. A + 7 /\ A + 14 + 1 = A + 15
          /\ \A i \in 1 .. A : 1 + i \in 1 .. A + 7 /\ A + 14 + (1 + i) = A + 15 + i
      BY <1>1
    <2> QED
      BY <1>6, <1>16, <2>1
  <1>24. /\ T[2 * A + 16] = g[A + 2] /\ T[2 * A + 17] = g[A + 3] /\ T[2 * A + 18] = g[A + 4]
         /\ T[2 * A + 19] = g[A + 5] /\ T[2 * A + 20] = g[A + 6] /\ T[2 * A + 21] = g[A + 7]
    <2>1. /\ A + 2 \in 1 .. A + 7 /\ A + 14 + (A + 2) = 2 * A + 16
          /\ A + 3 \in 1 .. A + 7 /\ A + 14 + (A + 3) = 2 * A + 17
          /\ A + 4 \in 1 .. A + 7 /\ A + 14 + (A + 4) = 2 * A + 18
          /\ A + 5 \in 1 .. A + 7 /\ A + 14 + (A + 5) = 2 * A + 19
          /\ A + 6 \in 1 .. A + 7 /\ A + 14 + (A + 6) = 2 * A + 20
          /\ A + 7 \in 1 .. A + 7 /\ A + 14 + (A + 7) = 2 * A + 21
      BY <1>1
    <2> QED
      BY <1>16, <2>1
  <1>25. IsSequence(T)
    BY <1>13
  <1>26. StructLaidOut(T, p)
    BY <1>2, <1>3, <1>4, <1>5, <1>6, <1>7, <1>14, <1>17, <1>19, <1>20, <1>21, <1>22, <1>23, <1>24,
       <1>25 DEF StructLaidOut
  <1> QED
    BY <1>8, <1>26

(* The digest of a packet and its verdict is that of the bridge program.   *)
LEMMA AleoDigests ==
    ASSUME NEW p \in ToAleo, NEW q \in ToAleo, NEW v \in BOOLEAN, NEW w \in BOOLEAN,
           p.amount \in U128
    PROVE  hashAleo(ReadFromEthereum(p), v) = InPacketWithScreening(q, w) <=> p = q /\ v = w
  <1>1. ToAleoPacket(p) /\ ToAleoPacket(q)
    BY SigningAssumption DEF ToAleoPacket
  <1>2. ReadFromEthereum(p) = p
    BY EventsAreRead
  <1>3. StructLaidOut(constructAleoPacket(p), p) /\ StructLaidOut(InPacket(q), q)
        /\ StructLaidOut(InPacket(p), p)
    BY <1>1, HashedStruct, RecomputedStruct
  <1>4. constructAleoPacket(p) = InPacket(p)
    BY <1>3, OneStruct
  <1> DEFINE body(h, b) == <<Name("packet_hash"), h, Name("screening_passed"), b>>
  <1>5. hashAleo(p, v) = BHP(body(BHP(InPacket(p)), v))
    BY <1>4 DEF hashAleo, constructAleoScreeningPacket
  <1>6. InPacketWithScreening(q, w) = BHP(body(BHP(InPacket(q)), w))
    BY DEF InPacketWithScreening
  <1>7. \A g, h, b, c : body(g, b) = body(h, c) => g = h /\ b = c
    OBVIOUS
  <1> HIDE DEF body
  <1>8. ASSUME BHP(body(BHP(InPacket(p)), v)) = BHP(body(BHP(InPacket(q)), w))
        PROVE  p = q /\ v = w
    <2>1. body(BHP(InPacket(p)), v) = body(BHP(InPacket(q)), w)
      BY <1>8, HashesAreInjective
    <2>2. BHP(InPacket(p)) = BHP(InPacket(q)) /\ v = w
      BY <1>7, <2>1
    <2>3. InPacket(p) = InPacket(q)
      BY <2>2, HashesAreInjective
    <2>4. StructLaidOut(InPacket(p), q)
      BY <1>3, <2>3
    <2> QED
      BY <1>1, <1>3, <2>2, <2>4, StructOfPacket
  <1> QED
    BY <1>2, <1>5, <1>6, <1>8

(* All that the property says of the hashes signed. *)
LEMMA SignedHashesAreChecked == SignedHashIsChecked
  <1>1. \A p \in ToEthereum : FromAleo(p)
    BY SigningAssumption DEF FromAleo
  <1>2. ASSUME NEW p \in ToEthereum, NEW signer \in Attestors,
               NEW answer \in {PacketText(p)} \cup Cuts(PacketText(p)),
               getPktWithSeq(answer) # Failed, NEW q \in ToEthereum
        PROVE  CountedAs(q, [signer |-> signer, digest |-> hashEthereum(getPktWithSeq(answer), TRUE)])
                 = IF q = getPktWithSeq(answer) THEN "YEA" ELSE "revert"
    BY <1>1, <1>2, AnswerIsPacket, SignatureIsCounted
  <1> QED
    BY <1>2, AleoDigests DEF SignedHashIsChecked

(***************************************************************************)
(* The attestor never runs with a signing service that signs by another    *)
(* key, with a feeder to a destination that has no namespace in the        *)
(* database, or with a database whose keys are not in the order of the     *)
(* numbers; whether the service accepts its credentials, and whether a     *)
(* start number is for a destination, a start leaves open.                 *)
(***************************************************************************)
THEOREM StartAlwaysSound == Spec => []StartIsSound
  <1>1. StartIsSound
    BY ServiceSigns, Namespaces, KeysKeepTheirOrder DEF StartIsSound
  <1> QED
    BY <1>1, PTL

(***************************************************************************)
(* Each packet read from a chain, a missed one too, is the packet that was *)
(* sent, and the signature over it is the one that the contract or program *)
(* of the destination counts, for that packet and no other.  Of a text     *)
(* that ends early at most the height is read wrongly, and what is signed  *)
(* then is not counted for the packet.                                     *)
(***************************************************************************)
THEOREM SignaturesAlwaysCheckOut == Spec => []SignaturesCheckOut
  <1>1. SignaturesCheckOut
    BY PacketsReadBack, SignedHashesAreChecked DEF SignaturesCheckOut
  <1> QED
    BY <1>1, PTL

===============================================================================
