---------------------------- MODULE AttestorProcess ----------------------------
(***************************************************************************)
(* The chain service as a process (attestor/chainService: main.go,         *)
(* relay/relays.go, relay/collector, relay/signer, address_screener, and   *)
(* the goroutines of chain/ethereum and chain/aleo): its start, its        *)
(* goroutines and the channels between them, packets reported by the       *)
(* collector, panics and the way it ends.  Metrics and the health checks,  *)
(* which only set metrics, are left out.                                   *)
(*                                                                         *)
(* Heights, windows of blocks and pruning are the subject of ChainService. *)
(* Here a packet has a position on its source chain, its block on Ethereum *)
(* and its number on Aleo, and lies ahead of the feed or not.  Channels    *)
(* are unbuffered: what a goroutine has fetched and not yet handed over on *)
(* pktCh is in `sending'.                                                  *)
(*                                                                         *)
(* The source chains, the signing service and the collector are external.  *)
(***************************************************************************)
EXTENDS Store

CONSTANTS
    Chains,      \* source chains, in the order of the configuration
    Packets,     \* packets of the source chains
    Source,      \* packet -> its source chain
    Dest,        \* packet -> its destination chain
    Position,    \* packet -> its block on Ethereum, its number on Aleo
    DestChains,  \* chain -> the dest_chains of its configuration
    StartSeq,    \* chain -> the destinations that its start_seq_num has entries for
    Limit,       \* packets the collector reports at once (limitSize, 20)
    Workers,     \* ConsumePacketWorker goroutines
    Starts       \* bound: [completed, retry, ahead, missed, rare] when the process starts

Chain == {Chains[i] : i \in DOMAIN Chains}

(* NewClient makes the buckets of the destinations.  Ethereum's feed sends *)
(* packets to destinations only, Aleo's has a goroutine for each start     *)
(* number, too.                                                            *)
HasNamespace(p) == Dest[p] \in DestChains[Source[p]]

Feeds(p) == HasNamespace(p) \/ (Source[p] # "ethereum" /\ Dest[p] \in StartSeq[Source[p]])

SameRoute(p, q) == Source[p] = Source[q] /\ Dest[p] = Dest[q]

(* Ethereum's feed takes the packets of all routes in one order, Aleo's    *)
(* has a goroutine for each.                                               *)
SameFeed(p, q) == Source[p] = Source[q] /\ (Source[p] = "ethereum" \/ Dest[p] = Dest[q])

(* Packet p lies between two of its route that are done, by height or by   *)
(* number: pruneBaseSeqNum fetches it again.  Aleo's starts with the first *)
(* of the two.                                                             *)
InGap(p, done) ==
    \E q, r \in done :
        /\ q # r /\ p # r /\ (p = q => Source[p] # "ethereum")
        /\ SameRoute(p, q) /\ SameRoute(p, r)
        /\ Position[q] <= Position[p] /\ Position[p] <= Position[r]

ASSUME AttestorAssumption ==
    /\ Chains \in Seq(Chain) /\ Chain # {} /\ Workers # {}
    /\ Source \in [Packets -> Chain] /\ Position \in [Packets -> Nat]
    /\ Limit \in Nat \ {0}
    /\ \A s \in Starts :
         /\ s.ahead \subseteq {p \in Packets : Feeds(p)} /\ s.completed \subseteq Packets
         /\ s.retry \subseteq Packets /\ s.rare \in Nat
         /\ s.missed \subseteq Packets /\ IsFiniteSet(s.missed)
         /\ \A p \in s.ahead, q \in s.completed \cup s.retry :
              SameRoute(p, q) /\ Position[p] < Position[q] =>
                p \in s.completed \cup s.retry \/ InGap(p, s.completed)

VARIABLES
    main,          \* the main goroutine
    ctxDone,       \* a kill signal arrived
    pktChClosed,
    registered,    \* chains in chainIDToChain
    feeder,        \* chain -> its FeedPacket goroutine, with those it starts
    ahead,         \* packets at or after nextBlockHeight, nextSeqNum
    sending,       \* [by, pkt]: packets that a goroutine has fetched to send on pktCh
    worker,        \* worker -> [at, pkt, missed, white]
    retryNS,       \* retryPacketNamespaces: packets
    completed,     \* baseSeqNamespaces: packets
    screened,      \* walletScreeningNS: packet -> verdict (a bucket)
    toReport,      \* packets the collector goroutine still has to pass on
    wallet,        \* the wallet address it asks for next: index of a chain
    reported,      \* the packet consumeMissedPackets has received, if any
    unconfirmed,   \* collector (external): packets it lists as missing
    signatures,    \* collector (external): [pkt, white] it was sent
    rare           \* bound: failed calls, panics of feeders and gaps fetched, still to come

process == <<main, ctxDone, pktChClosed>>
feeding == <<registered, feeder, ahead>>
stored == <<retryNS, completed>>
polling == <<toReport, wallet, reported>>
collector == <<unconfirmed, signatures>>
vars == <<process, feeding, sending, worker, stored, screened, polling, collector, rare>>

Idle == [at |-> "idle"]

Alive == main \in {"select", "receive"}

Rare == rare > 0 /\ rare' = rare - 1

(* Once main returns or a panic is not recovered, every goroutine and all  *)
(* that is in memory is gone.                                              *)
Gone ==
    /\ ctxDone' = FALSE /\ pktChClosed' = FALSE
    /\ registered' = {} /\ feeder' = [c \in Chain |-> "none"] /\ ahead' = {}
    /\ sending' = {} /\ worker' = [w \in Workers |-> Idle]
    /\ toReport' = <<>> /\ wallet' = 1 /\ reported' = {}

Dies ==
    /\ main' = "dead" /\ Gone
    /\ UNCHANGED <<stored, screened, collector, rare>>

-----------------------------------------------------------------------------
(* Start (main, StartRelay): the signing service is dialed first and must  *)
(* answer.                                                                 *)

Init ==
    /\ main = "starting" /\ ctxDone = FALSE /\ pktChClosed = FALSE
    /\ registered = {} /\ feeder = [c \in Chain |-> "none"]
    /\ \E s \in Starts :
         /\ ahead = s.ahead /\ completed = s.completed /\ retryNS = s.retry
         /\ unconfirmed = s.missed /\ rare = s.rare
    /\ sending = {} /\ worker = [w \in Workers |-> Idle]
    /\ screened = EmptyBucket
    /\ toReport = <<>> /\ wallet = 1 /\ reported = {}
    /\ signatures = {}

StartRelay ==
    /\ main = "starting"
    /\ \/ /\ main' = "select"
          /\ UNCHANGED <<ctxDone, pktChClosed, feeding, sending, worker, stored, screened,
                         polling, collector, rare>>
       \/ Dies

(* initPacketFeeder makes the clients in order, then runs each of them. *)
RegisterChain ==
    /\ Alive
    /\ \E i \in DOMAIN Chains :
         /\ registered = {Chains[j] : j \in 1 .. i - 1}
         /\ Chains[i] \notin registered
         /\ registered' = registered \cup {Chains[i]}
         /\ feeder' = [feeder EXCEPT ![Chains[i]] = "queued"]
    /\ UNCHANGED <<process, ahead, sending, worker, stored, screened, polling, collector, rare>>

(* Of the packets ahead of the feed, those that FeedPacket does not skip   *)
(* when it starts: it resumes after the last completed position of its     *)
(* destinations, on Ethereum the lowest of them, if that is further on.    *)
Resumed(c) ==
    {p \in ahead :
        Source[p] = c =>
            \E d \in IF c = "ethereum" THEN DestChains[c] ELSE {Dest[p]} :
                \A q \in completed : Source[q] = c /\ Dest[q] = d => Position[q] < Position[p]}

(* A feeder that was put back leaves goroutines of its last run behind.    *)
RunFeeder(c) ==
    /\ Alive /\ registered = Chain
    /\ \/ feeder[c] = "queued" /\ feeder' = [feeder EXCEPT ![c] = "running"]
       \/ feeder[c] = "put back" /\ feeder' = [feeder EXCEPT ![c] = "running again"]
    /\ ahead' = Resumed(c)
    /\ UNCHANGED <<process, registered, sending, worker, stored, screened, polling, collector,
                   rare>>

-----------------------------------------------------------------------------
(* Feeders: what a goroutine has fetched it holds until a worker takes it. *)

Running(c) == feeder[c] \in {"running", "running again"}

(* The goroutines of a run that a panic has ended may still be there.      *)
PutBack(c) == feeder[c] \in {"put back", "running again"}

Sender(kind, c, dest) == [kind |-> kind, chain |-> c, dest |-> dest]

FeedSender(p) == Sender("feed", Source[p], IF Source[p] = "ethereum" THEN "any" ELSE Dest[p])

MissedSender == Sender("missed", "any", "any")

IsSending(s) == \E e \in sending : e.by = s

Send(s, batch) == sending' = sending \cup {[by |-> s, pkt |-> q] : q \in batch}

(* Ethereum's FeedPacket takes the packets of a window of blocks, Aleo's   *)
(* feedPacket the next one to its destination.                             *)
Window(p) ==
    IF Source[p] = "ethereum"
    THEN {q \in ahead : SameFeed(p, q) /\ Position[q] <= Position[p]}
    ELSE {p}

IsNext(p) == \A q \in ahead \ {p} : SameFeed(p, q) => Position[p] < Position[q]

(* Mutant of FetchWindow: nextBlockHeight moves before the packets are     *)
(* sent.                                                                   *)
MovesOnFirst(c) ==
    /\ Alive /\ Running(c)
    /\ \E p \in ahead :
         /\ Source[p] = c /\ (c # "ethereum" => IsNext(p))
         /\ ~IsSending(FeedSender(p)) /\ Send(FeedSender(p), Window(p))
         /\ ahead' = ahead \ Window(p)
    /\ UNCHANGED <<process, registered, feeder, worker, stored, screened, polling, collector,
                   rare>>

FetchWindow(c) ==
    /\ Alive /\ Running(c)
    /\ \E p \in ahead :
         /\ Source[p] = c /\ (c # "ethereum" => IsNext(p))
         /\ ~IsSending(FeedSender(p)) /\ Send(FeedSender(p), Window(p))
    /\ UNCHANGED <<process, feeding, worker, stored, screened, polling, collector, rare>>

(* retryFeed: packets of one destination leave its retry namespace in one  *)
(* transaction.                                                            *)
RetryFeed(c, kind) ==
    /\ Alive /\ IF kind = "retry" THEN Running(c) ELSE PutBack(c)
    /\ ~IsSending(Sender(kind, c, "any"))
    /\ \E d \in DestChains[c], batch \in SUBSET retryNS :
         /\ batch # {} /\ \A p \in batch : Source[p] = c /\ Dest[p] = d
         /\ retryNS' = retryNS \ batch
         /\ Send(Sender(kind, c, "any"), batch)
    /\ UNCHANGED <<process, feeding, worker, completed, screened, polling, collector, rare>>

(* pruneBaseSeqNum: the packets of a gap, wherever else they may be. *)
PruneRefetch(c, kind) ==
    /\ Alive /\ IF kind = "prune" THEN Running(c) ELSE PutBack(c)
    /\ ~IsSending(Sender(kind, c, "any"))
    /\ \E d \in DestChains[c], batch \in SUBSET Packets :
         /\ batch # {} /\ \A p \in batch : Source[p] = c /\ Dest[p] = d /\ InGap(p, completed)
         /\ Send(Sender(kind, c, "any"), batch)
    /\ Rare
    /\ UNCHANGED <<process, feeding, worker, stored, screened, polling, collector>>

(* With no destinations retryFeed and pruneBaseSeqNum index empty slices.  *)
NoDestination(c) == Alive /\ Running(c) /\ DestChains[c] = {} /\ Dies

-----------------------------------------------------------------------------
(* Panics.  The deferred function around FeedPacket recovers: the context  *)
(* of the run ends, what FeedPacket itself had fetched is gone, and the    *)
(* client is put back for another run.  The goroutines that FeedPacket     *)
(* started, blocked on pktCh or not, are left behind.  Aleo's FeedPacket   *)
(* only waits; what it starts is not recovered.                            *)

Old(s) ==
    CASE s.kind = "retry" -> [s EXCEPT !.kind = "old retry"]
      [] s.kind = "prune" -> [s EXCEPT !.kind = "old prune"]
      [] OTHER            -> s

Recovered(c) ==
    /\ feeder' = [feeder EXCEPT ![c] = "put back"]
    /\ sending' = {[e EXCEPT !.by = IF @.chain = c THEN Old(@) ELSE @] :
                      e \in {f \in sending : ~(f.by.kind = "feed" /\ f.by.chain = c)}}

(* Mutant of FeederPanics: the client is not put back for another run. *)
PanicEndsFeeder(c) ==
    /\ Alive /\ Running(c) /\ c = "ethereum"
    /\ feeder' = [feeder EXCEPT ![c] = "none"]
    /\ sending' = {e \in sending : e.by.chain # c}
    /\ Rare
    /\ UNCHANGED <<process, registered, ahead, worker, stored, screened, polling, collector>>

FeederPanics(c) ==
    /\ Alive /\ Running(c) /\ c = "ethereum"
    /\ Recovered(c)
    /\ Rare
    /\ UNCHANGED <<process, registered, ahead, worker, stored, screened, polling, collector>>

(* Any other goroutine that panics ends the process, at whatever it was:   *)
(* on an answer of a node, the collector or the signing service that it    *)
(* follows without a check, a client that cannot be made, and so on.       *)
GoroutinePanics == Alive /\ Dies

(* managePacket receives from retryCh and completedCh, in a run of the     *)
(* feeder or left over from one.  Without the bucket of its destination a  *)
(* packet is put nowhere: the nil bucket is followed.                      *)
Managed(c) == feeder[c] \in {"running", "put back", "running again"}

-----------------------------------------------------------------------------
(* consumePackets: a token for a worker, then a packet for it. *)

TakeToken ==
    /\ main = "select" /\ \E w \in Workers : worker[w] = Idle
    /\ main' = "receive"
    /\ UNCHANGED <<ctxDone, pktChClosed, feeding, sending, worker, stored, screened, polling,
                   collector, rare>>

(* FeedPacket sends in the order of the chain, and moves its own position  *)
(* once the last packet it fetched is taken.                               *)
Receive(e) ==
    /\ main = "receive" /\ ~pktChClosed /\ e \in sending
    /\ LET rest == {f \in sending \ {e} : f.by = e.by}
       IN  /\ e.by.kind = "feed" => \A f \in rest : Position[e.pkt] <= Position[f.pkt]
           /\ ahead' = IF e.by.kind = "feed" /\ rest = {} THEN ahead \ Window(e.pkt) ELSE ahead
    /\ sending' = sending \ {e}
    /\ \E w \in Workers :
         /\ worker[w] = Idle
         /\ worker' = [worker EXCEPT ![w] =
                         [at |-> "screen", pkt |-> e.pkt, missed |-> e.by.kind = "missed",
                          white |-> FALSE]]
    /\ main' = "select"
    /\ UNCHANGED <<ctxDone, pktChClosed, registered, feeder, stored, screened, polling,
                   collector, rare>>

ConsumeReturns ==
    /\ \/ main = "select" /\ ctxDone
       \/ main = "receive" /\ pktChClosed
    /\ main' = "returned" /\ Gone
    /\ UNCHANGED <<stored, screened, collector, rare>>

-----------------------------------------------------------------------------
(* processPacket *)

Step(w, at) == worker' = [worker EXCEPT ![w].at = at]

(* A verdict from an earlier attempt, or the one of the screening service, *)
(* which is always true in this build.                                     *)
Screened(p) == LET r == GetAndDeleteWhiteStatus(screened, p) IN IF r.found THEN r.value ELSE TRUE

Screen(w) ==
    /\ Alive /\ worker[w].at = "screen"
    /\ worker' = [worker EXCEPT ![w].at = "sign", ![w].white = Screened(worker[w].pkt)]
    /\ screened' = GetAndDeleteWhiteStatus(screened, worker[w].pkt).bucket
    /\ UNCHANGED <<process, feeding, sending, stored, polling, collector, rare>>

SignPacket(w) ==
    /\ Alive /\ worker[w].at = "sign"
    /\ Step(w, "send")
    /\ UNCHANGED <<process, feeding, sending, stored, screened, polling, collector, rare>>

(* The collector stores the signature and takes the packet off its list. *)
Arrives(w) ==
    /\ signatures' = signatures \cup {[pkt |-> worker[w].pkt, white |-> worker[w].white]}
    /\ unconfirmed' = unconfirmed \ {worker[w].pkt}

(* A signature the collector has already is a success, too.  A packet that *)
(* was reported as missed is neither stored for retry nor marked completed. *)
SendToCollector(w) ==
    /\ Alive /\ worker[w].at = "send"
    /\ Arrives(w)
    /\ worker' = [worker EXCEPT ![w] = IF @.missed THEN Idle ELSE [@ EXCEPT !.at = "completed"]]
    /\ UNCHANGED <<process, feeding, sending, stored, screened, polling, rare>>

(* The call fails or times out; a signature may have arrived all the same. *)
CallFails(w) ==
    /\ Alive /\ worker[w].at \in {"sign", "send"}
    /\ \/ UNCHANGED collector
       \/ worker[w].at = "send" /\ Arrives(w)
    /\ worker' = [worker EXCEPT ![w] = IF @.missed THEN Idle ELSE [@ EXCEPT !.at = "failed"]]
    /\ Rare
    /\ UNCHANGED <<process, feeding, sending, stored, screened, polling>>

PutInRetry(w) ==
    /\ Alive /\ worker[w].at = "failed" /\ Managed(Source[worker[w].pkt])
    /\ \/ /\ HasNamespace(worker[w].pkt)
          /\ retryNS' = retryNS \cup {worker[w].pkt}
          /\ Step(w, "store")
          /\ UNCHANGED <<process, feeding, sending, completed, screened, polling, collector,
                         rare>>
       \/ ~HasNamespace(worker[w].pkt) /\ Dies

(* Mutant of StoreVerdict: the verdict itself is not passed on. *)
StoreNoVerdict(w) ==
    /\ Alive /\ worker[w].at = "store"
    /\ screened' = StoreWhiteStatus(screened, worker[w].pkt, FALSE)
    /\ worker' = [worker EXCEPT ![w] = Idle]
    /\ UNCHANGED <<process, feeding, sending, stored, polling, collector, rare>>

StoreVerdict(w) ==
    /\ Alive /\ worker[w].at = "store"
    /\ screened' = StoreWhiteStatus(screened, worker[w].pkt, worker[w].white)
    /\ worker' = [worker EXCEPT ![w] = Idle]
    /\ UNCHANGED <<process, feeding, sending, stored, polling, collector, rare>>

PutInCompleted(w) ==
    /\ Alive /\ worker[w].at = "completed" /\ Managed(Source[worker[w].pkt])
    /\ \/ /\ HasNamespace(worker[w].pkt)
          /\ completed' = completed \cup {worker[w].pkt}
          /\ worker' = [worker EXCEPT ![w] = Idle]
          /\ UNCHANGED <<process, feeding, sending, retryNS, screened, polling, collector,
                         rare>>
       \/ ~HasNamespace(worker[w].pkt) /\ Dies

-----------------------------------------------------------------------------
(* ReceivePktsFromCollector: one wallet address is asked about at each     *)
(* tick.  An answer that fails leaves the address for the next tick.       *)

(* Mutant of NextWallet: the last address is never asked about. *)
SkipsLastWallet == IF wallet + 1 >= Len(Chains) THEN 1 ELSE wallet + 1

NextWallet == (wallet % Len(Chains)) + 1

(* The collector's list for a wallet has packets of that wallet's chain. *)
ReceivePktsFromCollector ==
    /\ Alive /\ ~ctxDone /\ toReport = <<>>
    /\ LET listed == {p \in unconfirmed : Source[p] = Chains[wallet]}
       IN  \E list \in [1 .. Min({Limit, Cardinality(listed)}) -> listed] :
             /\ \A i, j \in DOMAIN list : list[i] = list[j] => i = j
             /\ toReport' = list
    /\ wallet' = NextWallet
    /\ UNCHANGED <<process, feeding, sending, worker, stored, screened, reported, collector,
                   rare>>

(* consumeMissedPackets *)

ReceiveMissed ==
    /\ Alive /\ toReport # <<>> /\ reported = {} /\ ~IsSending(MissedSender)
    /\ reported' = {Head(toReport)}
    /\ toReport' = Tail(toReport)
    /\ UNCHANGED <<process, feeding, sending, worker, stored, screened, wallet, collector, rare>>

GetMissedPacket ==
    /\ Alive /\ ~IsSending(MissedSender)
    /\ \E p \in reported : Source[p] \in registered /\ Send(MissedSender, {p})
    /\ reported' = {}
    /\ UNCHANGED <<process, feeding, worker, stored, screened, toReport, wallet, collector, rare>>

GetMissedPacketFails ==
    /\ Alive
    /\ \E p \in reported : Source[p] \in registered
    /\ reported' = {}
    /\ Rare
    /\ UNCHANGED <<process, feeding, sending, worker, stored, screened, toReport, wallet,
                   collector>>

(* Before initPacketFeeder has made the client there is nothing to call. *)
ClientNotMade == Alive /\ (\E p \in reported : Source[p] \notin registered) /\ Dies

-----------------------------------------------------------------------------
(* The end: a kill signal cancels the context; a goroutine closes pktCh,   *)
(* under senders that may be blocked on it.                                *)

KillSignal ==
    /\ Alive /\ ~ctxDone
    /\ ctxDone' = TRUE
    /\ UNCHANGED <<main, pktChClosed, feeding, sending, worker, stored, screened, polling,
                   collector, rare>>

(* Mutant of ClosePktCh: the channel stays open. *)
KeepPktChOpen == FALSE /\ UNCHANGED vars

ClosePktCh ==
    /\ Alive /\ ctxDone /\ ~pktChClosed
    /\ pktChClosed' = TRUE
    /\ UNCHANGED <<main, ctxDone, feeding, sending, worker, stored, screened, polling,
                   collector, rare>>

(* Only Ethereum's FeedPacket recovers from it. *)
SendOnClosed(e) ==
    /\ Alive /\ pktChClosed /\ e \in sending
    /\ \/ /\ e.by.kind = "feed" /\ e.by.chain = "ethereum"
          /\ Recovered("ethereum")
          /\ UNCHANGED <<process, registered, ahead, worker, stored, screened, polling,
                         collector, rare>>
       \/ ~(e.by.kind = "feed" /\ e.by.chain = "ethereum") /\ Dies

Ended == main \in {"returned", "dead"} /\ UNCHANGED vars

Next ==
    \/ StartRelay \/ RegisterChain \/ TakeToken \/ ConsumeReturns
    \/ \E c \in Chain :
         \/ RunFeeder(c) \/ FetchWindow(c)
         \/ \E kind \in {"retry", "old retry"} : RetryFeed(c, kind)
         \/ \E kind \in {"prune", "old prune"} : PruneRefetch(c, kind)
         \/ NoDestination(c) \/ FeederPanics(c)
    \/ \E e \in sending : Receive(e) \/ SendOnClosed(e)
    \/ \E w \in Workers :
         \/ Screen(w) \/ SignPacket(w) \/ SendToCollector(w) \/ CallFails(w)
         \/ PutInRetry(w) \/ StoreVerdict(w) \/ PutInCompleted(w)
    \/ ReceivePktsFromCollector \/ ReceiveMissed \/ GetMissedPacket \/ GetMissedPacketFails
    \/ ClientNotMade \/ GoroutinePanics
    \/ KillSignal \/ ClosePktCh
    \/ Ended

Spec == Init /\ [][Next]_vars

(* Goroutines run when they can; nothing is asked of those that a panic    *)
(* has left behind, nor of pruneBaseSeqNum.                                *)
FairSpec ==
    /\ Spec
    /\ WF_vars(StartRelay \/ TakeToken \/ (\E e \in sending : Receive(e)) \/ ConsumeReturns)
    /\ WF_vars(ClosePktCh) /\ WF_vars(RegisterChain)
    /\ \A c \in Chain :
         WF_vars(RunFeeder(c)) /\ WF_vars(FetchWindow(c)) /\ WF_vars(RetryFeed(c, "retry"))
    /\ \A w \in Workers : WF_vars(\/ Screen(w) \/ SignPacket(w) \/ SendToCollector(w)
                                  \/ PutInRetry(w) \/ StoreVerdict(w) \/ PutInCompleted(w))
    /\ WF_vars(ReceivePktsFromCollector) /\ WF_vars(ReceiveMissed) /\ WF_vars(GetMissedPacket)

-----------------------------------------------------------------------------
(* Properties *)

(* Every signature of a packet carries the same verdict, whatever retries  *)
(* and requests of the collector it went through.                          *)
OneVerdictPerPacket ==
    \A s, t \in signatures : s.pkt = t.pkt => s.white = t.white

Stopping == ctxDone \/ ~Alive

(* A kill signal ends the process: pktCh is closed, so consumePackets does *)
(* not wait for ever for a packet.                                         *)
ShutdownEnds == ctxDone ~> ~Alive

(* Somebody has packet p in hand: fetched, with a worker, stored for retry. *)
InHand(p) ==
    \/ p \in retryNS
    \/ \E e \in sending : e.pkt = p /\ e.by.kind # "missed"
    \/ \E w \in Workers :
         worker[w].at \in {"screen", "sign", "send", "failed", "completed"} /\ worker[w].pkt = p
         /\ ~worker[w].missed

Kept(p) == p \in ahead \cup completed \/ InHand(p) \/ InGap(p, completed)

(* After a panic the feed resumes behind the last height completed: other  *)
(* packets of that block and route are not fetched again.                  *)
SharesBlock(p) ==
    \E q \in completed : q # p /\ SameRoute(p, q) /\ Position[q] = Position[p]

(* While the process runs no packet is lost: it lies ahead of the feed, in *)
(* a gap between completed ones, in somebody's hand or is completed,       *)
(* whatever panic takes away what FeedPacket has fetched, and however many *)
(* goroutines carry it at once.                                            *)
PacketsKept ==
    [][\A p \in Packets : Kept(p) => Kept(p)' \/ SharesBlock(p) \/ ~Alive']_vars

(* Packets that are ahead or in hand and yet to be completed; what is left *)
(* to pruneBaseSeqNum is the subject of ChainService.                      *)
Pending ==
    {p \in Packets : /\ p \in ahead \/ InHand(p)
                     /\ p \notin completed /\ ~InGap(p, completed) /\ ~SharesBlock(p)}

(* All of them are completed while the process runs, through failing calls *)
(* and panics of a feeder: no goroutines wait for each other on the        *)
(* unbuffered channels, and a feeder runs again.                           *)
PacketsComplete == Alive ~> Pending = {} \/ Stopping

(* The packets the collector asks for are signed again and leave its list, *)
(* on whichever wallet address they are listed, unless the process ends.   *)
MissedIsSigned == Alive ~> unconfirmed = {} \/ Stopping
================================================================================
