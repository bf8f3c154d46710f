# Verulink: TLA+ models, checks and proofs

Verulink moves tokens between Ethereum and Aleo. A token locked on Ethereum is
minted on Aleo, a token burned on Aleo is paid out on Ethereum; a set of
attestors signs every packet that one chain publishes, and the other chain acts
on a packet that carries enough signatures. This directory models the programs
of both chains, their governance, the attestor with its database, configuration
and signing service, and the bridge they form together. Sources are named relative to `src/`.

## 1. Inventory

| Component | State | Operations | Interacts with |
|---|---|---|---|
| Aleo bridge `aleo/programs/vlink_token_bridge_v1.leo` | owner, threshold, attestors, chains, services, pause, outgoing packets, consumed ids | administration, `publish`, `consume` | called by the token service and the bridge council |
| Aleo token service `vlink_token_service_v1.leo` | token settings, counterparts, total supply, withdrawal snapshot, held totals | administration, `token_send`, `token_receive`, `holding_release` | calls bridge, holding program and token registry in one transaction |
| Aleo holding `vlink_holding_v1.leo` | owner, held amount per user and token | `hold_fund`, `release_fund`, ownership | called by the token service, or by whoever owns it |
| Aleo council `vlink_council_v1.leo` | members, threshold, proposals, votes, voter lists, executed proposals | `propose`, `vote`, `update_vote`, membership changes, `external_execute` | called by wallets and the wrapper programs |
| Council wrappers `vlink_bridge_council_v1.leo`, `vlink_token_service_council_v1.leo` | none | 26 entry points, each one approved proposal | own the bridge and the service |
| Ethereum bridge `solidity/contracts/main/Bridge.sol`, `base/bridge/*` | attestors, quorum, services, destination chain, pause, outgoing and consumed packets | owner calls, `sendMessage`, `consume` | called by the token service |
| Ethereum token service `TokenService.sol`, `TokenSupport.sol` | supported tokens, reserve, pause | owner calls, `transfer`, `withdraw`, `transferToVault` | bridge, holding, blacklist, vaults |
| Ethereum holding, blacklist, vaults | locked and unlocked amounts, lists | `lock`, `unlock`, `release`, list updates, vault payments | token service, owner |
| Attestor process `attestor/chainService/main.go`, `relay/relays.go`, `relay/collector`, `relay/signer`, `relay/address_screener` | goroutines and what they hold, clients made so far, the channels `pktCh`, `missedPktCh`, `retryCh`, `completedCh`, tokens of the workers | start, feeders and their restart after a panic, workers that screen, sign, deliver and store, polling of the collector, end by signal or panic | both chains, signing service, collector, database |
| Attestor clients `chain/ethereum/client.go`, `chain/aleo/client.go` | feed position, packets in memory | feed, retry, prune, missed packets | source chain, database, workers |
| Attestor database `store/*.go` | bolt buckets: retry, completed and screening namespaces per destination | put, delete, first, last and next keys, batch reads, prune | clients, screening |
| Attestor packets `chain/aleo/utils.go`, `filterPacketLogs` | none | the text of an Aleo struct or an Ethereum event read as a packet | clients |
| Attestor configuration `config/config.go`, `NewClient` | none after the start | validation, defaults, paths; clients with their namespaces and start positions | process |
| Signing service `attestor/signingService` | keys, chains | set-up, `/sign`: digest and signature of a screened packet | process; its digests are recomputed by both bridges |
| Collector (db-service) | signatures, packets it misses | store, serve, list | attestors, users |

What each must do: the bridges act once on a packet really sent and approved by a
quorum; the services keep supply, reserve and holdings in agreement; governance
changes nothing without a quorum; an attestor delivers one verdict on every packet,
never claims what it did not deliver, outlives failures of what it calls, and signs
the bytes the destination bridge checks.

### Not modelled, and why

* Generated Go bindings of the contracts (`chain/ethereum/abi`,
  `e2etest/chains/ethereum/abi`; 9103 of the 14449 lines of Go that are no tests):
  argument encoding produced by `abigen`, without logic of this project. What the
  attestor calls of them appears as an external step.
* The rest of `e2etest` (about 1150 lines): test tooling.
* `metrics`, `logger`, `chain/aleo/rpc`, the Ethereum RPC wrapper, the TLS proxy
  (`attestor/proxy`), certificates, and the health checks, which only set a metric:
  input and output without protocol state.
* `TokenServiceV2.sol` and `PredicateService.sol`: a transfer that asks an external
  policy contract first. Everything after the answer is the modelled `transfer`, and
  the policy is not in the repository.
* `AleoAddressLibrary.sol` (address syntax), UUPS proxies, interfaces, mocks.
* Earlier Leo programs (`v2`, `v3`, `backup`) and templates, superseded by the `v1`
  vlink programs; deployment scripts.
* The Rust helper of the signing service (BHP256 and Schnorr): hash functions and
  signatures are symbolic everywhere.

What is hard here: the same packet delivered twice or with other signatures while
attestors and thresholds change; signature lists in any order with repeats and
padding; one transfer that updates ledgers of three programs; a withdrawal limit
computed from a snapshot taken earlier; votes that outlive membership; an attestor
that crashes with packets in memory, retries what may already be delivered,
deletes bookkeeping concurrently, restarts goroutines that panicked, closes a
channel others send on, and hashes packets byte by byte as two other code bases do.
The list with source lines is under `hazards`.

## 2. Modules

    Packets  VoteCounting
        |        |
        +--------+-- AleoTokenBridge -- AleoTokenService --+-- Governance (with Council)
        |        |                                         |
        |        |                                         +-- Verulink --- implements --> IdealBridge
        |        +-- EthBridge -------- EthTokenService ---+
        |
        +-- PacketTotals     (totals of packets and sums of ledgers, for the proofs)

    Proofs: AleoProofs -- CouncilProofs
            EthereumProofs, VerulinkProofs, IdealBridgeProofs
            ChainServiceProofs, AttestorProofs

    Store --+-- ChainService     (one client of one attestor, in depth)
            |
            +-- AttestorProcess ---+
    AttestorPackets -- SigningService --+-- Attestor   (the whole process)
    AttestorConfig --------------------+

| Module | Models |
|---|---|
| `Packets` | a packet as a record; totals of packets and of ledgers as cardinalities of sets of units, which TLC can compute and TLAPS can reason about without recursion |
| `VoteCounting` | the two vote counts: `get_majority_count` of the Leo bridge (fixed slots, zero address as padding) and `_checkSignatures` of the Solidity bridge (list of any length, increasing signers) |
| `AleoTokenBridge` | the Aleo bridge, one action per transition with its `finalize` |
| `AleoTokenService` | token service and holding program on top of it; `token_send`/`token_receive` are whole transactions over bridge, registry, service and holding |
| `Council`, `Governance` | the council, the wrappers that call it and the governed program in one transaction, and the calls anyone makes without the council, of which the programs let through those of their owner |
| `EthBridge`, `EthTokenService` | the Solidity contracts; a revert disables the action |
| `Verulink` | `A == INSTANCE AleoTokenService`, `E == INSTANCE EthTokenService`, attestors (honest and faulty) and the collector as a growing set of signatures |
| `IdealBridge` | the promise: deposit, mint, burn, payout of packets in flight, each once |
| `PacketTotals`, `*Proofs` | lemmas about totals and sums; the theorems of section 4, one module per component |
| `ChainService` | one attestor's goroutines for one source chain; `Client` selects the Ethereum (block windows) or the Aleo client (sequence numbers). A goroutine's queue is a set, handed over in the order of the sequence numbers |
| `Store` | the attestor's database: buckets as functions ordered by key, one operator per transaction, `PruneBaseSeqNum` as the run of consecutive keys its loop follows, the encoding of keys |
| `AttestorProcess` | the process with both clients: start, feed, retry, prune and manage goroutines, channels, workers, screening, polling of the collector, panics of any goroutine with and without `recover`, shutdown |
| `AttestorPackets` | the text of an Aleo `OutPacket`, whole or ending early anywhere, and how `parseMessage` and `parseAleoPacket` read it by position; `filterPacketLogs` |
| `SigningService` | the digests for both chains next to those of `PacketLibrary`/`_recover` and of the Leo bridge; key set-up, `/sign`, `dial` |
| `AttestorConfig` | `InitConfig`, `validateChainConfig`, `getPath`, and `NewClient` of both chains |
| `Attestor` | `AttestorProcess`, `SigningService` and `AttestorConfig` together: what must be true of the others when the process comes to rely on them |
| `MC*` | instances for TLC |

Correspondence. Actions carry the names of transitions and functions. A guard is
an `assert`, `require`, a failing `Mapping::get` or an arithmetic underflow, all of
which abort the transaction. Absent mapping entries are absent from a function's
domain where the code distinguishes them and 0 where it uses `get_or_use`. Hashes
are the hashed value; a signature is the record of signer, packet and verdict. A
council proposal is the record of the members of its struct: the struct's name is
not part of what is hashed, so two entry points whose structs have the same members
share proposals (for example the three that take `{id, new_owner}`).
Variables marked *history* (`received`, `consumptions`, `sent_token`, `delegated`,
`vaultFlow`) record what happened and guard nothing; `failures`, `crashes`, `missed` only count
towards bounds. Definitions introduced by a comment "Mutant of" are deliberately
wrong versions of the definition after them. They are used by no specification;
each shows that some property fails if the code had that fault.

In `ChainService` each goroutine that writes to the unbuffered `pktCh` has a queue
of what it fetched, `Take` is the hand-over, and a worker passes through signing,
delivery and the deferred bookkeeping as separate steps. A batch leaves the retry
namespace in one transaction (`RetryFeed`). `PruneDelete` removes keys one at a
time, as the concurrent `batchDelete` calls may, and `PruneReadFails` is a pass in
which one read of the chain fails: the Ethereum client then gives up the rest of the
gap, the Aleo client goes on with the next number. Failed reads of the feed are tried
again with the matured height read anew, so `FetchWindow` may use either height.
`Crash` keeps the database only. The first start may find packets on the chain.

`Governance` has two kinds of callers. A wrapper is a transaction of a council program:
the call of what it owns and `external_execute`. Everybody else (`Caller`) may call any
transition at any time (`DirectCall`), and the owner checks decide: an executed proposal
can make `wallet` the owner of the bridge, the service or the holding program or the
admin of a token, who then changes settings and releases held funds without a proposal,
and may hand them back. The council programs and the token service call only what their
own code calls.

`AttestorProcess` looks at what `ChainService` takes for granted. A packet has a
position instead of a number and a height: its block on Ethereum, where the feed takes
all packets of a window of blocks in one go, its number on Aleo, where each destination
has a feed of its own. `ahead` is what the feed has yet to pass; it moves when the last
packet of a window is handed over (`client.go:293`). A goroutine that has fetched
packets for `pktCh` is in `sending`, one entry for each packet, whoever else carries
it: `PruneRefetch` fetches the packets of a gap wherever they are. Main takes a token of
`guideCh`, then a packet. Panics:

* the deferred function around `FeedPacket` recovers on Ethereum (`FeederPanics`, at any
  time, with or without packets in hand): what `FeedPacket` had fetched is gone, the
  client is queued and runs again from the completed heights (`Resumed`), and the
  goroutines of the old run, which end only where they look at their context, may still
  hold packets (`Old`) or have fetched more;
* any other goroutine may panic at any time and ends the process (`GoroutinePanics`).
  Where the code is certain to panic the step is its own: no destination
  (`NoDestination`), a packet whose destination has no bucket (`PutInRetry`,
  `PutInCompleted`), a client that is not there yet (`ClientNotMade`), a send on the
  closed channel (`SendOnClosed`).

Nothing is claimed about which panics end the process. The Aleo `FeedPacket` only waits
for the context, and all it starts is not recovered. Health checks are left out.

`AttestorPackets`, `SigningService` and `AttestorConfig` are functions. A text is a
sequence of tokens, which is what `trim` and the two `Split`s leave of it; the parser
looks names up by position, as the code does, and a slice out of range is the panic
that `parseMessage` recovers. The body of an answer is parsed as it is, whatever its
status and without a closing bracket (`rpc.go:79`), so it may end anywhere: `Cuts` are
the texts that end after a token or within one. A number is read with or without its
type, since `strings.Replace` removes the type only if it is there; hence of a text that
ends within the height, the last number, the parser reads a packet with a smaller one
(`DigitPrefixes`: the number divided by a power of the base). A hash is the record of
what is hashed, byte strings are
sequences of chunks with their width, so equal digests mean equal inputs. Facts about
these functions are attached to the states in which the process relies on them
(`StartIsSound` when it has dialed the signing service, `SignaturesCheckOut` whenever
a worker delivers): there they are evaluated over all packets, keys, credentials and
configurations of the instance.

What they say is as much as the code gives. `StartIsSound`: the feeds that lack buckets
are exactly those of Aleo start numbers for a chain that is no destination, which no
check of the configuration refuses; a dialed service signs as the wallets of its key
file with the right credentials and signs nothing with others, which `dial` does not
notice. `SignaturesCheckOut`: a whole text gives the packet that was stored; a text that
ends early gives nothing, or that packet with the first digits of its height, and what is
signed then is counted for a packet with that height and for no other, so not for the
packet that was sent.

## 3. Runs

| Run | Shows | Bounds |
|---|---|---|
| `aleo_bridge` | all administration interleaved with publish and consume, from deployment | 3 attestor addresses, 2 signer slots, 2 owners, 2 packets out, 1 in |
| `aleo_service` | ledgers of service, holding program and registry agree; the sends of a window stay within the limit | 1 token, packets of 3 and 1 units, window of 1 block, 4 blocks |
| `eth_bridge` | single effect, numbering, quorum for signature lists with repeats in any order | 2 attestors, quorum up to 3, two packets with one sequence number |
| `eth_service` | reserve accounted to the unit, holding solvent, NAY goes to holding | 1 token, 1 user, 2 incoming packets, issuer blacklist and donations |
| `verulink` | only sent packets act; full backing; refinement of `IdealBridge` | 2 attestors of which 1 signs anything, threshold 2, 1 packet from Aleo and 2 from Ethereum, forged packets both ways |
| `governance` | council counters, voter lists, nothing the council holds changes without a quorum | 2 members, 21 proposals (each struct), the pairs that affect each other; one wallet that becomes owner and calls directly |
| `chain_eth` | the Ethereum client: only a crash makes it forget a packet, bookkeeping is truthful, the resume point survives pruning, gaps stay until they are refetched, everything matured is delivered | 2 workers, 3 packets of which 2 are there at the start, windows of 2 blocks, one fault: a failing call, a failing read, a crash or a packet reported missed |
| `chain_aleo` | the Aleo client: everything delivered, and gaps filled in the namespace of every destination | 2 workers, 3 packets to 2 destinations, all of them possibly to the second, one fault: a failing call, a failing read or a crash |
| `attestor` | the process from dialing to its end: no packet lost while it runs, one verdict per packet, completion through retries and feeder panics, missed packets signed, a stop that ends it; configuration, credentials, keys, packet texts and digests | 2 clients, 2 workers, 4 packets (two in one block, one without a destination) in 6 starts, up to 2 rare steps; 13 packets for each direction, one for each field that differs, with every early end of their texts; all key files, right and wrong credentials; 41472 configuration files and 6 command lines |
| `chain_forget` (violation) | a packet lost by a crash | Aleo client, 2 packets, 1 crash |
| `chain_stuck` (violation) | a namespace that is never pruned | Ethereum client, 2 destinations, no fault |
| `nay_signature` (violation) | a negative verdict signed with the wrong byte | as `attestor` |

Why the bounds are enough for the cases of interest: two signer slots and three
addresses allow repeats, padding, a foreign signer and a change of attestors
between signing and consuming; two packets with one sequence number allow a second
delivery with other content; three packets are the least that make a gap with a
completed packet on both sides. One faulty attestor below a threshold of two is the
strongest fault the design claims to withstand. In the attestor the starts (`Starts`)
put the packets where each case needs them: two of one block ahead of the feed, one
stored for retry with another ahead, a gap between two completed ones, a packet that the
feed finds and the collector asks for, two that only the collector knows, and one whose
destination has a start number and no bucket. `rare` bounds failing calls, recovered
panics and refetches of gaps: one lets a panic meet a window half fed or a call fail, two
let a refetch and a panic or a failure meet in the gap. With `Workers` at 2 the same packet is in
two workers. Every start is one where the order of the feed holds (`AttestorAssumption`): a packet
ahead lies behind none that was completed or stored for retry unless it is so itself or in a
gap; that a crash can break this is the subject of `chain_forget`.
Packets that differ in a single field are what tells digests apart; an amount outside
128 bits is among them; addresses of 2 bytes padded to 3 keep all of padding,
truncation and position. Every action and every disjunct of
every next-state relation is taken in some passing run.

Fairness (attestor only). In `ChainService`: weak fairness for new blocks, for each
goroutine's own step and for each worker, since tickers and the Go scheduler guarantee
them; strong fairness per feeder for the hand-over, since senders blocked on a Go
channel are served in arrival order and none is passed over for ever. In
`AttestorProcess`: weak fairness for main, for making and running each client, for
each client's feed and retry, for each worker, for polling the collector and for the
goroutine that closes `pktCh`. There is none for panics, failures, signals, for what a
panic has left behind or for `pruneBaseSeqNum`: what liveness there owes to it is shown by
`GapsAreFilled`. That senders blocked on `pktCh` are served in arrival order is there
represented by the bound on refetches: a fetched batch cannot overtake a sender for ever.
Failures of signer and collector are bounded, which is the assumption that
they recover. No fairness is assumed of the chains' users or owners, and no liveness
is claimed of the contracts.

### Disagreements found

* `chain_forget`. `docs/attestor_architecture_overview.md:1` says "Attestor should
  not miss any packet." On a restart the feed resumes after the last completed
  sequence number (`store/db.go:79`), and `pruneBaseSeqNum` looks for gaps above the
  first completed one. A packet in memory at the crash, below every completed
  number, is in neither range. It is delivered only when the collector reports it
  as missed. Once one packet below it is completed the gap is found (`GapsAreFilled`).
* `chain_stuck`. The Ethereum client's `pruneBaseSeqNum` skips the rotation
  commented "switch index to next destination id" (`client.go:393`) when the current
  namespace has no gap (`client.go:359`). With more than one destination configured
  the others are not pruned. The Aleo client rotates always; in `chain_aleo` the gaps of
  the second destination are filled (`GapsAreFilled`).
* `nay_signature`. For a packet to Ethereum the signing service hashes a negative
  verdict as the byte 0 (`signingService/chain/ethereum/hash.go:71`); the contract's
  `enum Vote { NULL, YEA, NAY }` makes NAY the byte 2, which the test at
  `solidity/test/005.TokenService.test.js:397` signs. `_recover` finds no attestor and
  the withdrawal reverts instead of locking the funds. Latent: `Screen` comes to no
  negative verdict in this build. For Aleo both verdicts agree (`SignaturesCheckOut`).

Also noted while modelling, and not stated as properties:

* The council's thresholds are bounded by the number of members and not by the five
  voter slots of a call (`vlink_council_v1.leo:258`; a comment at line 52 asks for a new
  contract above that). `CouncilSound` is about councils that fit the slots.
* `height - waitHeight` wraps on an Ethereum chain younger than the wait
  (`chain/ethereum/client.go:169`); `ChainServiceAssumption` has the chain start above it.
* The attestor dies of a panic if the collector answers `null` or names an unknown
  chain (`collector.go:243`, `relays.go:273`), if a packet is reported before its client
  is made, if a client has no destination (`chain/aleo/client.go:227`), and usually while it
  is stopped, when senders block on the channel being closed (`relays.go:85`).
* `dial` takes any 4xx as success, also 403 for wrong credentials, and a signing
  service starts without keys; it then refuses packets one by one (`StartIsSound`).
* An answer of the Aleo node that ends within the height is read as a packet with a
  smaller height, since a number needs no type (`chain/aleo/utils.go:174`) and the body no
  end (`rpc.go:79`). It may be fed before it is mature, is signed for a packet nobody sent
  and filed as completed; the collector then reports it as missed.
* After a recovered panic the Ethereum feed resumes behind the last completed block, and
  skips what that block still had (`SharesBlock` in `PacketsKept`).
* A packet to Aleo with an amount of 2^128 or more can never be hashed and is retried
  for ever.
* A start number for a chain that is no destination gives the Aleo client a feed
  without buckets (`chain/aleo/client.go:360`); the first packet that is to be stored
  ends the process (`store/bolt.go:48`).
* With two destinations of the Ethereum bridge, whose numbering is common to all, each
  namespace has gaps that none of its packets fill, and only the first is looked at
  (`store/db.go:132`). The contract supports one destination at a time.

Further: `external_execute` computes a hash that binds the calling program and does not use
it, so a proposal can be marked executed without its effect (the model takes that
step); a wallet that owns the holding program bypasses the service's `token_holding`
(`HeldFundsBacked` is stated for as long as only the service has owned it).

## 4. Proofs

TLAPS proves the following for every value of the constants: any finite set of
attestor addresses, any tokens, accounts, amounts, packets and numbers of blocks, and
for the attestor either client, any list of destinations, chains and workers, any
packets, configuration files and key files, and addresses of any length.

| Module | Theorems (`Spec => []...` unless marked) | Inductive invariant |
|---|---|---|
| `AleoProofs` | bridge: `BridgeTypeOK`, `AttestorSetSound`, `ConsumedOnce`, `OutSequencesContiguous`, actions `QuorumOnConsume`, `OutPacketsKept`; service: `ServiceTypeOK`, `SupplyMatchesRegistry`, `HeldFundsBacked`, `WindowLimitHolds` | `BridgeInv`, `ServiceInv` |
| `CouncilProofs` | `CouncilSound`, `VoterListSound`; action `GovernedByQuorum` | `GovernanceInv` |
| `EthereumProofs` | bridge: `EthBridgeTypeOK`, `ConsumedOnceEth`, `OutgoingContiguous`, action `VerdictNeedsQuorum`; service: `EthServiceTypeOK`, `ReserveAccounted`, `HoldingSolvent`, action `NayGoesToHolding` | `EthBridgeInv`, `EthInv` |
| `VerulinkProofs` | `OnlySentConsumed`, `FullyBacked`; refinement `ImplementsIdealBridge` | `VerulinkInv` |
| `IdealBridgeProofs` | `Backed` of the ideal bridge | `IdealInv` |
| `ChainServiceProofs` | `TypeOK`, `CompletedDelivered`, `OnlyMaturedSigned`, `ForgottenOnlyByCrash`; actions `ResumePointKept`, `GapKeptUntilDelivered` | `ChainServiceInv` |
| `AttestorProofs` | process: `OneVerdictPerPacket`, action `PacketsKept`; functions: `StartIsSound`, `SignaturesCheckOut`, and, without the bounds of the runs, `KeysAreOrdered`, `KeysAreReadBack` | `ProcessInv` |
| `PacketTotals` | lemmas on `Total` and `SumOf` | |

Assumptions. Each theorem rests on the named assumptions of its component's modules
(`BridgeAssumption`, `SupportedThresholdAssumption`, `ServiceAssumption`,
`CouncilAssumption`, `GovernanceAssumption`, `EthBridgeAssumption`,
`EthServiceAssumption`, `VerulinkAssumption`, `ChainServiceAssumption`,
`AttestorAssumption`, `TextAssumption`, `SigningAssumption`, `ConfigAssumption`), which TLC
evaluates in the runs. They say
that sets of addresses are finite, that constants have their types, that the zero
address is an address, that a u8 can count the signer slots, and that the accounts of
the contracts are different and belong to no user. `TS # NoOwner`: a program is never
the absent owner. A proposal has typed members (`new_member`, `amount`), as its struct
has. `VerulinkAssumption` also has the trust assumption of the design: fewer attestors
misbehave than the threshold. `ChainServiceAssumption` has the source chain start at a
height of at least `WaitHeight` and end below the modulus of the unsigned heights, and
an Ethereum wait of at least one block: without a wait the client may read a block that
still gets packets, and skip them. `SigningAssumption` says what a packet is: addresses of
Ethereum have `EthLen` bytes and those of Aleo are one token, the signing service's
configuration knows the destination by its kind, and the numbers of an Ethereum event fit
the u8 and u64 they are read into (the contract declares the same widths).
`TextAssumption` orders the lengths and widths. `ConfigAssumption` gives a chain the
members of Go's struct, durations that are not negative (YAML would allow them) and a
default block time that is not zero. The accepted names and URLs are no assumption:
`NewClient` refuses the others. Otherwise none of them bounds a counter: the bounds that keep TLC's
runs finite are guards of the next-state relations and are not used.

Totals and sums. `Total` and `SumOf` are cardinalities of sets of units, so the lemmas
of `PacketTotals` need no induction: adding or removing a packet changes the total by
its amount (`TotalAdd`, `TotalRemove`), changing one value of a ledger changes its sum
by the difference (`SumChange`), a new entry adds its value (`SumExtend`), and a payment
between two accounts leaves it (`SumMove`). That the units are finite is part of every
inductive invariant about totals.

Aleo bridge. Contiguity alone is not inductive: publishing must know that no packet is
stored at or above a chain's counter, including the entry of Aleo's own id, which
`publish` also counts; that is `PublishedBelowCounter`. `AttestorSetSound` needs the
type invariant for the u8 bounds and cardinality facts for adding and removing one
attestor (`AddAttestorCount`). `ConsumeQuorum` links the count of slots to the number of
distinct attestors: the signers of the used slots are pairwise different
(`CountSlotsIsCountAddresses`), and no used slot holds the zero address.

Aleo service. `RegistryInv` says that the supply is the sum of all balances. `HoldingInv`
adds to `HeldFundsBacked`, which speaks of the time before the holding program was
delegated to a wallet, that only the service owns the program until then, that an absent
owner means it never was, and that the units held are finite. `WindowInv` relates the
snapshot to history, when all windows have one and the same limit: it was taken at a
height already reached, the packets of the token since that height carry no more than
it records as withdrawn, that is within the limit, and no packet of the token is
younger than the end of its window. It was
written for one token at first; the proof failed because a removed and re-added token
shared its packets' amounts with another, which is why the history variable
`sent_token` records the token each packet took.

Council. `GovernedByQuorum` speaks of what the council holds before a step; a direct call
by someone else meets an owner check that then fails (`OwnerCall`, `ServiceOwnerCall`,
`HoldingOwnerCall`, `AdminCall`), and what the caller may change is not the council's. For the
wrappers the lemma `ApprovedQuorum` is the key: a voter list without gaps or repeats,
each voter of which voted, makes the count of accepting slots a count of distinct
accepting members. `CouncilSound` and `VoterListSound` are inductive together: a slot of
the list is filled at `proposal_vote_counts`, whose type is in `CouncilSound`.

Ethereum. `CountSignaturesIsCountSigners`: a strictly increasing list of signers has as
many signers as signatures. `ReserveInv` counts what was sent and withdrawn as sets of
packets, so it needs `OutgoingContiguous` and `ConsumedOnceEth`: the packet a step adds
is a new one. `HoldingInv` is an inequality, since anyone may send an ERC20 token to the
holding contract. The payments may go to an account of the bridge itself (a packet may
name any receiver); the accounts balance then too, which the proof made us model.

The whole bridge. `VerulinkInv` has five parts besides the three properties: the
attestors and the threshold are the configured ones; packets are stored under their own
number below the counter and carry the chain they came from, so a packet of one chain is
never one of the other and a new one is new; what was consumed is marked; the collector
has signatures of honest attestors over sent packets only; units in flight are finite.
`SomeoneHonest` is the pigeonhole: as many distinct signers as the threshold include
one that is not faulty. Hence what either vote count accepts was signed by an honest
attestor (`AleoConsumesSigned`, `EthConsumesSigned`), was sent, and was sent by the other
chain. Each action then is a `Deposit`, `Mint`, `Burn` or `Payout` of the ideal bridge
(`DepositEffect` and the others) or invisible to it (`QuietStep`: blocks, holding, vault,
blacklist, signing), and the same lemmas carry `FullyBacked`. The steps are those of
`Verulink`, in which both services are configured and not administered.

Attestor. `ChainServiceInv` says of every place a packet can be in what it is there:
`QueueInv`, `WorkerInv` and `DatabaseInv` have it emitted by the source chain, matured,
filed under its own number, with its height on Ethereum, and delivered where it is
completed. What the collector asked for is exempt from the wait. `ChainInv` says how
the source chain numbers its packets, over all destinations or for each, so that a
destination and a number name one packet (`NumberUnique`) and a smaller number is not in
a later block (`NumbersFollowHeights`): that is why the packets refetched for a gap, which
nothing compares with the matured height, are old enough (`GapMature`). `DeletionInv` is
for the concurrent deletions of `pruneBaseSeqNum`: above each key that is to go there is
one that stays, and all numbers between the two are delivered. So a deletion moves no
resume point back, and takes no packet out of a gap that still needs it
(`GapKeptUntilDelivered`). With that, `GapsAreFilled`, stated as `[]<>`, is the same as
`InGap ~> Delivered`: a packet is in its gap until it is delivered.

`ForgottenOnlyByCrash` is not inductive. It counts a packet as remembered that a worker
has only because the collector asked for it, and such a packet is dropped when it fails.
`KeptInv` is the stronger statement, which does not count these: without a crash each
packet is delivered, held on the attestor's own account (`Held`), ahead of the feed, in a
gap or in the retry namespace. It also needs `FeedNotAhead`, that the feed has not passed
what the chain emits next. Each action then moves a packet from one of these places to
another. After a crash only the types, `ChainInv` and `DatabaseInv` are used.

Of `Store`, the proof needs that a batch and what it leaves make up the namespace
(`BatchTaken`), and that the keys `PruneBaseSeqNum` deletes lie in one run below a key
that stays (`PruneResult`). Both operators are written without recursion for that
reason; the run ends at the least key whose successor is not there.

The attestor's process. `ProcessInv` is made of the types, `VerdictsInv`, `JobsInv`,
`FeedersInv`, `FetchedInv`, `WindowsInv` and `OrderInv`. A worker's verdict is that of the
screening service in each of its steps, also when it is read back from a packet's earlier
attempt, and every verdict stored or signed was some worker's; as `Screen` comes to one
verdict only, all signatures agree (`OneVerdictPerPacket`).

`PacketsKept` is an action property about places: ahead of the feed, in a gap, in
somebody's hand, completed. Most steps move a packet from one to the next. The two that
could drop one are the end of a window, where everything up to the packet just taken leaves
`ahead`, and a recovered panic, after which the feed starts again at `Resumed`. For the
first, `WindowsInv` says that whatever lies ahead of the feed, before a packet it is sending,
was fetched with it or is past the feed (`Past`: completed, stored for retry, with a worker or
with another sender), and `FetchedInv` that what is fetched is still ahead. For the second,
`OrderInv` says that the packets of a route get past the feed in order, but for those in a gap;
so what `Resumed` skips is
completed, in a gap, in somebody's hand, or shares its block with a completed packet. Carriers
never count on each other: any number of them may hold the same packet.

What the process computes. The keys of the database are ordered as numbers are, for every
base and number of bytes (`KeysAreOrdered`), and read back as the same number
(`KeysAreReadBack`). Both speak of a repeated division. Induction theorems cannot be used,
so each proof takes a least counterexample: the first step at which two sequences, of
quotients or of partial results, part (`LeastNat`, from the well-foundedness of the
naturals). The two keys share every byte before the first at which they differ, and
the smaller number has the smaller byte there.

`PacketReadBack` follows the text through the parser. The text is six concatenated
fields; `LaidOut` says which token is where, as a function of the address length
(`TextOfPacket`). The parser looks for the last token with a field's name, and none but
the expected place has it, as a value is no name (`FieldsOfText`, `StructsOfText`); the
slices it takes are then the members (`ValuesOfText`), and the bytes of a padded address
are its last ones. A text that ends early (`CutTokens`, `EndsWithin`) lacks the height, or its
value, or has its first digits there and every other token in its place (`LaidOutElsewhere`,
`ShortTextFails`, `CutTextIsRead`); the layout with another height is read like any other
(`TextIsRead`). `SignedHashIsChecked` has two halves for either chain: the bytes hashed by
the signing service are laid out as those the bridge recomputes (`HashedStruct`,
`RecomputedStruct`), and a layout belongs to one packet (`StructOfPacket`, `BytesOfPacket`),
so a signature is counted for that packet and no other. Hashes are injective because they
are symbolic; that BHP and Keccak have no collisions is assumed, as everywhere.

Only model-checked: liveness (`EventuallyCollected`, `GapsAreFilled`, `ShutdownEnds` and
the others), since fairness and ENABLED are out of the prover's reach, and the properties
of the three runs that expect a violation. Every invariant and action property of the
passing runs is stated by a theorem. Induction over data is out of reach as a rule; where
it was needed it could be replaced by a least counterexample or by an explicit layout.

## 5. Plan

Done: Aleo bridge and its proofs, token services, both chains together with the ideal
bridge, governance, the attestor's clients with their database, and the attestor as a
process with its configuration, packet formats and signing service.

Also done: the theorems of section 4 for all contracts and programs, the refinement of
the ideal bridge, and the theorems about the attestor's clients and database.

The same holds of the attestor's process, configuration, packet texts, signing service
and keys (`AttestorProofs`).

Left for models: a council larger than the voter slots of a call; `TokenServiceV2` once
the policy contract it calls is known.
