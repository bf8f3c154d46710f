-------------------------- MODULE AleoTokenService --------------------------
(***************************************************************************)
(* The Aleo token service and holding programs,                            *)
(* aleo/programs/vlink_token_service_v1.leo and vlink_holding_v1.leo, on   *)
(* top of the bridge program of AleoTokenBridge.                           *)
(*                                                                         *)
(* One action is one transaction: token_send and token_receive include the *)
(* calls to publish/consume, to the token registry and to the holding      *)
(* program.  Mappings that are always set and removed together are one     *)
(* variable: token_info holds min_transfers, max_transfers,                *)
(* token_withdrawal_limits and token_status of the added tokens; other_chain *)
(* holds other_chain_token_service and other_chain_token_address;          *)
(* token_snapshot holds the snapshot supply, height and amount withdrawn.  *)
(* token_snapshot_withdrawal is never used by the program.                 *)
(*                                                                         *)
(* The registry (token_registry.aleo) is external: `balances' is what its  *)
(* mint_public, burn_public and transfer_public do to the accounts.        *)
(***************************************************************************)
EXTENDS AleoTokenBridge

CONSTANTS
    TS,                  \* the address of the token service program
    HOLDING_ADDRESS,     \* the account of the holding program
    HUNDRED_PERCENTAGE,  \* 100_00 basis points in the code
    Amounts,             \* amounts a caller may use
    Limits,              \* withdrawal limits the owner may set
    InitialThreshold,    \* bridge threshold the service starts with
    MaxHeld              \* bound: amount a wallet that owns the holding program records

ASSUME ServiceAssumption ==
    /\ TS \in Service /\ TS # NoOwner
    /\ HOLDING_ADDRESS \in Account
    /\ HUNDRED_PERCENTAGE \in Nat \ {0}
    /\ Amounts \subseteq Nat \ {0}   \* releasing 0 from an absent entry fails in the program
    /\ Limits \subseteq [percentage : 0 .. HUNDRED_PERCENTAGE, duration : Nat,
                         threshold_no_limit : Nat]
    /\ MaxHeld \in Nat
    /\ InitialThreshold \in 1 .. Cardinality(Address \ {ZERO_ADDRESS})
    /\ Cardinality(Address \ {ZERO_ADDRESS}) <= U8_MAX

VARIABLES
    owner_TS,        \* owner of the service, NoOwner until initialized
    token_info,      \* added tokens -> [min, max, limit, paused]
    other_chain,     \* <<chain, token>> -> [service, address]
    total_supply,    \* token -> supply, from the first token_receive on
    token_snapshot,  \* token -> [supply, height, withdrawn], from the first token_send on
    sent_token,      \* history: id of a packet of token_send -> the token it took
    token_holding,   \* token -> amount held (absent entries read as 0)
    holdings,        \* holding program: account -> token -> amount
    owner_holding,   \* holding program: its owner, NoOwner until initialized
    delegated,       \* history: the holding program had an owner other than TS
    balances         \* registry (external): token -> account -> amount

config == <<owner_TS, token_info, other_chain>>
ledger == <<total_supply, token_holding, holdings, balances>>
window == <<token_snapshot, sent_token>>
held_by == <<owner_holding, delegated>>
serviceVars == <<config, ledger, window, held_by>>
vars == <<bridgeVars, serviceVars>>

(* f with the entry k added or replaced. *)
Put(f, k, v) == [x \in DOMAIN f \cup {k} |-> IF x = k THEN v ELSE f[x]]

(* f without the entry k. *)
Drop(f, k) == [x \in DOMAIN f \ {k} |-> f[x]]

Supply(t) == IF t \in DOMAIN total_supply THEN total_supply[t] ELSE 0

-----------------------------------------------------------------------------
(* Administration by the owner (the council program) *)

initialize_ts(owner) ==
    /\ owner_TS = NoOwner
    /\ owner_TS' = owner
    /\ UNCHANGED <<bridgeVars, token_info, other_chain, ledger, window, held_by>>

transfer_ownership_ts(from, new_owner) ==
    /\ from = owner_TS
    /\ owner_TS' = new_owner
    /\ UNCHANGED <<bridgeVars, token_info, other_chain, ledger, window, held_by>>

SetOtherChain(from, new) ==
    /\ from = owner_TS
    /\ other_chain' = new
    /\ UNCHANGED <<bridgeVars, owner_TS, token_info, ledger, window, held_by>>

update_other_chain_tokenservice(from, chain_id, t, service) ==
    /\ <<chain_id, t>> \in DOMAIN other_chain
    /\ SetOtherChain(from, [other_chain EXCEPT ![<<chain_id, t>>].service = service])

update_other_chain_tokenaddress(from, chain_id, t, address) ==
    /\ <<chain_id, t>> \in DOMAIN other_chain
    /\ SetOtherChain(from, [other_chain EXCEPT ![<<chain_id, t>>].address = address])

remove_other_chain_addresses(from, chain_id, t) ==
    /\ <<chain_id, t>> \in DOMAIN other_chain
    /\ SetOtherChain(from, Drop(other_chain, <<chain_id, t>>))

add_chain_to_existing_token(from, chain_id, t, service, address) ==
    /\ t \in DOMAIN token_info
    /\ SetOtherChain(from, Put(other_chain, <<chain_id, t>>,
                               [service |-> service, address |-> address]))

add_token_ts(from, t, min, max, limit, chain_id, service, address) ==
    /\ max >= min
    /\ from = owner_TS
    /\ t \notin DOMAIN token_info
    /\ token_info' = Put(token_info, t, [min |-> min, max |-> max, limit |-> limit, paused |-> TRUE])
    /\ other_chain' = Put(other_chain, <<chain_id, t>>, [service |-> service, address |-> address])
    /\ UNCHANGED <<bridgeVars, owner_TS, ledger, window, held_by>>

SetTokenInfo(from, new) ==
    /\ from = owner_TS
    /\ token_info' = new
    /\ UNCHANGED <<bridgeVars, owner_TS, other_chain, ledger, window, held_by>>

(* Only the entries of token_info go; supply, snapshot, held amounts and   *)
(* the addresses on other chains stay.                                     *)
remove_token_ts(from, t) ==
    /\ t \in DOMAIN token_info
    /\ SetTokenInfo(from, Drop(token_info, t))

pause_token_ts(from, t) ==
    /\ t \in DOMAIN token_info
    /\ SetTokenInfo(from, [token_info EXCEPT ![t].paused = TRUE])

unpause_token_ts(from, t) ==
    /\ t \in DOMAIN token_info
    /\ SetTokenInfo(from, [token_info EXCEPT ![t].paused = FALSE])

update_min_transfer_ts(from, t, min) ==
    /\ t \in DOMAIN token_info /\ min <= token_info[t].max
    /\ SetTokenInfo(from, [token_info EXCEPT ![t].min = min])

update_max_transfer_ts(from, t, max) ==
    /\ t \in DOMAIN token_info /\ max >= token_info[t].min
    /\ SetTokenInfo(from, [token_info EXCEPT ![t].max = max])

update_withdrawal_limit(from, t, limit) ==
    /\ t \in DOMAIN token_info
    /\ SetTokenInfo(from, [token_info EXCEPT ![t].limit = limit])

-----------------------------------------------------------------------------
(* Token transfers *)

get_x_percent_of_y(x_percent, y) == (y * x_percent) \div HUNDRED_PERCENTAGE

(* A snapshot is stale once its window of `duration' blocks has passed.    *)
SnapshotExpired(t) ==
    block_height - (IF t \in DOMAIN token_snapshot THEN token_snapshot[t].height ELSE 0)
        > token_info[t].limit.duration

(* Mutant of NextSnapshot: a send replaces the amount withdrawn so far. *)
SnapshotForgets(t, amount) ==
    IF SnapshotExpired(t)
    THEN [supply |-> total_supply[t] - token_holding[t], height |-> block_height,
          withdrawn |-> amount]
    ELSE [token_snapshot[t] EXCEPT !.withdrawn = amount]

(* The snapshot token_send leaves behind.                                  *)
NextSnapshot(t, amount) ==
    IF SnapshotExpired(t)
    THEN [supply |-> total_supply[t] - token_holding[t], height |-> block_height,
          withdrawn |-> amount]
    ELSE [token_snapshot[t] EXCEPT !.withdrawn = @ + amount]

WithinLimit(limit, snapshot) ==
    snapshot.supply >= limit.threshold_no_limit =>
        snapshot.withdrawn <= get_x_percent_of_y(limit.percentage, snapshot.supply)

(* Mutant of token_send: total_supply is not lowered. *)
SendKeepsSupply(sender, t, receiver, amount, chain_id, service, address) ==
    /\ t \in DOMAIN token_info
    /\ amount \in token_info[t].min .. token_info[t].max
    /\ <<chain_id, t>> \in DOMAIN other_chain
    /\ other_chain[<<chain_id, t>>] = [service |-> service, address |-> address]
    /\ ~token_info[t].paused
    /\ t \in DOMAIN total_supply
    /\ SnapshotExpired(t) /\ total_supply[t] >= token_holding[t]
    /\ WithinLimit(token_info[t].limit, NextSnapshot(t, amount))
    /\ balances[t][sender] >= amount
    /\ publish(TS, chain_id, service, address, sender, receiver, amount)
    /\ token_snapshot' = Put(token_snapshot, t, NextSnapshot(t, amount))
    /\ sent_token' = Put(sent_token, <<chain_id, sequences[chain_id]>>, t)
    /\ balances' = [balances EXCEPT ![t][sender] = @ - amount]
    /\ UNCHANGED <<config, total_supply, token_holding, holdings, held_by>>

token_send(sender, t, receiver, amount, chain_id, service, address) ==
    /\ t \in DOMAIN token_info
    /\ amount \in token_info[t].min .. token_info[t].max
    /\ <<chain_id, t>> \in DOMAIN other_chain
    /\ other_chain[<<chain_id, t>>] = [service |-> service, address |-> address]
    /\ ~token_info[t].paused
    /\ t \in DOMAIN total_supply
    /\ SnapshotExpired(t) => total_supply[t] >= token_holding[t]
    /\ ~SnapshotExpired(t) => t \in DOMAIN token_snapshot
    /\ WithinLimit(token_info[t].limit, NextSnapshot(t, amount))
    /\ total_supply[t] >= amount
    /\ balances[t][sender] >= amount
    /\ publish(TS, chain_id, service, address, sender, receiver, amount)
    /\ token_snapshot' = Put(token_snapshot, t, NextSnapshot(t, amount))
    /\ sent_token' = Put(sent_token, <<chain_id, sequences[chain_id]>>, t)
    /\ total_supply' = [total_supply EXCEPT ![t] = @ - amount]
    /\ balances' = [balances EXCEPT ![t][sender] = @ - amount]
    /\ UNCHANGED <<config, token_holding, holdings, held_by>>

(* hold_fund is called for every packet, with amount 0 unless screening    *)
(* failed.                                                                 *)
HeldAmount(pkt, signers, signs) ==
    IF screening_passed(pkt, signers, signs) THEN 0 ELSE pkt.amount

hold_fund(from, user, t, amount) ==
    /\ from = owner_holding
    /\ holdings' = [holdings EXCEPT ![user][t] = @ + amount]
    /\ UNCHANGED held_by

(* Mutant of token_receive: what failed screening is minted to the receiver. *)
ReceiverAlwaysPaid(pkt, signers, signs) ==
    /\ pkt.token \in DOMAIN token_info
    /\ ~token_info[pkt.token].paused
    /\ <<pkt.src, pkt.token>> \in DOMAIN other_chain
    /\ other_chain[<<pkt.src, pkt.token>>].service = pkt.srcService
    /\ consume(TS, pkt, signers, signs)
    /\ LET held == HeldAmount(pkt, signers, signs)
       IN  /\ balances' = [balances EXCEPT ![pkt.token][pkt.receiver] = @ + pkt.amount]
           /\ hold_fund(TS, pkt.receiver, pkt.token, held)
           /\ token_holding' = [token_holding EXCEPT ![pkt.token] = @ + held]
    /\ total_supply' = Put(total_supply, pkt.token, Supply(pkt.token) + pkt.amount)
    /\ UNCHANGED <<config, window>>

(* Mutant of token_receive: held funds do not count as supply. *)
HeldNotSupplied(pkt, signers, signs) ==
    /\ pkt.token \in DOMAIN token_info
    /\ ~token_info[pkt.token].paused
    /\ <<pkt.src, pkt.token>> \in DOMAIN other_chain
    /\ other_chain[<<pkt.src, pkt.token>>].service = pkt.srcService
    /\ consume(TS, pkt, signers, signs)
    /\ LET held == HeldAmount(pkt, signers, signs)
       IN  /\ balances' = [balances EXCEPT ![pkt.token][HOLDING_ADDRESS] = @ + held]
           /\ hold_fund(TS, pkt.receiver, pkt.token, held)
           /\ token_holding' = [token_holding EXCEPT ![pkt.token] = @ + held]
           /\ total_supply' = Put(total_supply, pkt.token, Supply(pkt.token) + pkt.amount - held)
    /\ UNCHANGED <<config, window>>

token_receive(pkt, signers, signs) ==
    /\ pkt.token \in DOMAIN token_info
    /\ ~token_info[pkt.token].paused
    /\ <<pkt.src, pkt.token>> \in DOMAIN other_chain
    /\ other_chain[<<pkt.src, pkt.token>>].service = pkt.srcService
    /\ consume(TS, pkt, signers, signs)
    /\ LET held == HeldAmount(pkt, signers, signs)
           actual_receiver == IF screening_passed(pkt, signers, signs)
                              THEN pkt.receiver ELSE HOLDING_ADDRESS
       IN  /\ balances' = [balances EXCEPT ![pkt.token][actual_receiver] = @ + pkt.amount]
           /\ hold_fund(TS, pkt.receiver, pkt.token, held)
           /\ token_holding' = [token_holding EXCEPT ![pkt.token] = @ + held]
    /\ total_supply' = Put(total_supply, pkt.token, Supply(pkt.token) + pkt.amount)
    /\ UNCHANGED <<config, window>>

release_fund(from, user, t, amount) ==
    /\ from = owner_holding
    /\ balances[t][HOLDING_ADDRESS] >= amount
    /\ holdings[user][t] >= amount
    /\ holdings' = [holdings EXCEPT ![user][t] = @ - amount]
    /\ balances' = LET debited == [balances EXCEPT ![t][HOLDING_ADDRESS] = @ - amount]
                   IN  [debited EXCEPT ![t][user] = @ + amount]
    /\ UNCHANGED held_by

(* Mutant of holding_release: token_holding is lowered unchecked. *)
ReleaseUnchecked(from, t, user, amount) ==
    /\ from = owner_TS
    /\ release_fund(TS, user, t, amount)
    /\ token_holding' = [token_holding EXCEPT ![t] = @ - amount]
    /\ UNCHANGED <<bridgeVars, config, total_supply, window>>

holding_release(from, t, user, amount) ==
    /\ from = owner_TS
    /\ token_holding[t] >= amount
    /\ release_fund(TS, user, t, amount)
    /\ token_holding' = [token_holding EXCEPT ![t] = @ - amount]
    /\ UNCHANGED <<bridgeVars, config, total_supply, window>>

(* The holding program's own entry points. *)
initialize_holding(owner) ==
    /\ owner_holding = NoOwner
    /\ owner_holding' = owner
    /\ delegated' = (owner # TS)
    /\ UNCHANGED <<bridgeVars, config, ledger, window>>

transfer_ownership_holding(from, new_owner) ==
    /\ from = owner_holding
    /\ owner_holding' = new_owner
    /\ delegated' = (delegated \/ new_owner # TS)
    /\ UNCHANGED <<bridgeVars, config, ledger, window>>

holding_transfer_ownership(from, new_owner) ==
    /\ from = owner_TS
    /\ transfer_ownership_holding(TS, new_owner)

(* A wallet that owns the holding program calls it without the service.    *)
DirectHold(from, user, t, amount) ==
    /\ from # TS
    /\ hold_fund(from, user, t, amount)
    /\ UNCHANGED <<bridgeVars, config, total_supply, token_holding, balances, window>>

DirectRelease(from, user, t, amount) ==
    /\ from # TS
    /\ release_fund(from, user, t, amount)
    /\ UNCHANGED <<bridgeVars, config, total_supply, token_holding, window>>

(* token_registry.aleo/transfer_public by a token holder (external). *)
transfer_public(t, from, to, amount) ==
    /\ from # HOLDING_ADDRESS
    /\ balances[t][from] >= amount
    /\ balances' = LET debited == [balances EXCEPT ![t][from] = @ - amount]
                   IN  [debited EXCEPT ![t][to] = @ + amount]
    /\ UNCHANGED <<bridgeVars, config, total_supply, token_holding, holdings, window,
                   held_by>>

-----------------------------------------------------------------------------
(* The service over a bridge that its owner has set up: every non-zero     *)
(* address attests, every foreign chain is supported.                      *)

BridgeReady ==
    /\ owner_TB \in Owner
    /\ threshold = InitialThreshold
    /\ total_attestors = Cardinality(Address \ {ZERO_ADDRESS})
    /\ unpaused = TRUE
    /\ attestors = Address
    /\ supported_chains = Chain \ {ALEO_CHAIN_ID}
    /\ supported_services = {TS}
    /\ sequences = [c \in Chain |-> 1]
    /\ out_packets = <<>>
    /\ in_packet_consumed = {}
    /\ received = {}
    /\ block_height = 1

Init ==
    /\ BridgeReady
    /\ owner_TS = NoOwner
    /\ token_info = <<>>
    /\ other_chain = <<>>
    /\ total_supply = <<>>
    /\ token_snapshot = <<>>
    /\ sent_token = <<>>
    /\ token_holding = [t \in Token |-> 0]
    /\ holdings = [a \in Account |-> [t \in Token |-> 0]]
    /\ owner_holding = NoOwner
    /\ delegated = FALSE
    /\ balances = [t \in Token |-> [a \in Account |-> 0]]

Administer(from) ==
    \/ \E o \in Owner : transfer_ownership_ts(from, o)
    \/ \E t \in Token, c \in Chain \ {ALEO_CHAIN_ID}, s \in Service, a \in Token :
          \/ update_other_chain_tokenservice(from, c, t, s)
          \/ update_other_chain_tokenaddress(from, c, t, a)
          \/ remove_other_chain_addresses(from, c, t)
          \/ add_chain_to_existing_token(from, c, t, s, a)
          \/ \E min, max \in Amounts, l \in Limits : add_token_ts(from, t, min, max, l, c, s, a)
    \/ \E t \in Token :
          \/ remove_token_ts(from, t)
          \/ pause_token_ts(from, t)
          \/ unpause_token_ts(from, t)
          \/ \E n \in Amounts : update_min_transfer_ts(from, t, n)
          \/ \E n \in Amounts : update_max_transfer_ts(from, t, n)
          \/ \E l \in Limits : update_withdrawal_limit(from, t, l)
          \/ \E u \in Account, n \in Amounts : holding_release(from, t, u, n)
    \/ \E o \in Owner \cup {TS} : holding_transfer_ownership(from, o)

Receive ==
    \E p \in InPackets, signers \in [Slots -> Address], vs \in [Slots -> Verdict] :
        token_receive(p, signers, [i \in Slots |-> Sign(signers[i], p, vs[i])])

Send ==
    \E t \in Token, c \in Chain, u \in Account \ {HOLDING_ADDRESS}, v \in Account,
       n \in Amounts, s \in Service, a \in Token :
        /\ sequences[c] <= MaxSequence
        /\ token_send(u, t, v, n, c, s, a)

HoldingOwnerStep(from) ==
    \/ \E o \in Owner \cup {TS} : transfer_ownership_holding(from, o)
    \/ \E u \in Account, t \in Token, n \in Amounts :
          \/ holdings[u][t] + n <= MaxHeld /\ DirectHold(from, u, t, n)
          \/ DirectRelease(from, u, t, n)

Next ==
    \/ \E o \in Owner : initialize_ts(o)
    \/ \E o \in Owner \cup {TS} : initialize_holding(o)
    \/ \E from \in Owner : Administer(from) \/ HoldingOwnerStep(from)
    \/ Receive
    \/ Send
    \/ \E t \in Token, u, v \in Account, n \in Amounts : transfer_public(t, u, v, n)
    \/ block_height < MaxHeight /\ NewBlock /\ UNCHANGED serviceVars

Spec == Init /\ [][Next]_vars

-----------------------------------------------------------------------------
(* Properties *)

(* Type invariant of the service, holding and registry state.              *)
ServiceTypeOK ==
    /\ BridgeTypeOK
    /\ owner_TS \in Owner \cup {NoOwner}
    /\ DOMAIN token_info \subseteq Token
    /\ \A t \in DOMAIN token_info :
          token_info[t] \in [min : Nat, max : Nat, limit : Limits, paused : BOOLEAN]
    /\ DOMAIN other_chain \subseteq Chain \X Token
    /\ \A k \in DOMAIN other_chain : other_chain[k] \in [service : Service, address : Token]
    /\ DOMAIN total_supply \subseteq Token
    /\ \A t \in DOMAIN total_supply : total_supply[t] \in Nat
    /\ DOMAIN token_snapshot \subseteq Token
    /\ \A t \in DOMAIN token_snapshot :
          token_snapshot[t] \in [supply : Nat, height : Nat, withdrawn : Nat]
    /\ DOMAIN sent_token \subseteq DOMAIN out_packets
    /\ \A id \in DOMAIN sent_token : sent_token[id] \in Token
    /\ token_holding \in [Token -> Nat]
    /\ holdings \in [Account -> [Token -> Nat]]
    /\ owner_holding \in Owner \cup {TS, NoOwner}
    /\ delegated \in BOOLEAN
    /\ balances \in [Token -> [Account -> Nat]]

(* total_supply, which the withdrawal limit is computed from, is always    *)
(* the amount of the token that exists in the registry, through sends,     *)
(* receives, releases and removal and re-adding of the token.              *)
SupplyMatchesRegistry == \A t \in Token : Supply(t) = SumOf(balances[t])

(* token_holding of the service, holdings of the holding program and the   *)
(* registry balance of the holding account agree: every held amount can be *)
(* released.  It holds as long as only the service owns the holding        *)
(* program; a wallet that owns it bypasses the service's own counter.      *)
HeldFundsBacked ==
    ~delegated =>
        \A t \in Token :
            /\ token_holding[t] = SumOf([a \in Account |-> holdings[a][t]])
            /\ token_holding[t] <= balances[t][HOLDING_ADDRESS]

SentSince(t, h) ==
    SumOf([id \in {i \in DOMAIN sent_token : sent_token[i] = t /\ out_packets[i].height >= h}
             |-> out_packets[id].amount])

(* What was really published since the last snapshot stays within the      *)
(* percentage of the snapshot supply, whatever tokens were removed, added  *)
(* or paused in between (limits themselves unchanged).                     *)
WindowLimitHolds ==
    \A t \in DOMAIN token_snapshot, limit \in Limits :
        /\ Limits = {limit}
        /\ token_snapshot[t].supply >= limit.threshold_no_limit
        => SentSince(t, token_snapshot[t].height)
             <= get_x_percent_of_y(limit.percentage, token_snapshot[t].supply)
=============================================================================
