-------------------------- MODULE EthTokenService --------------------------
(***************************************************************************)
(* The Ethereum token service with its token registry, holding, blacklist  *)
(* and vault contracts (TokenService.sol, TokenSupport.sol, Holding.sol,   *)
(* BlackListService.sol, Erc20VaultService.sol, EthVaultService.sol), on   *)
(* top of the bridge contract of EthBridge.                                *)
(*                                                                         *)
(* One action is one transaction; reverts disable it.  Ether and ERC20     *)
(* tokens differ in how the amount reaches the contract, not in what the   *)
(* contract does with it: the two overloads of transfer, lock and release  *)
(* are one action each.  A token and its counterpart on Aleo share a name. *)
(* `funds' is what the ERC20 contracts and the network do to the accounts  *)
(* (external).                                                             *)
(***************************************************************************)
EXTENDS EthBridge

CONSTANTS
    TokenServiceAddr,   \* this token service
    AleoService,        \* the token service program on Aleo
    ALEO,               \* TokenSupport.destChainId
    ETH_TOKEN,          \* the token that stands for ether
    User,               \* accounts of users
    TS, HOLDING, VAULT, OWNER,   \* accounts of the contracts and of the owner
    NoVault,            \* the zero vault address
    Amounts,            \* amounts a caller may use
    InitialFunds,       \* funds of each user at the start
    InitialQuorum       \* quorum the service starts with

Accounts == Account \cup {TS, HOLDING, VAULT, OWNER}

ASSUME EthServiceAssumption ==
    /\ TokenServiceAddr \in Service /\ AleoService \in Service
    /\ ALEO \in Chain
    /\ User \subseteq Account
    /\ Amounts \subseteq Nat
    /\ InitialFunds \in Nat /\ InitialQuorum \in Nat \ {0}
    /\ Cardinality({TS, HOLDING, VAULT, OWNER}) = 4
    /\ {TS, HOLDING, VAULT, OWNER} \cap User = {}

VARIABLES
    supportedTokens,   \* token -> [vault, min, max, enabled]
    servicePaused,
    holdingSet,        \* setHolding has been called
    blackLists,        \* accounts on the owner's own list
    issuerLists,       \* accounts on the USDC / USDT lists (external)
    locked, unlocked,  \* Holding: user -> token -> amount
    holdingServices,   \* Holding: supported token services
    holdingPaused,
    funds,             \* token -> account -> amount (external)
    vaultFlow          \* history: token -> amount the owner moved out of TS, less
                       \* what TS was paid other than by transfer

tokenConfig == <<supportedTokens, servicePaused, holdingSet>>
lists == <<blackLists, issuerLists>>
holdingConfig == <<holdingServices, holdingPaused>>
money == <<locked, unlocked, funds, vaultFlow>>
ethServiceVars == <<tokenConfig, lists, holdingConfig, money>>
ethVars == <<ethBridgeVars, ethServiceVars>>

isBlackListed(account) == account \in blackLists \cup issuerLists

isSupportedToken(t) == t \in DOMAIN supportedTokens

isEnabledToken(t) == isSupportedToken(t) /\ supportedTokens[t].enabled

isAmountInRange(t, amount) == amount \in supportedTokens[t].min .. supportedTokens[t].max

Pay(f, t, from, to, amount) ==
    LET debited == [f EXCEPT ![t][from] = @ - amount]
    IN  [debited EXCEPT ![t][to] = @ + amount]

(* Of the two contracts, neither takes ether that a contract pays out. *)
CanBePaid(t, account) == t = ETH_TOKEN => account \notin {TS, HOLDING}

PaidBack(t, to, amount) ==
    vaultFlow' = IF to = TS THEN [vaultFlow EXCEPT ![t] = @ - amount] ELSE vaultFlow

-----------------------------------------------------------------------------
(* TokenSupport *)

SetTokens(new) ==
    /\ supportedTokens' = new
    /\ UNCHANGED <<ethBridgeVars, servicePaused, holdingSet, lists, holdingConfig, money>>

addToken(t, destChainId, vault, min, max) ==
    /\ ~isSupportedToken(t)
    /\ destChainId = ALEO
    /\ SetTokens([x \in DOMAIN supportedTokens \cup {t} |->
                    IF x = t THEN [vault |-> vault, min |-> min, max |-> max, enabled |-> TRUE]
                             ELSE supportedTokens[x]])

removeToken(t) ==
    /\ isSupportedToken(t)
    /\ SetTokens([x \in DOMAIN supportedTokens \ {t} |-> supportedTokens[x]])

updateVault(t, vault) ==
    isSupportedToken(t) /\ SetTokens([supportedTokens EXCEPT ![t].vault = vault])

enable(t) ==
    /\ isSupportedToken(t) /\ ~isEnabledToken(t)
    /\ SetTokens([supportedTokens EXCEPT ![t].enabled = TRUE])

disable(t) ==
    /\ isEnabledToken(t)
    /\ SetTokens([supportedTokens EXCEPT ![t].enabled = FALSE])

(* Neither update compares the minimum with the maximum. *)
updateMinValue(t, minValue) ==
    isSupportedToken(t) /\ SetTokens([supportedTokens EXCEPT ![t].min = minValue])

updateMaxValue(t, maxValue) ==
    isSupportedToken(t) /\ SetTokens([supportedTokens EXCEPT ![t].max = maxValue])

(* Pausing the service, wiring the holding contract, the blacklist *)

(* pause when running, unpause when paused: both are calls of the owner.   *)
pauseService ==
    /\ servicePaused' = ~servicePaused
    /\ UNCHANGED <<ethBridgeVars, supportedTokens, holdingSet, lists, holdingConfig, money>>

setHolding ==
    /\ holdingSet' = TRUE
    /\ UNCHANGED <<ethBridgeVars, supportedTokens, servicePaused, lists, holdingConfig, money>>

addToBlackList(account) ==
    /\ blackLists' = blackLists \cup {account}
    /\ UNCHANGED <<ethBridgeVars, tokenConfig, issuerLists, holdingConfig, money>>

removeFromBlackList(account) ==
    /\ blackLists' = blackLists \ {account}
    /\ UNCHANGED <<ethBridgeVars, tokenConfig, issuerLists, holdingConfig, money>>

(* The issuer of USDC or USDT changes its own list (external). *)
IssuerUpdates(new) ==
    /\ issuerLists' = new
    /\ UNCHANGED <<ethBridgeVars, tokenConfig, blackLists, holdingConfig, money>>

-----------------------------------------------------------------------------
(* Transfers *)

_packetify(sender, t, amount, receiver) ==
    [src |-> ETH_CHAIN_ID, dst |-> ALEO, srcService |-> TokenServiceAddr,
     dstService |-> AleoService, sequence |-> 0, token |-> t, amount |-> amount,
     sender |-> sender, receiver |-> receiver, height |-> blockNumber]

transfer(sender, t, amount, receiver) ==
    /\ ~servicePaused
    /\ funds[t][sender] >= amount
    /\ ~isBlackListed(sender)
    /\ isEnabledToken(t)
    /\ isAmountInRange(t, amount)
    /\ sendMessage(TokenServiceAddr, _packetify(sender, t, amount, receiver))
    /\ funds' = Pay(funds, t, sender, TS, amount)
    /\ UNCHANGED <<tokenConfig, lists, holdingConfig, locked, unlocked, vaultFlow>>

(* Mutant of lock: the amount is recorded and not paid over. *)
LockWithoutPaying(user, t, amount) ==
    /\ holdingSet
    /\ amount > 0
    /\ TokenServiceAddr \in holdingServices
    /\ locked' = [locked EXCEPT ![user][t] = @ + amount]
    /\ UNCHANGED <<funds, vaultFlow>>

(* Holding.lock, reached from withdraw with the amount already paid over.  *)
lock(user, t, amount) ==
    /\ holdingSet
    /\ amount > 0
    /\ TokenServiceAddr \in holdingServices
    /\ funds' = Pay(funds, t, TS, HOLDING, amount)
    /\ locked' = [locked EXCEPT ![user][t] = @ + amount]
    /\ UNCHANGED vaultFlow

(* A payment is made to whatever account the packet names, a contract of   *)
(* the bridge included.                                                    *)
payReceiver(packet) ==
    /\ CanBePaid(packet.token, packet.receiver)
    /\ funds' = Pay(funds, packet.token, TS, packet.receiver, packet.amount)
    /\ PaidBack(packet.token, packet.receiver, packet.amount)
    /\ UNCHANGED locked

(* Mutant of withdraw: only the blacklist sends funds to holding. *)
WithdrawIgnoresNay(packet, signatures) ==
    /\ ~servicePaused
    /\ packet.dstService = TokenServiceAddr
    /\ isEnabledToken(packet.token)
    /\ consume(TokenServiceAddr, packet, signatures)
    /\ funds[packet.token][TS] >= packet.amount
    /\ \/ isBlackListed(packet.receiver) /\ lock(packet.receiver, packet.token, packet.amount)
       \/ ~isBlackListed(packet.receiver) /\ payReceiver(packet)
    /\ UNCHANGED <<tokenConfig, lists, holdingConfig, unlocked>>

withdraw(packet, signatures) ==
    /\ ~servicePaused
    /\ packet.dstService = TokenServiceAddr
    /\ isEnabledToken(packet.token)
    /\ consume(TokenServiceAddr, packet, signatures)
    /\ funds[packet.token][TS] >= packet.amount
    /\ LET quorum == quorumOf(packet, signatures)
           toHolding == quorum = "NAY" \/ isBlackListed(packet.receiver)
       IN  \/ toHolding /\ lock(packet.receiver, packet.token, packet.amount)
           \/ ~toHolding /\ quorum = "YEA" /\ payReceiver(packet)
    /\ UNCHANGED <<tokenConfig, lists, holdingConfig, unlocked>>

transferToVault(t, amount) ==
    /\ isEnabledToken(t)
    /\ supportedTokens[t].vault # NoVault
    /\ funds[t][TS] >= amount
    /\ funds' = Pay(funds, t, TS, VAULT, amount)
    /\ vaultFlow' = [vaultFlow EXCEPT ![t] = @ + amount]
    /\ UNCHANGED <<ethBridgeVars, tokenConfig, lists, holdingConfig, locked, unlocked>>

(* The vault pays its owner, who alone may send ether back to the service. *)
vaultTransfer(t, amount) ==
    /\ funds[t][VAULT] >= amount
    /\ funds' = Pay(funds, t, VAULT, OWNER, amount)
    /\ UNCHANGED <<ethBridgeVars, tokenConfig, lists, holdingConfig, locked, unlocked, vaultFlow>>

receive(t, amount) ==
    /\ funds[t][OWNER] >= amount
    /\ funds' = Pay(funds, t, OWNER, TS, amount)
    /\ vaultFlow' = [vaultFlow EXCEPT ![t] = @ - amount]
    /\ UNCHANGED <<ethBridgeVars, tokenConfig, lists, holdingConfig, locked, unlocked>>

(* A user sends an ERC20 token straight to a contract (external); ether is *)
(* refused by both contracts.                                              *)
donate(t, from, to, amount) ==
    /\ t # ETH_TOKEN
    /\ funds[t][from] >= amount
    /\ funds' = Pay(funds, t, from, to, amount)
    /\ PaidBack(t, to, amount)
    /\ UNCHANGED <<ethBridgeVars, tokenConfig, lists, holdingConfig, locked, unlocked>>

-----------------------------------------------------------------------------
(* Holding *)

addHoldingService(service) ==
    /\ service \notin holdingServices
    /\ holdingServices' = holdingServices \cup {service}
    /\ UNCHANGED <<ethBridgeVars, tokenConfig, lists, holdingPaused, money>>

removeHoldingService(service) ==
    /\ service \in holdingServices
    /\ holdingServices' = holdingServices \ {service}
    /\ UNCHANGED <<ethBridgeVars, tokenConfig, lists, holdingPaused, money>>

pauseHolding ==
    /\ holdingPaused' = ~holdingPaused
    /\ UNCHANGED <<ethBridgeVars, tokenConfig, lists, holdingServices, money>>

(* Mutant of unlock: more may be unlocked than is locked. *)
UnlockUnchecked(user, t, amount) ==
    /\ locked' = [locked EXCEPT ![user][t] = @ - amount]
    /\ unlocked' = [unlocked EXCEPT ![user][t] = @ + amount]
    /\ UNCHANGED <<ethBridgeVars, tokenConfig, lists, holdingConfig, funds, vaultFlow>>

unlock(user, t, amount) ==
    /\ locked[user][t] >= amount
    /\ locked' = [locked EXCEPT ![user][t] = @ - amount]
    /\ unlocked' = [unlocked EXCEPT ![user][t] = @ + amount]
    /\ UNCHANGED <<ethBridgeVars, tokenConfig, lists, holdingConfig, funds, vaultFlow>>

(* Mutant of release: what was paid out stays unlocked. *)
ReleaseKeepsUnlocked(user, t) ==
    /\ ~holdingPaused
    /\ funds[t][HOLDING] >= unlocked[user][t]
    /\ CanBePaid(t, user)
    /\ funds' = Pay(funds, t, HOLDING, user, unlocked[user][t])
    /\ PaidBack(t, user, unlocked[user][t])
    /\ UNCHANGED <<ethBridgeVars, tokenConfig, lists, holdingConfig, locked, unlocked>>

(* Anyone may trigger the release of what the owner unlocked for a user.   *)
release(user, t) ==
    /\ ~holdingPaused
    /\ funds[t][HOLDING] >= unlocked[user][t]
    /\ CanBePaid(t, user)
    /\ funds' = Pay(funds, t, HOLDING, user, unlocked[user][t])
    /\ PaidBack(t, user, unlocked[user][t])
    /\ unlocked' = [unlocked EXCEPT ![user][t] = 0]
    /\ UNCHANGED <<ethBridgeVars, tokenConfig, lists, holdingConfig, locked>>

-----------------------------------------------------------------------------
(* The service over a bridge that its owner has set up. *)

EthBridgeReady ==
    /\ isAttestor = Address \ {ZERO_ADDRESS}
    /\ quorumRequired = InitialQuorum
    /\ tokenServices = {TokenServiceAddr}
    /\ destinationChainId = ALEO
    /\ bridgePaused = FALSE
    /\ sequence = 0
    /\ outgoingPackets = <<>>
    /\ consumedPackets = <<>>
    /\ consumptions = {}
    /\ blockNumber = 1

EthInit ==
    /\ EthBridgeReady
    /\ supportedTokens = <<>>
    /\ servicePaused = FALSE
    /\ holdingSet = FALSE
    /\ blackLists = {} /\ issuerLists = {}
    /\ locked = [u \in Account |-> [t \in Token |-> 0]]
    /\ unlocked = [u \in Account |-> [t \in Token |-> 0]]
    /\ holdingServices = {TokenServiceAddr}
    /\ holdingPaused = FALSE
    /\ funds = [t \in Token |-> [a \in Accounts |-> IF a \in User THEN InitialFunds ELSE 0]]
    /\ vaultFlow = [t \in Token |-> 0]

TokenOwnerCall ==
    \/ \E t \in Token :
         \/ \E c \in Chain, v \in {VAULT, NoVault}, min, max \in Amounts : addToken(t, c, v, min, max)
         \/ removeToken(t)
         \/ \E v \in {VAULT, NoVault} : updateVault(t, v)
         \/ enable(t) \/ disable(t)
         \/ \E n \in Amounts : updateMinValue(t, n)
         \/ \E n \in Amounts : updateMaxValue(t, n)
         \/ \E n \in Amounts : transferToVault(t, n)
         \/ \E n \in Amounts : vaultTransfer(t, n)
         \/ \E n \in Amounts : receive(t, n)
    \/ pauseService
    \/ setHolding
    \/ \E u \in User : addToBlackList(u) \/ removeFromBlackList(u)

HoldingCall ==
    \/ \E s \in Service : addHoldingService(s) \/ removeHoldingService(s)
    \/ pauseHolding
    \/ \E u \in Account, t \in Token, n \in Amounts : unlock(u, t, n)
    \/ \E u \in Account, t \in Token : release(u, t)

UserCall ==
    \/ \E u \in User, t \in Token, n \in Amounts, r \in Account :
         sequence < MaxSequence /\ transfer(u, t, n, r)
    \/ \E p \in InPackets : \E sigs \in SignatureLists(p) : withdraw(p, sigs)
    \/ \E u \in User, t \in Token, n \in Amounts, to \in {TS, HOLDING} : donate(t, u, to, n)

EthNext ==
    \/ TokenOwnerCall
    \/ HoldingCall
    \/ UserCall
    \/ \E new \in SUBSET User : IssuerUpdates(new)
    \/ blockNumber < MaxHeight /\ NewEthBlock /\ UNCHANGED ethServiceVars

EthSpec == EthInit /\ [][EthNext]_ethVars

-----------------------------------------------------------------------------
(* Properties *)

(* Type invariant of the token service, holding and ledger state.          *)
EthServiceTypeOK ==
    /\ EthBridgeTypeOK
    /\ DOMAIN supportedTokens \subseteq Token
    /\ \A t \in DOMAIN supportedTokens :
          supportedTokens[t] \in [vault : {VAULT, NoVault}, min : Nat, max : Nat, enabled : BOOLEAN]
    /\ servicePaused \in BOOLEAN /\ holdingSet \in BOOLEAN /\ holdingPaused \in BOOLEAN
    /\ blackLists \subseteq User /\ issuerLists \subseteq User
    /\ locked \in [Account -> [Token -> Nat]] /\ unlocked \in [Account -> [Token -> Nat]]
    /\ holdingServices \subseteq Service
    /\ funds \in [Token -> [Accounts -> Nat]]
    /\ vaultFlow \in [Token -> Int]

Sent == {outgoingPackets[n] : n \in DOMAIN outgoingPackets}
Withdrawn == {consumedPackets[n] : n \in DOMAIN consumedPackets}

(* The service holds exactly what transfers brought in, less what consumed *)
(* packets took out and what the owner moved to or from the vault: every   *)
(* consumed packet pays its amount once, to the receiver or to holding.    *)
(* (What the service was paid otherwise is part of vaultFlow.)             *)
ReserveAccounted ==
    \A t \in Token : funds[t][TS] + Total(Withdrawn, t) + vaultFlow[t] = Total(Sent, t)

(* The holding contract can always pay out what it records as locked or    *)
(* unlocked, in whatever order locks, unlocks and releases happen.         *)
HoldingSolvent ==
    \A t \in Token :
        SumOf([u \in Account |-> locked[u][t] + unlocked[u][t]]) <= funds[t][HOLDING]

(* A packet that was voted NAY is never paid to its receiver by withdraw:  *)
(* its amount arrives in the holding contract in the same step.            *)
NayGoesToHolding ==
    [][\A r \in consumptions' \ consumptions :
          r.verdict # "YEA" =>
              \A t \in Token :
                  funds'[t][HOLDING] - funds[t][HOLDING] = Total({r.packet}, t)]_ethVars
=============================================================================
