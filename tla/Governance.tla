----------------------------- MODULE Governance -----------------------------
(***************************************************************************)
(* The council of Council governing the Aleo programs: the wrapper         *)
(* programs vlink_bridge_council_v1.leo, which owns the bridge, and        *)
(* vlink_token_service_council_v1.leo, which owns the token service and    *)
(* administers the registered tokens.  Every wrapper is one transaction: a *)
(* call of the program it owns and external_execute of the council.        *)
(*                                                                         *)
(* A proposal can hand the bridge, the service, the holding program or a   *)
(* registered token to another owner, who then calls the programs itself:  *)
(* any caller may try any of their transitions at any time, and the owner  *)
(* checks of the programs decide.  Of the users' steps only Receive is     *)
(* kept: it creates the held funds that an owner may release.              *)
(***************************************************************************)
EXTENDS AleoTokenService, Council

CONSTANTS
    BRIDGE_COUNCIL,     \* address of vlink_bridge_council_v1
    SERVICE_COUNCIL,    \* address of vlink_token_service_council_v1
    InitialLimit        \* withdrawal limit of the tokens at the start

ASSUME GovernanceAssumption ==
    /\ {BRIDGE_COUNCIL, SERVICE_COUNCIL} \subseteq Owner
    /\ InitialLimit \in Limits
    /\ \A p \in Proposals : "amount" \in DOMAIN p => p.amount \in Nat

VARIABLES
    registered_tokens,   \* token registry (external): token -> admin
    roles                \* token registry (external): <<token, account>> -> role

registry == <<registered_tokens, roles>>
governanceVars == <<vars, councilVars, registry>>

(* Deployment is complete but for the council itself, which starts empty.  *)
GovernanceInit ==
    /\ BridgeReady /\ owner_TB = BRIDGE_COUNCIL
    /\ owner_TS = SERVICE_COUNCIL
    /\ token_info = [t \in Token |-> [min |-> 0, max |-> 0, limit |-> InitialLimit, paused |-> FALSE]]
    /\ other_chain = [k \in (Chain \ {ALEO_CHAIN_ID}) \X Token |->
                        [service |-> CHOOSE s \in Service : TRUE, address |-> k[2]]]
    /\ total_supply = <<>> /\ token_snapshot = <<>> /\ sent_token = <<>>
    /\ token_holding = [t \in Token |-> 0]
    /\ holdings = [a \in Account |-> [t \in Token |-> 0]]
    /\ owner_holding = TS /\ delegated = FALSE
    /\ balances = [t \in Token |-> [a \in Account |-> 0]]
    /\ registered_tokens = <<>>
    /\ roles = <<>>
    /\ CouncilInit

-----------------------------------------------------------------------------
(* vlink_bridge_council_v1 *)

tb_transfer_ownership(id, new_owner, voters) ==
    /\ transfer_ownership_tb(BRIDGE_COUNCIL, new_owner)
    /\ external_execute([id |-> id, new_owner |-> new_owner], voters)

tb_add_attestor(id, new_attestor, new_threshold, voters) ==
    /\ add_attestor_tb(BRIDGE_COUNCIL, new_attestor, new_threshold)
    /\ external_execute([id |-> id, new_attestor |-> new_attestor,
                         new_threshold |-> new_threshold], voters)

tb_remove_attestor(id, existing_attestor, new_threshold, voters) ==
    /\ remove_attestor_tb(BRIDGE_COUNCIL, existing_attestor, new_threshold)
    /\ external_execute([id |-> id, existing_attestor |-> existing_attestor,
                         new_threshold |-> new_threshold], voters)

tb_update_threshold(id, new_threshold, voters) ==
    /\ update_threshold_tb(BRIDGE_COUNCIL, new_threshold)
    /\ external_execute([id |-> id, new_threshold |-> new_threshold], voters)

tb_add_chain(id, chain_id, voters) ==
    /\ add_chain_tb(BRIDGE_COUNCIL, chain_id)
    /\ external_execute([id |-> id, chain_id |-> chain_id], voters)

tb_remove_chain(id, chain_id, voters) ==
    /\ remove_chain_tb(BRIDGE_COUNCIL, chain_id)
    /\ external_execute([id |-> id, chain_id |-> chain_id], voters)

tb_add_service(id, service, voters) ==
    /\ add_service_tb(BRIDGE_COUNCIL, service)
    /\ external_execute([id |-> id, service |-> service], voters)

tb_remove_service(id, service, voters) ==
    /\ remove_service_tb(BRIDGE_COUNCIL, service)
    /\ external_execute([id |-> id, service |-> service], voters)

tb_pause(id, voters) == pause_tb(BRIDGE_COUNCIL) /\ external_execute([id |-> id], voters)

tb_unpause(id, voters) == unpause_tb(BRIDGE_COUNCIL) /\ external_execute([id |-> id], voters)

(* Has reports the members of a proposal, which select the wrapper that    *)
(* can execute it.                                                         *)
Has(p, fields) == DOMAIN p = fields

BridgeProposal(p, voters) ==
    /\ \/ Has(p, {"id", "new_owner"}) /\ tb_transfer_ownership(p.id, p.new_owner, voters)
       \/ /\ Has(p, {"id", "new_attestor", "new_threshold"})
          /\ tb_add_attestor(p.id, p.new_attestor, p.new_threshold, voters)
       \/ /\ Has(p, {"id", "existing_attestor", "new_threshold"})
          /\ tb_remove_attestor(p.id, p.existing_attestor, p.new_threshold, voters)
       \/ Has(p, {"id", "new_threshold"}) /\ tb_update_threshold(p.id, p.new_threshold, voters)
       \/ Has(p, {"id", "chain_id"}) /\ tb_add_chain(p.id, p.chain_id, voters)
       \/ Has(p, {"id", "chain_id"}) /\ tb_remove_chain(p.id, p.chain_id, voters)
       \/ Has(p, {"id", "service"}) /\ tb_add_service(p.id, p.service, voters)
       \/ Has(p, {"id", "service"}) /\ tb_remove_service(p.id, p.service, voters)
       \/ Has(p, {"id"}) /\ tb_pause(p.id, voters)
       \/ Has(p, {"id"}) /\ tb_unpause(p.id, voters)
    /\ UNCHANGED <<serviceVars, registry>>

-----------------------------------------------------------------------------
(* vlink_token_service_council_v1 *)

ts_transfer_ownership(id, new_owner, voters) ==
    /\ transfer_ownership_ts(SERVICE_COUNCIL, new_owner)
    /\ external_execute([id |-> id, new_owner |-> new_owner], voters)

(* `limit' stands for outgoing_percentage, time and max_no_cap. *)
ts_add_token(id, t, min, max, limit, token_address, token_service, chain_id, voters) ==
    /\ add_token_ts(SERVICE_COUNCIL, t, min, max, limit, chain_id, token_service, token_address)
    /\ external_execute([id |-> id, token_id |-> t, min_transfer |-> min, max_transfer |-> max,
                         limit |-> limit, token_address |-> token_address,
                         token_service |-> token_service, chain_id |-> chain_id], voters)

ts_remove_token(id, t, voters) ==
    /\ remove_token_ts(SERVICE_COUNCIL, t)
    /\ external_execute([id |-> id, token_id |-> t], voters)

ts_update_min_transfer(id, t, min, voters) ==
    /\ update_min_transfer_ts(SERVICE_COUNCIL, t, min)
    /\ external_execute([id |-> id, token_id |-> t, min_transfer |-> min], voters)

ts_update_max_transfer(id, t, max, voters) ==
    /\ update_max_transfer_ts(SERVICE_COUNCIL, t, max)
    /\ external_execute([id |-> id, token_id |-> t, max_transfer |-> max], voters)

ts_pause_token(id, t, voters) ==
    /\ pause_token_ts(SERVICE_COUNCIL, t)
    /\ external_execute([id |-> id, token_id |-> t], voters)

ts_unpause_token(id, t, voters) ==
    /\ unpause_token_ts(SERVICE_COUNCIL, t)
    /\ external_execute([id |-> id, token_id |-> t], voters)

ts_update_outgoing_percentage(id, t, limit, voters) ==
    /\ update_withdrawal_limit(SERVICE_COUNCIL, t, limit)
    /\ external_execute([id |-> id, token_id |-> t, limit |-> limit], voters)

holding_release_council(id, t, receiver, amount, voters) ==
    /\ holding_release(SERVICE_COUNCIL, t, receiver, amount)
    /\ external_execute([id |-> id, token_id |-> t, receiver |-> receiver, amount |-> amount], voters)

holding_ownership_transfer(id, new_owner, voters) ==
    /\ holding_transfer_ownership(SERVICE_COUNCIL, new_owner)
    /\ external_execute([id |-> id, new_owner |-> new_owner], voters)

ts_update_token_service_address(id, chain_id, t, service, voters) ==
    /\ update_other_chain_tokenservice(SERVICE_COUNCIL, chain_id, t, service)
    /\ external_execute([id |-> id, chain_id |-> chain_id, token_id |-> t,
                         token_service_address |-> service], voters)

ts_update_other_token_address(id, chain_id, t, address, voters) ==
    /\ update_other_chain_tokenaddress(SERVICE_COUNCIL, chain_id, t, address)
    /\ external_execute([id |-> id, chain_id |-> chain_id, token_id |-> t,
                         token_address |-> address], voters)

ts_remove_other_chain_addresses(id, chain_id, t, voters) ==
    /\ remove_other_chain_addresses(SERVICE_COUNCIL, chain_id, t)
    /\ external_execute([id |-> id, chain_id |-> chain_id, token_id |-> t], voters)

ServiceProposal(p, voters) ==
    /\ \/ Has(p, {"id", "new_owner"}) /\ ts_transfer_ownership(p.id, p.new_owner, voters)
       \/ /\ Has(p, {"id", "token_id", "min_transfer", "max_transfer", "limit", "token_address",
                     "token_service", "chain_id"})
          /\ ts_add_token(p.id, p.token_id, p.min_transfer, p.max_transfer, p.limit,
                          p.token_address, p.token_service, p.chain_id, voters)
       \/ /\ Has(p, {"id", "token_id"})
          /\ \/ ts_remove_token(p.id, p.token_id, voters)
             \/ ts_pause_token(p.id, p.token_id, voters)
             \/ ts_unpause_token(p.id, p.token_id, voters)
       \/ /\ Has(p, {"id", "token_id", "min_transfer"})
          /\ ts_update_min_transfer(p.id, p.token_id, p.min_transfer, voters)
       \/ /\ Has(p, {"id", "token_id", "max_transfer"})
          /\ ts_update_max_transfer(p.id, p.token_id, p.max_transfer, voters)
       \/ /\ Has(p, {"id", "token_id", "limit"})
          /\ ts_update_outgoing_percentage(p.id, p.token_id, p.limit, voters)
       \/ /\ Has(p, {"id", "token_id", "receiver", "amount"})
          /\ holding_release_council(p.id, p.token_id, p.receiver, p.amount, voters)
       \/ Has(p, {"id", "new_owner"}) /\ holding_ownership_transfer(p.id, p.new_owner, voters)
       \/ /\ Has(p, {"id", "chain_id", "token_id", "token_service_address"})
          /\ ts_update_token_service_address(p.id, p.chain_id, p.token_id,
                                             p.token_service_address, voters)
       \/ /\ Has(p, {"id", "chain_id", "token_id", "token_address"})
          /\ ts_update_other_token_address(p.id, p.chain_id, p.token_id, p.token_address, voters)
       \/ /\ Has(p, {"id", "chain_id", "token_id"})
          /\ ts_remove_other_chain_addresses(p.id, p.chain_id, p.token_id, voters)
    /\ UNCHANGED registry

(* The registry accepts a new token from anyone and changes of a token     *)
(* from its admin.  A token's id is the hash of its name.                  *)
ts_register_token(id, token_name, voters) ==
    /\ token_name \notin DOMAIN registered_tokens
    /\ registered_tokens' = Put(registered_tokens, token_name, SERVICE_COUNCIL)
    /\ external_execute([id |-> id, token_name |-> token_name], voters)
    /\ UNCHANGED roles

update_token_metadata(id, t, admin, voters) ==
    /\ t \in DOMAIN registered_tokens /\ registered_tokens[t] = SERVICE_COUNCIL
    /\ registered_tokens' = [registered_tokens EXCEPT ![t] = admin]
    /\ external_execute([id |-> id, token_id |-> t, admin |-> admin], voters)
    /\ UNCHANGED roles

set_role_token(id, t, account, role, voters) ==
    /\ role \in 1 .. 3
    /\ t \in DOMAIN registered_tokens /\ registered_tokens[t] = SERVICE_COUNCIL
    /\ roles' = Put(roles, <<t, account>>, role)
    /\ external_execute([id |-> id, token_id |-> t, account |-> account, role |-> role], voters)
    /\ UNCHANGED registered_tokens

RegistryProposal(p, voters) ==
    /\ \/ Has(p, {"id", "token_name"}) /\ ts_register_token(p.id, p.token_name, voters)
       \/ /\ Has(p, {"id", "token_id", "admin"})
          /\ update_token_metadata(p.id, p.token_id, p.admin, voters)
       \/ /\ Has(p, {"id", "token_id", "account", "role"})
          /\ set_role_token(p.id, p.token_id, p.account, p.role, voters)
    /\ UNCHANGED vars

-----------------------------------------------------------------------------
(* Calls without the council: the programs check that the caller is their  *)
(* owner.  A council program calls by its wrappers and the service by its  *)
(* own transitions alone; anybody else calls what he likes.                *)
Caller == Owner \ {BRIDGE_COUNCIL, SERVICE_COUNCIL, TS}

(* The admin of a registered token changes its admin and its roles.  That  *)
(* others may register tokens of their own is left out.                    *)
AdminStep(from) ==
    \E t \in DOMAIN registered_tokens :
        /\ registered_tokens[t] = from
        /\ \/ /\ \E admin \in Owner : registered_tokens' = [registered_tokens EXCEPT ![t] = admin]
              /\ UNCHANGED roles
           \/ /\ \E account \in Account :
                   \/ \E role \in 1 .. 3 : roles' = Put(roles, <<t, account>>, role)
                   \/ roles' = Drop(roles, <<t, account>>)
              /\ UNCHANGED registered_tokens

DirectCall(from) ==
    /\ \/ OwnerStep(from) /\ UNCHANGED <<serviceVars, registry>>
       \/ (Administer(from) \/ HoldingOwnerStep(from)) /\ UNCHANGED registry
       \/ AdminStep(from) /\ UNCHANGED vars
    /\ UNCHANGED councilVars

-----------------------------------------------------------------------------
GovernanceNext ==
    \/ (Voting \/ ChangeCouncil) /\ UNCHANGED <<vars, registry>>
    \/ \E p \in DOMAIN proposal_vote_counts, voters \in [Slots -> Member] :
          BridgeProposal(p, voters) \/ ServiceProposal(p, voters) \/ RegistryProposal(p, voters)
    \/ \E from \in Caller : DirectCall(from)
    \/ Receive /\ UNCHANGED <<councilVars, registry>>

GovernanceSpec == GovernanceInit /\ [][GovernanceNext]_governanceVars

-----------------------------------------------------------------------------
(* Properties *)

(* What a step changes of the things the council holds before it.          *)
BridgeTouched == owner_TB = BRIDGE_COUNCIL /\ settings' # settings

ServiceTouched ==
    /\ owner_TS = SERVICE_COUNCIL
    /\ config' # config \/ \E t \in Token : token_holding'[t] < token_holding[t]

HoldingTouched ==
    /\ owner_TS = SERVICE_COUNCIL /\ owner_holding = TS
    /\ \/ owner_holding' # owner_holding
       \/ \E u \in Account, t \in Token : holdings'[u][t] < holdings[u][t]

RolesOf(t) == [k \in {x \in DOMAIN roles : x[1] = t} |-> roles[k]]

TokenTouched ==
    \E t \in DOMAIN registered_tokens :
        /\ registered_tokens[t] = SERVICE_COUNCIL
        /\ \/ t \notin DOMAIN registered_tokens'
           \/ registered_tokens'[t] # SERVICE_COUNCIL
           \/ RolesOf(t)' # RolesOf(t)

CouncilTouched == Initialized /\ membership' # membership

(* While the council owns the bridge, the service, through it the holding  *)
(* program, or administers a token, nobody changes an owner, a setting or  *)
(* a role there or releases held funds but by executing a proposal that    *)
(* had not been executed and that at least council_threshold of the        *)
(* members of that moment accept, whoever joined, left or changed a vote   *)
(* since; nor does anybody change the council itself.  What the council    *)
(* has given away is its new owner's, who acts without proposals, until it *)
(* is given back.                                                          *)
GovernedByQuorum ==
    [][ BridgeTouched \/ ServiceTouched \/ HoldingTouched \/ TokenTouched \/ CouncilTouched
        => \E p \in proposal_executed' \ proposal_executed :
              Cardinality({m \in members \ {ZERO_ADDRESS} : Accepted(p, m)}) >= council_threshold
      ]_governanceVars
=============================================================================
