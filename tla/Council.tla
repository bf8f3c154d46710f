------------------------------ MODULE Council ------------------------------
(***************************************************************************)
(* The council program, aleo/programs/vlink_council_v1.leo: members vote   *)
(* on proposals, and a proposal with enough votes is executed once.        *)
(*                                                                         *)
(* A proposal is a record with the members of its Leo struct, and stands   *)
(* for its own hash.  As the struct's name is no member, two structs with  *)
(* equal members and values are one proposal here.                         *)
(* settings is split into council_threshold and total_members.             *)
(***************************************************************************)
EXTENDS VoteCounting

CONSTANTS
    Member,         \* addresses that may become members, the zero address among them
    Proposals,      \* proposals that members put forward
    Founders,       \* bound: initial_members arrays that initialize is called with
    Agenda          \* bound: sequences in which proposals are put forward

ASSUME CouncilAssumption ==
    /\ Member \subseteq Nat /\ IsFiniteSet(Member) /\ ZERO_ADDRESS \in Member
    /\ SUPPORTED_THRESHOLD <= 255
    /\ Founders \subseteq [Slots -> Member]
    /\ Agenda \subseteq Seq(Proposals)
    /\ \A p \in Proposals : "new_member" \in DOMAIN p => p.new_member \in Member

VARIABLES
    members,
    council_threshold,      \* settings[THRESHOLD_INDEX], 0 when absent
    total_members,          \* settings[TOTAL_MEMBERS_INDEX], 0 when absent
    proposals,              \* id -> proposal; the length is proposals[TOTAL_PROPOSALS_INDEX]
    proposal_vote_counts,   \* proposal -> next voter index, for proposed ones
    proposal_votes,         \* <<proposal, member>> -> acceptance, for votes cast
    proposal_voters,        \* <<proposal, index>> -> member
    proposal_executed       \* executed proposals

membership == <<members, council_threshold, total_members>>
ballots == <<proposals, proposal_vote_counts, proposal_votes, proposal_voters>>
councilVars == <<membership, ballots, proposal_executed>>

Initialized == council_threshold # 0

CouncilInit ==
    /\ members = {}
    /\ council_threshold = 0 /\ total_members = 0
    /\ proposals = <<>>
    /\ proposal_vote_counts = <<>>
    /\ proposal_votes = <<>>
    /\ proposal_voters = <<>>
    /\ proposal_executed = {}

(* Mapping::set *)
Set(mapping, key, value) ==
    [k \in DOMAIN mapping \cup {key} |-> IF k = key THEN value ELSE mapping[k]]

-----------------------------------------------------------------------------
initialize(initial_members, new_threshold) ==
    /\ UniqueAddresses(initial_members)
    /\ new_threshold \in 1 .. get_valid_unique_address_count(initial_members)
    /\ ~Initialized
    /\ members' = {initial_members[i] : i \in Slots} \cup {ZERO_ADDRESS}
    /\ council_threshold' = new_threshold
    /\ total_members' = get_valid_unique_address_count(initial_members)
    /\ UNCHANGED <<ballots, proposal_executed>>

(* Proposing a hash again starts its voter list over; votes cast stay.     *)
propose(from, id, proposal) ==
    /\ from # ZERO_ADDRESS /\ from \in members
    /\ id = Len(proposals) + 1
    /\ proposals' = Append(proposals, proposal)
    /\ proposal_voters' = Set(proposal_voters, <<proposal, 0>>, from)
    /\ proposal_vote_counts' = Set(proposal_vote_counts, proposal, 1)
    /\ proposal_votes' = Set(Set(proposal_votes, <<proposal, from>>, TRUE),
                             <<proposal, ZERO_ADDRESS>>, TRUE)
    /\ UNCHANGED <<membership, proposal_executed>>

(* Mutant of vote: a member may vote again. *)
VoteAgain(from, proposal, acceptance) ==
    /\ from # ZERO_ADDRESS /\ from \in members
    /\ proposal \in DOMAIN proposal_vote_counts
    /\ LET count == proposal_vote_counts[proposal]
       IN  /\ count < 255
           /\ proposal_voters' = Set(proposal_voters, <<proposal, count>>, from)
           /\ proposal_vote_counts' = Set(proposal_vote_counts, proposal, count + 1)
    /\ proposal_votes' = Set(proposal_votes, <<proposal, from>>, acceptance)
    /\ UNCHANGED <<membership, proposals, proposal_executed>>

vote(from, proposal, acceptance) ==
    /\ from # ZERO_ADDRESS /\ from \in members
    /\ <<proposal, from>> \notin DOMAIN proposal_votes
    /\ proposal \in DOMAIN proposal_vote_counts
    /\ LET count == proposal_vote_counts[proposal]
       IN  /\ count < 255
           /\ proposal_voters' = Set(proposal_voters, <<proposal, count>>, from)
           /\ proposal_vote_counts' = Set(proposal_vote_counts, proposal, count + 1)
    /\ proposal_votes' = Set(proposal_votes, <<proposal, from>>, acceptance)
    /\ UNCHANGED <<membership, proposals, proposal_executed>>

(* No membership check: a former member may still change an old vote.      *)
update_vote(from, proposal, acceptance) ==
    /\ from # ZERO_ADDRESS
    /\ <<proposal, from>> \in DOMAIN proposal_votes
    /\ proposal_votes' = Set(proposal_votes, <<proposal, from>>, acceptance)
    /\ UNCHANGED <<membership, proposals, proposal_vote_counts, proposal_voters, proposal_executed>>

-----------------------------------------------------------------------------
(* Executing a proposal: the caller names the voters, at most one per slot *)
(* and the unused slots zero.  Each must be a member now and have accepted.*)

(* get_proposal_vote_keys and the lookup of each key. *)
Accepted(proposal, member) ==
    <<proposal, member>> \in DOMAIN proposal_votes /\ proposal_votes[<<proposal, member>>]

(* Mutant of Approved: voters need not be members any more. *)
ApprovedByFormerMembers(proposal, voters) ==
    /\ UniqueAddresses(voters)
    /\ \A i \in Slots : Accepted(proposal, voters[i])
    /\ Initialized
    /\ get_valid_unique_address_count(voters) >= council_threshold
    /\ proposal \notin proposal_executed

Approved(proposal, voters) ==
    /\ UniqueAddresses(voters)
    /\ \A i \in Slots : voters[i] \in members /\ Accepted(proposal, voters[i])
    /\ Initialized
    /\ get_valid_unique_address_count(voters) >= council_threshold
    /\ proposal \notin proposal_executed

(* The transition also hashes the id and the calling program together, and *)
(* does not use the result.                                                *)
external_execute(proposal, voters) ==
    /\ Approved(proposal, voters)
    /\ proposal_executed' = proposal_executed \cup {proposal}
    /\ UNCHANGED <<membership, ballots>>

(* Mutant of add_member: a member may be added again. *)
AddMemberTwice(id, new_member, new_threshold, voters) ==
    LET proposal == [id |-> id, new_member |-> new_member, new_threshold |-> new_threshold]
    IN  /\ Approved(proposal, voters)
        /\ new_threshold \in 1 .. total_members + 1
        /\ total_members < 255
        /\ members' = members \cup {new_member}
        /\ council_threshold' = new_threshold
        /\ total_members' = total_members + 1
        /\ proposal_executed' = proposal_executed \cup {proposal}
        /\ UNCHANGED ballots

add_member(id, new_member, new_threshold, voters) ==
    LET proposal == [id |-> id, new_member |-> new_member, new_threshold |-> new_threshold]
    IN  /\ Approved(proposal, voters)
        /\ new_member \notin members
        /\ new_threshold \in 1 .. total_members + 1
        /\ total_members < 255
        /\ members' = members \cup {new_member}
        /\ council_threshold' = new_threshold
        /\ total_members' = total_members + 1
        /\ proposal_executed' = proposal_executed \cup {proposal}
        /\ UNCHANGED ballots

remove_member(id, existing_member, new_threshold, voters) ==
    LET proposal == [id |-> id, existing_member |-> existing_member, new_threshold |-> new_threshold]
    IN  /\ existing_member # ZERO_ADDRESS
        /\ Approved(proposal, voters)
        /\ total_members > 1
        /\ new_threshold \in 1 .. total_members - 1
        /\ existing_member \in members
        /\ members' = members \ {existing_member}
        /\ council_threshold' = new_threshold
        /\ total_members' = total_members - 1
        /\ proposal_executed' = proposal_executed \cup {proposal}
        /\ UNCHANGED ballots

update_threshold(id, new_threshold, voters) ==
    LET proposal == [id |-> id, new_threshold |-> new_threshold]
    IN  /\ Approved(proposal, voters)
        /\ new_threshold \in 1 .. total_members
        /\ council_threshold' = new_threshold
        /\ proposal_executed' = proposal_executed \cup {proposal}
        /\ UNCHANGED <<members, total_members, ballots>>

-----------------------------------------------------------------------------
Voting ==
    \/ \E ms \in Founders, n \in 1 .. SUPPORTED_THRESHOLD : initialize(ms, n)
    \/ \E m \in Member, p \in Proposals :
          \/ Append(proposals, p) \in Agenda /\ propose(m, Len(proposals) + 1, p)
          \/ \E accept \in BOOLEAN : vote(m, p, accept) \/ update_vote(m, p, accept)

(* The arguments come from the proposal the members voted on.  The program *)
(* does not ask who calls external_execute: a wallet may, and the proposal *)
(* is then executed without effect.  A proposal never put forward has no   *)
(* votes and is not approved.                                              *)
ChangeCouncil ==
    \E p \in DOMAIN proposal_vote_counts, voters \in [Slots -> Member] :
        \/ external_execute(p, voters)
        \/ /\ DOMAIN p = {"id", "new_member", "new_threshold"}
           /\ add_member(p.id, p.new_member, p.new_threshold, voters)
        \/ /\ DOMAIN p = {"id", "existing_member", "new_threshold"}
           /\ remove_member(p.id, p.existing_member, p.new_threshold, voters)
        \/ /\ DOMAIN p = {"id", "new_threshold"}
           /\ update_threshold(p.id, p.new_threshold, voters)

-----------------------------------------------------------------------------
(* Properties *)

(* Types of the council's mappings. *)
CouncilTypes ==
    /\ members \subseteq Member
    /\ council_threshold \in 0 .. 255 /\ total_members \in 0 .. 255
    /\ proposals \in Seq(Proposals)
    /\ DOMAIN proposal_vote_counts \subseteq Proposals
    /\ \A p \in DOMAIN proposal_vote_counts : proposal_vote_counts[p] \in 1 .. 255
    /\ DOMAIN proposal_votes \subseteq Proposals \X Member
    /\ \A k \in DOMAIN proposal_votes : proposal_votes[k] \in BOOLEAN
    /\ DOMAIN proposal_voters \subseteq Proposals \X (0 .. 255)
    /\ \A k \in DOMAIN proposal_voters : proposal_voters[k] \in Member
    /\ proposal_executed \subseteq Proposals

(* Through any sequence of executed membership proposals, decided by the   *)
(* members of the moment, total_members counts the members, the zero       *)
(* address that fills unused voter slots stays one, and the threshold can  *)
(* be reached by the members there are.                                    *)
CouncilSound ==
    /\ CouncilTypes
    /\ Initialized =>
        /\ ZERO_ADDRESS \in members
        /\ total_members = Cardinality(members \ {ZERO_ADDRESS})
        /\ council_threshold \in 1 .. total_members

(* The voter list of a proposal names distinct addresses that voted on it, *)
(* also after the proposal was put forward again.                          *)
VoterListSound ==
    \A p \in DOMAIN proposal_vote_counts :
        LET listed == 0 .. proposal_vote_counts[p] - 1
        IN  /\ \A i \in listed :
                 /\ <<p, i>> \in DOMAIN proposal_voters
                 /\ <<p, proposal_voters[<<p, i>>]>> \in DOMAIN proposal_votes
            /\ \A i, j \in listed : i # j => proposal_voters[<<p, i>>] # proposal_voters[<<p, j>>]
=============================================================================
