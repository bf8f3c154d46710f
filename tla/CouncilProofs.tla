--------------------------- MODULE CouncilProofs ---------------------------
(***************************************************************************)
(* Proofs about the council and its wrapper programs, for every set of     *)
(* members, proposals and founders, every agenda and every number of       *)
(* voter slots.                                                            *)
(*                                                                         *)
(* CouncilSound and VoterListSound are inductive together.  GovernedByQuorum *)
(* rests on two facts: the voters that Approved lets a call name are       *)
(* distinct members, so counting slots counts members that accept; and a   *)
(* call without the council passes the owner check of a program only where *)
(* the council is not the owner.                                           *)
(***************************************************************************)
EXTENDS Governance, AleoProofs

HeldTypes ==
    /\ token_holding \in [Token -> Nat]
    /\ holdings \in [Account -> [Token -> Nat]]

GovernanceInv ==
    /\ CouncilSound
    /\ VoterListSound
    /\ HeldTypes

(* A proposal is executed that enough members of this moment accept.       *)
QuorumExecutes ==
    \E p \in proposal_executed' \ proposal_executed :
        Cardinality({m \in members \ {ZERO_ADDRESS} : Accepted(p, m)}) >= council_threshold

(* A step touches something that the council holds.                        *)
GovernedTouched ==
    BridgeTouched \/ ServiceTouched \/ HoldingTouched \/ TokenTouched \/ CouncilTouched

(* What [GovernanceNext]_governanceVars guarantees of the council's power. *)
StepGoverned == GovernedTouched => QuorumExecutes

-----------------------------------------------------------------------------
(* The distinct voters of an approved call are members that accept.        *)
LEMMA ApprovedQuorum ==
    ASSUME CouncilTypes, NEW p, NEW voters \in [Slots -> Member], Approved(p, voters)
    PROVE  /\ p \in Proposals \ proposal_executed
           /\ Cardinality({m \in members \ {ZERO_ADDRESS} : Accepted(p, m)}) >= council_threshold
  <1> DEFINE V == {voters[i] : i \in UsedSlots(voters)}
             A == {m \in members \ {ZERO_ADDRESS} : Accepted(p, m)}
  <1>1. p \in Proposals \ proposal_executed
    <2>1. 1 \in Slots
      BY SupportedThresholdAssumption DEF Slots
    <2>2. <<p, voters[1]>> \in Proposals \X Member
      BY <2>1 DEF Approved, Accepted, CouncilTypes
    <2> QED
      BY <2>2 DEF Approved
  <1>2. V \subseteq A
    BY DEF Approved, UsedSlots
  <1>3. IsFiniteSet(A)
    BY CouncilAssumption, FS_Subset DEF CouncilTypes
  <1>4. Cardinality(V) = get_valid_unique_address_count(voters)
    BY CountSlotsIsCountAddresses DEF Approved, get_valid_unique_address_count
  <1>5. Cardinality(V) <= Cardinality(A) /\ Cardinality(V) \in Nat /\ Cardinality(A) \in Nat
    BY <1>2, <1>3, FS_Subset, FS_CardinalityType
  <1>6. get_valid_unique_address_count(voters) >= council_threshold /\ council_threshold \in Int
    BY DEF Approved, CouncilTypes
  <1>7. Cardinality(A) >= council_threshold
    <2> HIDE DEF A, V
    <2> QED
      BY <1>4, <1>5, <1>6
  <1> QED
    BY <1>1, <1>7

LEMMA ExecutionGoverns ==
    ASSUME CouncilTypes, NEW p, NEW voters \in [Slots -> Member], Approved(p, voters),
           proposal_executed' = proposal_executed \cup {p}
    PROVE  QuorumExecutes
  BY ApprovedQuorum DEF QuorumExecutes

(* Executing a proposal leaves the ballots as they are.                    *)
LEMMA BallotsKept ==
    ASSUME VoterListSound, UNCHANGED ballots
    PROVE  VoterListSound'
  BY DEF VoterListSound, ballots

(* Adding or removing one member moves the count of members by one.        *)
LEMMA MemberCount ==
    ASSUME CouncilSound, Initialized, NEW m \in Member
    PROVE  /\ m \notin members =>
                Cardinality((members \cup {m}) \ {ZERO_ADDRESS}) = total_members + 1
           /\ m \in members /\ m # ZERO_ADDRESS =>
                Cardinality((members \ {m}) \ {ZERO_ADDRESS}) = total_members - 1
  <1> DEFINE A == members \ {ZERO_ADDRESS}
  <1>1. /\ members \subseteq Member /\ ZERO_ADDRESS \in members
        /\ total_members = Cardinality(A)
    BY DEF CouncilSound, CouncilTypes
  <1>2. IsFiniteSet(A)
    BY <1>1, CouncilAssumption, FS_Subset
  <1>3. ASSUME m \notin members
        PROVE  Cardinality((members \cup {m}) \ {ZERO_ADDRESS}) = total_members + 1
    <2>1. (members \cup {m}) \ {ZERO_ADDRESS} = A \cup {m} /\ m \notin A
      BY <1>1, <1>3
    <2> QED
      BY <2>1, <1>1, <1>2, FS_AddElement
  <1>4. ASSUME m \in members, m # ZERO_ADDRESS
        PROVE  Cardinality((members \ {m}) \ {ZERO_ADDRESS}) = total_members - 1
    <2>1. (members \ {m}) \ {ZERO_ADDRESS} = A \ {m} /\ m \in A
      BY <1>4
    <2> QED
      BY <2>1, <1>1, <1>2, FS_RemoveElement
  <1> QED
    BY <1>3, <1>4

-----------------------------------------------------------------------------
(* Membership: the threshold stays within the members there are.           *)

LEMMA InitializeCouncil ==
    ASSUME CouncilSound, NEW ms \in Founders, NEW n, initialize(ms, n)
    PROVE  CouncilSound'
  <1> DEFINE used == get_valid_unique_address_count(ms)
  <1>1. ms \in [Slots -> Member]
    BY CouncilAssumption
  <1>2. members' = {ms[i] : i \in Slots} \cup {ZERO_ADDRESS} /\ total_members' = used
    BY DEF initialize
  <1>3. Cardinality(members' \ {ZERO_ADDRESS}) = used
    BY <1>2, InitialAttestors DEF initialize
  <1>4. members' \subseteq Member /\ ZERO_ADDRESS \in members'
    BY <1>1, <1>2, CouncilAssumption
  <1>5. total_members' \in 0 .. 255 /\ council_threshold' \in 0 .. 255
        /\ council_threshold' \in 1 .. total_members'
    <2>1. used \in 0 .. SUPPORTED_THRESHOLD /\ SUPPORTED_THRESHOLD \in Nat
          /\ SUPPORTED_THRESHOLD <= 255
      BY UsedSlotsCount, SupportedThresholdAssumption, CouncilAssumption
    <2>2. council_threshold' = n /\ n \in 1 .. used
      BY DEF initialize
    <2> HIDE DEF used
    <2> QED
      BY <1>2, <2>1, <2>2
  <1>6. UNCHANGED <<ballots, proposal_executed>>
    BY DEF initialize
  <1>7. CouncilTypes'
    BY <1>4, <1>5, <1>6 DEF CouncilSound, CouncilTypes, ballots
  <1> QED
    BY <1>2, <1>3, <1>4, <1>5, <1>7 DEF CouncilSound

(* An executed change of the members or of the threshold.                  *)
LEMMA MembershipChanged ==
    ASSUME CouncilSound, UNCHANGED ballots,
           NEW p \in Proposals, proposal_executed' = proposal_executed \cup {p},
           members' \subseteq Member, ZERO_ADDRESS \in members',
           total_members' \in 0 .. 255,
           total_members' = Cardinality(members' \ {ZERO_ADDRESS}),
           council_threshold' \in 1 .. total_members'
    PROVE  CouncilSound'
  <1>1. council_threshold' \in 0 .. 255
    OBVIOUS
  <1>2. CouncilTypes'
    BY <1>1 DEF CouncilSound, CouncilTypes, ballots
  <1> QED
    BY <1>2 DEF CouncilSound

LEMMA AddMemberStep ==
    ASSUME CouncilSound, NEW id, NEW m, NEW n, NEW voters \in [Slots -> Member],
           add_member(id, m, n, voters)
    PROVE  CouncilSound' /\ QuorumExecutes /\ UNCHANGED ballots
  <1> DEFINE p == [id |-> id, new_member |-> m, new_threshold |-> n]
  <1>1. /\ Approved(p, voters) /\ m \notin members
        /\ n \in 1 .. total_members + 1 /\ total_members < 255
        /\ members' = members \cup {m}
        /\ council_threshold' = n /\ total_members' = total_members + 1
        /\ proposal_executed' = proposal_executed \cup {p}
        /\ UNCHANGED ballots
    BY DEF add_member
  <1>2. p \in Proposals /\ QuorumExecutes
    BY <1>1, ApprovedQuorum, ExecutionGoverns DEF CouncilSound
  <1>3. m \in Member
    <2>1. "new_member" \in DOMAIN p => p.new_member \in Member
      <3> HIDE DEF p
      <3> QED
        BY <1>2, CouncilAssumption
    <2> QED
      BY <2>1
  <1> HIDE DEF p
  <1>4. /\ members \subseteq Member /\ ZERO_ADDRESS \in members
        /\ total_members \in 0 .. 255 /\ Initialized
    BY <1>1 DEF CouncilSound, CouncilTypes, Approved
  <1>5. total_members' = Cardinality(members' \ {ZERO_ADDRESS})
    BY <1>1, <1>3, <1>4, MemberCount
  <1>6. total_members' \in 0 .. 255
    BY <1>1, <1>4
  <1>7. CouncilSound'
    BY <1>1, <1>2, <1>3, <1>4, <1>5, <1>6, MembershipChanged
  <1> QED
    BY <1>1, <1>2, <1>7

LEMMA RemoveMemberStep ==
    ASSUME CouncilSound, NEW id, NEW m, NEW n, NEW voters \in [Slots -> Member],
           remove_member(id, m, n, voters)
    PROVE  CouncilSound' /\ QuorumExecutes /\ UNCHANGED ballots
  <1> DEFINE p == [id |-> id, existing_member |-> m, new_threshold |-> n]
  <1>1. /\ m # ZERO_ADDRESS /\ Approved(p, voters) /\ m \in members
        /\ n \in 1 .. total_members - 1 /\ total_members > 1
        /\ members' = members \ {m}
        /\ council_threshold' = n /\ total_members' = total_members - 1
        /\ proposal_executed' = proposal_executed \cup {p}
        /\ UNCHANGED ballots
    BY DEF remove_member
  <1>2. p \in Proposals /\ QuorumExecutes
    BY <1>1, ApprovedQuorum, ExecutionGoverns DEF CouncilSound
  <1> HIDE DEF p
  <1>3. /\ members \subseteq Member /\ ZERO_ADDRESS \in members
        /\ total_members \in 0 .. 255 /\ Initialized
    BY <1>1 DEF CouncilSound, CouncilTypes, Approved
  <1>4. total_members' = Cardinality(members' \ {ZERO_ADDRESS})
    BY <1>1, <1>3, MemberCount
  <1>5. total_members' \in 0 .. 255
    BY <1>1, <1>3
  <1>6. CouncilSound'
    BY <1>1, <1>2, <1>3, <1>4, <1>5, MembershipChanged
  <1> QED
    BY <1>1, <1>2, <1>6

LEMMA UpdateThresholdStep ==
    ASSUME CouncilSound, NEW id, NEW n, NEW voters \in [Slots -> Member],
           update_threshold(id, n, voters)
    PROVE  CouncilSound' /\ QuorumExecutes /\ UNCHANGED ballots
  <1> DEFINE p == [id |-> id, new_threshold |-> n]
  <1>1. /\ Approved(p, voters) /\ n \in 1 .. total_members
        /\ council_threshold' = n
        /\ proposal_executed' = proposal_executed \cup {p}
        /\ UNCHANGED <<members, total_members, ballots>>
    BY DEF update_threshold
  <1>2. p \in Proposals /\ QuorumExecutes
    BY <1>1, ApprovedQuorum, ExecutionGoverns DEF CouncilSound
  <1> HIDE DEF p
  <1>3. /\ members \subseteq Member /\ ZERO_ADDRESS \in members
        /\ total_members \in 0 .. 255 /\ Initialized
        /\ total_members = Cardinality(members \ {ZERO_ADDRESS})
    BY <1>1 DEF CouncilSound, CouncilTypes, Approved
  <1>4. CouncilSound'
    BY <1>1, <1>2, <1>3, MembershipChanged
  <1> QED
    BY <1>1, <1>2, <1>4

LEMMA ExecuteStep ==
    ASSUME CouncilSound, NEW p, NEW voters \in [Slots -> Member], external_execute(p, voters)
    PROVE  CouncilSound' /\ QuorumExecutes /\ UNCHANGED ballots
  <1>1. /\ Approved(p, voters) /\ proposal_executed' = proposal_executed \cup {p}
        /\ UNCHANGED <<membership, ballots>>
    BY DEF external_execute
  <1>2. p \in Proposals /\ QuorumExecutes
    BY <1>1, ApprovedQuorum, ExecutionGoverns DEF CouncilSound
  <1>3. CouncilSound'
    BY <1>1, <1>2 DEF CouncilSound, CouncilTypes, Initialized, membership, ballots
  <1> QED
    BY <1>1, <1>2, <1>3

-----------------------------------------------------------------------------
(* Voting: the voter list names distinct addresses whose vote is recorded. *)

LEMMA ProposeStep ==
    ASSUME CouncilSound, VoterListSound, NEW m \in Member, NEW p \in Proposals, NEW id,
           propose(m, id, p)
    PROVE  CouncilSound' /\ VoterListSound'
  <1>1. /\ proposals' = Append(proposals, p)
        /\ DOMAIN proposal_voters' = DOMAIN proposal_voters \cup {<<p, 0>>}
        /\ proposal_voters'[<<p, 0>>] = m
        /\ \A k \in DOMAIN proposal_voters : k # <<p, 0>> => proposal_voters'[k] = proposal_voters[k]
        /\ UNCHANGED <<membership, proposal_executed>>
    BY DEF propose, Set
  <1>2. /\ DOMAIN proposal_vote_counts' = DOMAIN proposal_vote_counts \cup {p}
        /\ proposal_vote_counts'[p] = 1
        /\ \A q \in DOMAIN proposal_vote_counts :
              q # p => proposal_vote_counts'[q] = proposal_vote_counts[q]
    BY DEF propose, Set
  <1>3. /\ DOMAIN proposal_votes' = DOMAIN proposal_votes \cup {<<p, m>>, <<p, ZERO_ADDRESS>>}
        /\ \A k \in DOMAIN proposal_votes' :
              proposal_votes'[k] = TRUE
                \/ (k \in DOMAIN proposal_votes /\ proposal_votes'[k] = proposal_votes[k])
    BY DEF propose, Set
  <1>4. ZERO_ADDRESS \in Member
    BY CouncilAssumption
  <1>5. CouncilTypes'
    <2>1. /\ proposals' \in Seq(Proposals)
          /\ members' \subseteq Member /\ proposal_executed' \subseteq Proposals
          /\ council_threshold' \in 0 .. 255 /\ total_members' \in 0 .. 255
      BY <1>1 DEF CouncilSound, CouncilTypes, membership
    <2>2. /\ DOMAIN proposal_vote_counts' \subseteq Proposals
          /\ \A q \in DOMAIN proposal_vote_counts' : proposal_vote_counts'[q] \in 1 .. 255
      <3>1. /\ DOMAIN proposal_vote_counts \subseteq Proposals
            /\ \A q \in DOMAIN proposal_vote_counts : proposal_vote_counts[q] \in 1 .. 255
        BY DEF CouncilSound, CouncilTypes
      <3>2. \A q \in DOMAIN proposal_vote_counts' :
              q # p => q \in DOMAIN proposal_vote_counts
                       /\ proposal_vote_counts'[q] = proposal_vote_counts[q]
        BY <1>2
      <3>3. proposal_vote_counts'[p] \in 1 .. 255
        BY <1>2
      <3> QED
        BY <1>2, <3>1, <3>2, <3>3
    <2>3. /\ DOMAIN proposal_votes' \subseteq Proposals \X Member
          /\ \A k \in DOMAIN proposal_votes' : proposal_votes'[k] \in BOOLEAN
      <3>1. /\ DOMAIN proposal_votes \subseteq Proposals \X Member
            /\ \A k \in DOMAIN proposal_votes : proposal_votes[k] \in BOOLEAN
        BY DEF CouncilSound, CouncilTypes
      <3>2. <<p, m>> \in Proposals \X Member /\ <<p, ZERO_ADDRESS>> \in Proposals \X Member
        BY <1>4
      <3>3. DOMAIN proposal_votes' \subseteq Proposals \X Member
        BY <1>3, <3>1, <3>2
      <3>4. ASSUME NEW k \in DOMAIN proposal_votes' PROVE proposal_votes'[k] \in BOOLEAN
        BY <1>3, <3>1
      <3> QED
        BY <3>3, <3>4
    <2>4. /\ DOMAIN proposal_voters' \subseteq Proposals \X (0 .. 255)
          /\ \A k \in DOMAIN proposal_voters' : proposal_voters'[k] \in Member
      BY <1>1 DEF CouncilSound, CouncilTypes
    <2> QED
      BY <2>1, <2>2, <2>3, <2>4 DEF CouncilTypes
  <1>6. CouncilSound'
    BY <1>1, <1>5 DEF CouncilSound, Initialized, membership
  <1>7. VoterListSound'
    <2> SUFFICES ASSUME NEW q \in DOMAIN proposal_vote_counts'
                 PROVE  /\ \A i \in 0 .. proposal_vote_counts'[q] - 1 :
                             /\ <<q, i>> \in DOMAIN proposal_voters'
                             /\ <<q, proposal_voters'[<<q, i>>]>> \in DOMAIN proposal_votes'
                        /\ \A i, j \in 0 .. proposal_vote_counts'[q] - 1 :
                             i # j => proposal_voters'[<<q, i>>] # proposal_voters'[<<q, j>>]
      BY DEF VoterListSound
    <2>0. q \in DOMAIN proposal_vote_counts =>
             /\ \A i \in 0 .. proposal_vote_counts[q] - 1 :
                  /\ <<q, i>> \in DOMAIN proposal_voters
                  /\ <<q, proposal_voters[<<q, i>>]>> \in DOMAIN proposal_votes
             /\ \A i, j \in 0 .. proposal_vote_counts[q] - 1 :
                  i # j => proposal_voters[<<q, i>>] # proposal_voters[<<q, j>>]
      BY DEF VoterListSound
    <2>1. CASE q = p
      <3>1. 0 .. proposal_vote_counts'[q] - 1 = {0}
        BY <1>2, <2>1
      <3> QED
        BY <1>1, <1>3, <2>1, <3>1
    <2>2. CASE q # p
      <3>1. q \in DOMAIN proposal_vote_counts /\ proposal_vote_counts'[q] = proposal_vote_counts[q]
        BY <1>2, <2>2
      <3>2. \A i : <<q, i>> # <<p, 0>>
        BY <2>2
      <3> QED
        BY <1>1, <1>3, <2>0, <3>1, <3>2
    <2> QED
      BY <2>1, <2>2
  <1> QED
    BY <1>6, <1>7

LEMMA VoteStep ==
    ASSUME CouncilSound, VoterListSound, NEW m \in Member, NEW p \in Proposals,
           NEW accept \in BOOLEAN, vote(m, p, accept)
    PROVE  CouncilSound' /\ VoterListSound'
  <1> DEFINE count == proposal_vote_counts[p]
             slot == <<p, count>>
  <1>0. p \in DOMAIN proposal_vote_counts /\ count \in 1 .. 255 /\ count < 255
    BY DEF vote, CouncilSound, CouncilTypes
  <1>1. /\ DOMAIN proposal_voters' = DOMAIN proposal_voters \cup {slot}
        /\ proposal_voters'[slot] = m
        /\ \A k \in DOMAIN proposal_voters : k # slot => proposal_voters'[k] = proposal_voters[k]
        /\ UNCHANGED <<membership, proposals, proposal_executed>>
    BY DEF vote, Set
  <1>2. /\ DOMAIN proposal_vote_counts' = DOMAIN proposal_vote_counts
        /\ proposal_vote_counts'[p] = count + 1
        /\ \A q \in DOMAIN proposal_vote_counts :
              q # p => proposal_vote_counts'[q] = proposal_vote_counts[q]
    BY <1>0 DEF vote, Set
  <1>3. /\ DOMAIN proposal_votes' = DOMAIN proposal_votes \cup {<<p, m>>}
        /\ <<p, m>> \notin DOMAIN proposal_votes
        /\ \A k \in DOMAIN proposal_votes' :
              proposal_votes'[k] = accept
                \/ (k \in DOMAIN proposal_votes /\ proposal_votes'[k] = proposal_votes[k])
    BY DEF vote, Set
  <1>4. count + 1 \in 1 .. 255 /\ slot \in Proposals \X (0 .. 255)
    BY <1>0
  <1>5. CouncilTypes'
    <2>1. /\ proposals' \in Seq(Proposals)
          /\ members' \subseteq Member /\ proposal_executed' \subseteq Proposals
          /\ council_threshold' \in 0 .. 255 /\ total_members' \in 0 .. 255
      BY <1>1 DEF CouncilSound, CouncilTypes, membership
    <2>2. /\ DOMAIN proposal_vote_counts' \subseteq Proposals
          /\ \A q \in DOMAIN proposal_vote_counts' : proposal_vote_counts'[q] \in 1 .. 255
      BY <1>2, <1>4 DEF CouncilSound, CouncilTypes
    <2>3. /\ DOMAIN proposal_votes' \subseteq Proposals \X Member
          /\ \A k \in DOMAIN proposal_votes' : proposal_votes'[k] \in BOOLEAN
      BY <1>3 DEF CouncilSound, CouncilTypes
    <2>4. /\ DOMAIN proposal_voters' \subseteq Proposals \X (0 .. 255)
          /\ \A k \in DOMAIN proposal_voters' : proposal_voters'[k] \in Member
      BY <1>1, <1>4 DEF CouncilSound, CouncilTypes
    <2> QED
      BY <2>1, <2>2, <2>3, <2>4 DEF CouncilTypes
  <1>6. CouncilSound'
    BY <1>1, <1>5 DEF CouncilSound, Initialized, membership
  <1>7. VoterListSound'
    <2> SUFFICES ASSUME NEW q \in DOMAIN proposal_vote_counts'
                 PROVE  /\ \A i \in 0 .. proposal_vote_counts'[q] - 1 :
                             /\ <<q, i>> \in DOMAIN proposal_voters'
                             /\ <<q, proposal_voters'[<<q, i>>]>> \in DOMAIN proposal_votes'
                        /\ \A i, j \in 0 .. proposal_vote_counts'[q] - 1 :
                             i # j => proposal_voters'[<<q, i>>] # proposal_voters'[<<q, j>>]
      BY DEF VoterListSound
    <2>0. /\ \A i \in 0 .. proposal_vote_counts[q] - 1 :
               /\ <<q, i>> \in DOMAIN proposal_voters
               /\ <<q, proposal_voters[<<q, i>>]>> \in DOMAIN proposal_votes
          /\ \A i, j \in 0 .. proposal_vote_counts[q] - 1 :
               i # j => proposal_voters[<<q, i>>] # proposal_voters[<<q, j>>]
      BY <1>2 DEF VoterListSound
    <2>1. CASE q = p
      <3>1. 0 .. proposal_vote_counts'[q] - 1 = (0 .. count - 1) \cup {count} /\ count \notin 0 .. count - 1
        BY <1>0, <1>2, <2>1
      <3>2. \A i \in 0 .. count - 1 : <<p, i>> # slot
        BY <3>1
      <3>3. \A i \in 0 .. count - 1 : /\ <<p, i>> \in DOMAIN proposal_voters
                                      /\ proposal_voters'[<<p, i>>] = proposal_voters[<<p, i>>]
                                      /\ <<p, proposal_voters[<<p, i>>]>> \in DOMAIN proposal_votes
        BY <1>1, <2>0, <2>1, <3>2
      <3>4. \A i \in 0 .. count - 1 : proposal_voters'[<<p, i>>] # m
        BY <1>3, <3>3
      <3>5. /\ proposal_voters'[<<p, count>>] = m /\ <<p, count>> \in DOMAIN proposal_voters'
            /\ <<p, m>> \in DOMAIN proposal_votes'
        BY <1>1, <1>3
      <3>6. \A i, j \in 0 .. count - 1 : i # j => proposal_voters'[<<p, i>>] # proposal_voters'[<<p, j>>]
        BY <2>0, <2>1, <3>3
      <3>7. \A i \in (0 .. count - 1) \cup {count} :
               /\ <<p, i>> \in DOMAIN proposal_voters'
               /\ <<p, proposal_voters'[<<p, i>>]>> \in DOMAIN proposal_votes'
        <4> HIDE DEF count
        <4> QED
          BY <1>1, <1>3, <3>3, <3>5
      <3>8. \A i, j \in (0 .. count - 1) \cup {count} :
               i # j => proposal_voters'[<<p, i>>] # proposal_voters'[<<p, j>>]
        <4> HIDE DEF count
        <4> QED
          BY <3>4, <3>5, <3>6
      <3> QED
        BY <2>1, <3>1, <3>7, <3>8
    <2>2. CASE q # p
      <3>1. q \in DOMAIN proposal_vote_counts /\ proposal_vote_counts'[q] = proposal_vote_counts[q]
        BY <1>2, <2>2
      <3>2. \A i : <<q, i>> # slot
        BY <2>2
      <3> HIDE DEF slot
      <3> QED
        BY <1>1, <1>3, <2>0, <3>1, <3>2
    <2> QED
      BY <2>1, <2>2
  <1> QED
    BY <1>6, <1>7

(* update_vote replaces an answer and adds no voter.                       *)
LEMMA UpdateVoteStep ==
    ASSUME CouncilSound, VoterListSound, NEW m \in Member, NEW p \in Proposals,
           NEW accept \in BOOLEAN, update_vote(m, p, accept)
    PROVE  CouncilSound' /\ VoterListSound'
  <1>1. /\ DOMAIN proposal_votes' = DOMAIN proposal_votes
        /\ \A k \in DOMAIN proposal_votes :
              proposal_votes'[k] = accept \/ proposal_votes'[k] = proposal_votes[k]
        /\ UNCHANGED <<membership, proposals, proposal_vote_counts, proposal_voters,
                       proposal_executed>>
    BY DEF update_vote, Set
  <1>2. CouncilTypes'
    BY <1>1 DEF CouncilSound, CouncilTypes, membership
  <1>3. CouncilSound'
    BY <1>1, <1>2 DEF CouncilSound, Initialized, membership
  <1>4. VoterListSound'
    BY <1>1 DEF VoterListSound
  <1> QED
    BY <1>3, <1>4

-----------------------------------------------------------------------------
(* The wrapper programs: each of their transactions executes a proposal.   *)

(* The part of a transaction that the council contributes.                 *)
Executes(voters) == \E x : external_execute(x, voters)

LEMMA ExecutesStep ==
    ASSUME GovernanceInv, NEW voters \in [Slots -> Member], Executes(voters), HeldTypes'
    PROVE  GovernanceInv' /\ StepGoverned
  <1>1. PICK x : external_execute(x, voters)
    BY DEF Executes
  <1>2. CouncilSound' /\ QuorumExecutes /\ UNCHANGED ballots
    BY <1>1, ExecuteStep DEF GovernanceInv
  <1>3. VoterListSound'
    BY <1>2, BallotsKept DEF GovernanceInv
  <1> QED
    BY <1>2, <1>3 DEF GovernanceInv, StepGoverned

LEMMA BridgeProposalStep ==
    ASSUME NEW p, NEW voters, BridgeProposal(p, voters), HeldTypes
    PROVE  Executes(voters) /\ HeldTypes'
  <1>1. HeldTypes'
    BY DEF BridgeProposal, serviceVars, ledger, HeldTypes
  <1>2. Executes(voters)
    BY DEF BridgeProposal, Executes, tb_transfer_ownership, tb_add_attestor, tb_remove_attestor,
           tb_update_threshold, tb_add_chain, tb_remove_chain, tb_add_service, tb_remove_service,
           tb_pause, tb_unpause
  <1> QED
    BY <1>1, <1>2

(* Releasing takes from an entry no more than there is.                    *)
LEMMA ReleaseTypes ==
    ASSUME HeldTypes, NEW u, NEW t, NEW n \in Nat, holdings[u][t] >= n,
           holdings' = [holdings EXCEPT ![u][t] = @ - n]
    PROVE  holdings' \in [Account -> [Token -> Nat]]
  <1>1. CASE u \in Account
    <2>1. holdings[u] \in [Token -> Nat]
      BY <1>1 DEF HeldTypes
    <2>2. [holdings[u] EXCEPT ![t] = @ - n] \in [Token -> Nat]
      <3>1. CASE t \in Token
        <4>1. holdings[u][t] \in Nat /\ holdings[u][t] - n \in Nat
          BY <2>1, <3>1
        <4> QED
          BY <2>1, <4>1
      <3>2. CASE t \notin Token
        BY <2>1, <3>2
      <3> QED
        BY <3>1, <3>2
    <2>3. holdings' = [holdings EXCEPT ![u] = [holdings[u] EXCEPT ![t] = @ - n]]
      BY <1>1 DEF HeldTypes
    <2> QED
      BY <2>2, <2>3 DEF HeldTypes
  <1>2. CASE u \notin Account
    BY <1>2 DEF HeldTypes
  <1> QED
    BY <1>1, <1>2

LEMMA HoldingReleaseTypes ==
    ASSUME HeldTypes, NEW from, NEW t, NEW u, NEW n \in Nat, holding_release(from, t, u, n)
    PROVE  HeldTypes'
  <1>1. /\ token_holding[t] >= n /\ token_holding' = [token_holding EXCEPT ![t] = @ - n]
        /\ holdings[u][t] >= n /\ holdings' = [holdings EXCEPT ![u][t] = @ - n]
    BY DEF holding_release, release_fund
  <1>2. token_holding' \in [Token -> Nat]
    <2>1. CASE t \in Token
      <3>1. token_holding[t] \in Nat /\ token_holding[t] - n \in Nat
        BY <1>1, <2>1 DEF HeldTypes
      <3> QED
        BY <1>1, <3>1 DEF HeldTypes
    <2>2. CASE t \notin Token
      BY <1>1, <2>2 DEF HeldTypes
    <2> QED
      BY <2>1, <2>2
  <1> QED
    BY <1>1, <1>2, ReleaseTypes DEF HeldTypes

(* The service's own transactions, with the one that lowers token_holding. *)
LEMMA ServiceProposalStep ==
    ASSUME NEW p \in Proposals, NEW voters, ServiceProposal(p, voters), HeldTypes
    PROVE  Executes(voters) /\ HeldTypes'
  <1>1. UNCHANGED ledger => HeldTypes'
    BY DEF ledger, HeldTypes
  <1>2. ASSUME NEW id, NEW t, NEW u, NEW n \in Nat, holding_release_council(id, t, u, n, voters)
        PROVE  Executes(voters) /\ HeldTypes'
    BY <1>2, HoldingReleaseTypes DEF holding_release_council, Executes
  <1>3. CASE /\ Has(p, {"id", "token_id", "receiver", "amount"})
             /\ holding_release_council(p.id, p.token_id, p.receiver, p.amount, voters)
    <2>1. p.amount \in Nat
      BY <1>3, GovernanceAssumption DEF Has
    <2> QED
      BY <1>2, <1>3, <2>1
  <1>4. CASE \/ ts_transfer_ownership(p.id, p.new_owner, voters)
             \/ ts_remove_token(p.id, p.token_id, voters)
             \/ ts_pause_token(p.id, p.token_id, voters)
             \/ ts_unpause_token(p.id, p.token_id, voters)
             \/ ts_update_min_transfer(p.id, p.token_id, p.min_transfer, voters)
             \/ ts_update_max_transfer(p.id, p.token_id, p.max_transfer, voters)
             \/ ts_update_outgoing_percentage(p.id, p.token_id, p.limit, voters)
    BY <1>1, <1>4 DEF Executes, ts_transfer_ownership, ts_remove_token, ts_pause_token,
           ts_unpause_token, ts_update_min_transfer, ts_update_max_transfer,
           ts_update_outgoing_percentage, transfer_ownership_ts, remove_token_ts,
           pause_token_ts, unpause_token_ts, update_min_transfer_ts, update_max_transfer_ts,
           update_withdrawal_limit, SetTokenInfo
  <1>5. CASE \/ ts_add_token(p.id, p.token_id, p.min_transfer, p.max_transfer, p.limit,
                             p.token_address, p.token_service, p.chain_id, voters)
             \/ holding_ownership_transfer(p.id, p.new_owner, voters)
             \/ ts_update_token_service_address(p.id, p.chain_id, p.token_id,
                                                p.token_service_address, voters)
             \/ ts_update_other_token_address(p.id, p.chain_id, p.token_id, p.token_address, voters)
             \/ ts_remove_other_chain_addresses(p.id, p.chain_id, p.token_id, voters)
    BY <1>1, <1>5 DEF Executes, ts_add_token, holding_ownership_transfer,
           ts_update_token_service_address, ts_update_other_token_address,
           ts_remove_other_chain_addresses, add_token_ts, holding_transfer_ownership,
           transfer_ownership_holding, update_other_chain_tokenservice,
           update_other_chain_tokenaddress, remove_other_chain_addresses, SetOtherChain
  <1> QED
    BY <1>3, <1>4, <1>5 DEF ServiceProposal

LEMMA RegistryProposalStep ==
    ASSUME NEW p, NEW voters, RegistryProposal(p, voters), HeldTypes
    PROVE  Executes(voters) /\ HeldTypes'
  <1>1. HeldTypes'
    BY DEF RegistryProposal, vars, serviceVars, ledger, HeldTypes
  <1>2. Executes(voters)
    BY DEF RegistryProposal, Executes, ts_register_token, update_token_metadata, set_role_token
  <1> QED
    BY <1>1, <1>2

-----------------------------------------------------------------------------
(* Steps that execute no proposal change nothing that the council holds.   *)

LEMMA CouncilUntouched ==
    ASSUME GovernanceInv, UNCHANGED councilVars
    PROVE  CouncilSound' /\ VoterListSound' /\ ~CouncilTouched
  BY DEF GovernanceInv, CouncilSound, CouncilTypes, Initialized, VoterListSound,
         councilVars, membership, ballots, CouncilTouched

LEMMA RegistryUntouched ==
    ASSUME UNCHANGED registry
    PROVE  ~TokenTouched
  BY DEF registry, TokenTouched, RolesOf

(* What is held does not fall.                                             *)
LEMMA NothingReleased ==
    ASSUME HeldTypes, UNCHANGED <<token_holding, holdings>>
    PROVE  /\ HeldTypes'
           /\ \A t \in Token : ~(token_holding'[t] < token_holding[t])
           /\ \A u \in Account, t \in Token : ~(holdings'[u][t] < holdings[u][t])
  <1>1. HeldTypes'
    BY DEF HeldTypes
  <1>2. ASSUME NEW t \in Token PROVE token_holding[t] \in Nat
    BY DEF HeldTypes
  <1>3. ASSUME NEW u \in Account, NEW t \in Token PROVE holdings[u][t] \in Nat
    BY DEF HeldTypes
  <1> QED
    BY <1>1, <1>2, <1>3

(* Recording a held amount.                                                *)
LEMMA HoldTypes ==
    ASSUME HeldTypes, NEW u \in Account, NEW t \in Token, NEW n \in Nat,
           holdings' = [holdings EXCEPT ![u][t] = @ + n]
    PROVE  /\ holdings' \in [Account -> [Token -> Nat]]
           /\ \A v \in Account, k \in Token : ~(holdings'[v][k] < holdings[v][k])
  <1>1. holdings[u] \in [Token -> Nat] /\ holdings[u][t] \in Nat
    BY DEF HeldTypes
  <1>2. holdings[u][t] + n \in Nat
    BY <1>1
  <1>3. [holdings[u] EXCEPT ![t] = @ + n] \in [Token -> Nat]
    BY <1>1, <1>2
  <1>4. holdings' = [holdings EXCEPT ![u] = [holdings[u] EXCEPT ![t] = @ + n]]
    BY DEF HeldTypes
  <1>5. holdings' \in [Account -> [Token -> Nat]]
    BY <1>3, <1>4 DEF HeldTypes
  <1>6. ASSUME NEW v \in Account, NEW k \in Token PROVE ~(holdings'[v][k] < holdings[v][k])
    <2>1. holdings[v][k] \in Nat
      BY DEF HeldTypes
    <2>2. holdings'[v][k] = holdings[v][k] \/ holdings'[v][k] = holdings[v][k] + n
      BY <1>1, <1>4 DEF HeldTypes
    <2> QED
      BY <2>1, <2>2
  <1> QED
    BY <1>5, <1>6

(* token_receive changes nothing that is governed and releases nothing.    *)
LEMMA ReceiveGoverned ==
    ASSUME GovernanceInv, Receive, UNCHANGED <<councilVars, registry>>
    PROVE  GovernanceInv' /\ StepGoverned
  <1>1. PICK p \in InPackets, signers \in [Slots -> Address], vs \in [Slots -> Verdict] :
          token_receive(p, signers, [i \in Slots |-> Sign(signers[i], p, vs[i])])
    BY DEF Receive
  <1> DEFINE signs == [i \in Slots |-> Sign(signers[i], p, vs[i])]
             held == HeldAmount(p, signers, signs)
  <1>2. p \in Packet
    BY BridgeAssumption
  <1>3. held \in Nat /\ p.token \in Token /\ p.receiver \in Account
    BY <1>2 DEF HeldAmount, Packet
  <1>4. token_receive(p, signers, signs)
    BY <1>1
  <1>5. /\ token_holding' = [token_holding EXCEPT ![p.token] = @ + held]
        /\ holdings' = [holdings EXCEPT ![p.receiver][p.token] = @ + held]
        /\ UNCHANGED <<settings, config, held_by>>
    BY <1>4 DEF token_receive, consume, hold_fund
  <1> HIDE DEF held
  <1>6. /\ token_holding' \in [Token -> Nat]
        /\ \A t \in Token : ~(token_holding'[t] < token_holding[t])
    <2>1. token_holding \in [Token -> Nat]
      BY DEF GovernanceInv, HeldTypes
    <2>2. token_holding[p.token] + held \in Nat
      BY <1>3, <2>1
    <2>3. token_holding' \in [Token -> Nat]
      BY <1>5, <2>1, <2>2
    <2>4. ASSUME NEW t \in Token PROVE ~(token_holding'[t] < token_holding[t])
      <3>1. token_holding[t] \in Nat
        BY <2>1
      <3>2. token_holding'[t] = token_holding[t] \/ token_holding'[t] = token_holding[t] + held
        BY <1>5, <2>1
      <3> QED
        BY <1>3, <3>1, <3>2
    <2> QED
      BY <2>3, <2>4
  <1>7. /\ holdings' \in [Account -> [Token -> Nat]]
        /\ \A u \in Account, t \in Token : ~(holdings'[u][t] < holdings[u][t])
    BY <1>3, <1>5, HoldTypes DEF GovernanceInv
  <1>8. ~BridgeTouched /\ ~ServiceTouched /\ ~HoldingTouched
    BY <1>5, <1>6, <1>7 DEF BridgeTouched, ServiceTouched, HoldingTouched, held_by
  <1> QED
    BY <1>6, <1>7, <1>8, CouncilUntouched, RegistryUntouched
    DEF GovernanceInv, HeldTypes, StepGoverned, GovernedTouched

LEMMA StateKept ==
    ASSUME GovernanceInv, UNCHANGED <<vars, registry>>
    PROVE  /\ HeldTypes'
           /\ ~BridgeTouched /\ ~ServiceTouched /\ ~HoldingTouched /\ ~TokenTouched
  <1>1. /\ UNCHANGED <<settings, config, held_by>>
        /\ UNCHANGED <<token_holding, holdings>>
    BY DEF vars, bridgeVars, serviceVars, ledger
  <1>2. /\ HeldTypes'
        /\ \A t \in Token : ~(token_holding'[t] < token_holding[t])
        /\ \A u \in Account, t \in Token : ~(holdings'[u][t] < holdings[u][t])
    BY <1>1, NothingReleased DEF GovernanceInv
  <1> QED
    BY <1>1, <1>2, RegistryUntouched DEF BridgeTouched, ServiceTouched, HoldingTouched, held_by

LEMMA VotingGoverned ==
    ASSUME GovernanceInv, Voting, UNCHANGED <<vars, registry>>
    PROVE  GovernanceInv' /\ StepGoverned
  <1>1. ASSUME NEW ms \in Founders, NEW n, initialize(ms, n)
        PROVE  GovernanceInv' /\ StepGoverned
    <2>1. CouncilSound' /\ VoterListSound' /\ ~CouncilTouched
      BY <1>1, InitializeCouncil, BallotsKept DEF GovernanceInv, initialize, CouncilTouched
    <2> QED
      BY <2>1, StateKept DEF GovernanceInv, StepGoverned, GovernedTouched
  <1>2. ASSUME CouncilSound', VoterListSound', UNCHANGED membership
        PROVE  GovernanceInv' /\ StepGoverned
    BY <1>2, StateKept DEF GovernanceInv, StepGoverned, GovernedTouched, CouncilTouched
  <1>3. ASSUME NEW m \in Member, NEW p \in Proposals, propose(m, Len(proposals) + 1, p)
        PROVE  GovernanceInv' /\ StepGoverned
    BY <1>2, <1>3, ProposeStep DEF GovernanceInv, propose
  <1>4. ASSUME NEW m \in Member, NEW p \in Proposals, NEW accept \in BOOLEAN,
               vote(m, p, accept) \/ update_vote(m, p, accept)
        PROVE  GovernanceInv' /\ StepGoverned
    BY <1>2, <1>4, VoteStep, UpdateVoteStep DEF GovernanceInv, vote, update_vote
  <1> QED
    BY <1>1, <1>3, <1>4 DEF Voting

LEMMA ChangeGoverned ==
    ASSUME GovernanceInv, ChangeCouncil, UNCHANGED <<vars, registry>>
    PROVE  GovernanceInv' /\ StepGoverned
  <1>1. HeldTypes' /\ CouncilSound
    BY StateKept DEF GovernanceInv
  <1>2. CouncilSound' /\ QuorumExecutes /\ UNCHANGED ballots
    BY <1>1, ExecuteStep, AddMemberStep, RemoveMemberStep, UpdateThresholdStep DEF ChangeCouncil
  <1>3. VoterListSound'
    BY <1>2, BallotsKept DEF GovernanceInv
  <1> QED
    BY <1>1, <1>2, <1>3 DEF GovernanceInv, StepGoverned

-----------------------------------------------------------------------------
(* Calls without the council pass an owner check only where it is not the  *)
(* owner.                                                                  *)

LEMMA OwnerCall ==
    ASSUME GovernanceInv, NEW from \in Caller, OwnerStep(from),
           UNCHANGED <<serviceVars, registry>>
    PROVE  /\ HeldTypes'
           /\ ~BridgeTouched /\ ~ServiceTouched /\ ~HoldingTouched /\ ~TokenTouched
  <1>1. from = owner_TB
    BY DEF OwnerStep, transfer_ownership_tb, add_attestor_tb, remove_attestor_tb,
           update_threshold_tb, add_chain_tb, remove_chain_tb, add_service_tb, remove_service_tb,
           pause_tb, unpause_tb
  <1>2. UNCHANGED <<config, held_by>> /\ UNCHANGED <<token_holding, holdings>>
    BY DEF serviceVars, ledger
  <1>3. /\ HeldTypes'
        /\ \A t \in Token : ~(token_holding'[t] < token_holding[t])
        /\ \A u \in Account, t \in Token : ~(holdings'[u][t] < holdings[u][t])
    BY <1>2, NothingReleased DEF GovernanceInv
  <1> QED
    BY <1>1, <1>2, <1>3, RegistryUntouched
    DEF Caller, BridgeTouched, ServiceTouched, HoldingTouched, held_by

LEMMA ServiceOwnerCall ==
    ASSUME GovernanceInv, NEW from \in Caller, Administer(from), UNCHANGED registry
    PROVE  /\ HeldTypes'
           /\ ~BridgeTouched /\ ~ServiceTouched /\ ~HoldingTouched /\ ~TokenTouched
  <1>1. UNCHANGED ledger => HeldTypes'
    BY DEF GovernanceInv, HeldTypes, ledger
  <1>2. ASSUME \/ \E o : transfer_ownership_ts(from, o)
               \/ \E o : holding_transfer_ownership(from, o)
        PROVE  from = owner_TS /\ UNCHANGED bridgeVars /\ HeldTypes'
    BY <1>1, <1>2 DEF transfer_ownership_ts, holding_transfer_ownership, transfer_ownership_holding
  <1>3. ASSUME NEW c, NEW t, NEW s, NEW a,
               \/ update_other_chain_tokenservice(from, c, t, s)
               \/ update_other_chain_tokenaddress(from, c, t, a)
               \/ remove_other_chain_addresses(from, c, t)
               \/ add_chain_to_existing_token(from, c, t, s, a)
               \/ \E min, max \in Amounts, l \in Limits : add_token_ts(from, t, min, max, l, c, s, a)
        PROVE  from = owner_TS /\ UNCHANGED bridgeVars /\ HeldTypes'
    BY <1>1, <1>3 DEF update_other_chain_tokenservice, update_other_chain_tokenaddress,
           remove_other_chain_addresses, add_chain_to_existing_token, add_token_ts, SetOtherChain
  <1>4. ASSUME NEW t,
               \/ remove_token_ts(from, t)
               \/ pause_token_ts(from, t)
               \/ unpause_token_ts(from, t)
               \/ \E n : update_min_transfer_ts(from, t, n)
               \/ \E n : update_max_transfer_ts(from, t, n)
               \/ \E l : update_withdrawal_limit(from, t, l)
        PROVE  from = owner_TS /\ UNCHANGED bridgeVars /\ HeldTypes'
    BY <1>1, <1>4 DEF remove_token_ts, pause_token_ts, unpause_token_ts, update_min_transfer_ts,
           update_max_transfer_ts, update_withdrawal_limit, SetTokenInfo
  <1>5. ASSUME NEW t, NEW u, NEW n \in Amounts, holding_release(from, t, u, n)
        PROVE  from = owner_TS /\ UNCHANGED bridgeVars /\ HeldTypes'
    <2>1. n \in Nat
      BY ServiceAssumption
    <2>2. HeldTypes'
      BY <1>5, <2>1, HoldingReleaseTypes DEF GovernanceInv
    <2> QED
      BY <1>5, <2>2 DEF holding_release
  <1>6. from = owner_TS /\ UNCHANGED bridgeVars /\ HeldTypes'
    BY <1>2, <1>3, <1>4, <1>5 DEF Administer
  <1> QED
    BY <1>6, RegistryUntouched
    DEF Caller, BridgeTouched, ServiceTouched, HoldingTouched, bridgeVars

LEMMA HoldingOwnerCall ==
    ASSUME GovernanceInv, NEW from \in Caller, HoldingOwnerStep(from), UNCHANGED registry
    PROVE  /\ HeldTypes'
           /\ ~BridgeTouched /\ ~ServiceTouched /\ ~HoldingTouched /\ ~TokenTouched
  <1>1. /\ from = owner_holding
        /\ UNCHANGED <<bridgeVars, config, token_holding>>
    BY DEF HoldingOwnerStep, transfer_ownership_holding, DirectHold, DirectRelease, hold_fund,
           release_fund, ledger
  <1>2. ASSUME NEW u \in Account, NEW t \in Token, NEW n \in Amounts, DirectHold(from, u, t, n)
        PROVE  holdings' \in [Account -> [Token -> Nat]]
    <2>1. n \in Nat
      BY ServiceAssumption
    <2> QED
      BY <1>2, <2>1, HoldTypes DEF DirectHold, hold_fund, GovernanceInv
  <1>3. ASSUME NEW u \in Account, NEW t \in Token, NEW n \in Amounts, DirectRelease(from, u, t, n)
        PROVE  holdings' \in [Account -> [Token -> Nat]]
    <2>1. n \in Nat
      BY ServiceAssumption
    <2> QED
      BY <1>3, <2>1, ReleaseTypes DEF DirectRelease, release_fund, GovernanceInv
  <1>4. ASSUME NEW o, transfer_ownership_holding(from, o)
        PROVE  holdings' \in [Account -> [Token -> Nat]]
    BY <1>4 DEF transfer_ownership_holding, ledger, GovernanceInv, HeldTypes
  <1>5. HeldTypes'
    BY <1>1, <1>2, <1>3, <1>4 DEF HoldingOwnerStep, HeldTypes, GovernanceInv
  <1>6. \A t \in Token : ~(token_holding'[t] < token_holding[t])
    <2>1. ASSUME NEW t \in Token PROVE token_holding[t] \in Nat
      BY DEF GovernanceInv, HeldTypes
    <2> QED
      BY <1>1, <2>1
  <1> QED
    BY <1>1, <1>5, <1>6, RegistryUntouched
    DEF Caller, BridgeTouched, ServiceTouched, HoldingTouched, bridgeVars

LEMMA AdminCall ==
    ASSUME GovernanceInv, NEW from \in Caller, AdminStep(from), UNCHANGED vars
    PROVE  /\ HeldTypes'
           /\ ~BridgeTouched /\ ~ServiceTouched /\ ~HoldingTouched /\ ~TokenTouched
  <1>1. PICK t \in DOMAIN registered_tokens :
          /\ registered_tokens[t] = from
          /\ \/ /\ \E admin : registered_tokens' = [registered_tokens EXCEPT ![t] = admin]
                /\ UNCHANGED roles
             \/ /\ \E account : \/ \E role : roles' = Put(roles, <<t, account>>, role)
                               \/ roles' = Drop(roles, <<t, account>>)
                /\ UNCHANGED registered_tokens
    BY DEF AdminStep
  <1>2. ASSUME NEW k \in DOMAIN registered_tokens, registered_tokens[k] = SERVICE_COUNCIL
        PROVE  /\ k \in DOMAIN registered_tokens' /\ registered_tokens'[k] = SERVICE_COUNCIL
               /\ RolesOf(k)' = RolesOf(k)
    <2>1. k # t
      BY <1>1, <1>2 DEF Caller
    <2>2. k \in DOMAIN registered_tokens' /\ registered_tokens'[k] = SERVICE_COUNCIL
      BY <1>1, <1>2, <2>1
    <2>3. CASE UNCHANGED roles
      BY <2>2, <2>3 DEF RolesOf
    <2>4. ASSUME NEW account, NEW role, roles' = Put(roles, <<t, account>>, role)
          PROVE  RolesOf(k)' = RolesOf(k)
      <3>1. {x \in DOMAIN roles' : x[1] = k} = {x \in DOMAIN roles : x[1] = k}
        BY <2>1, <2>4 DEF Put
      <3>2. \A x \in DOMAIN roles : x[1] = k => roles'[x] = roles[x]
        BY <2>1, <2>4 DEF Put
      <3> QED
        BY <3>1, <3>2 DEF RolesOf
    <2>5. ASSUME NEW account, roles' = Drop(roles, <<t, account>>)
          PROVE  RolesOf(k)' = RolesOf(k)
      <3>1. {x \in DOMAIN roles' : x[1] = k} = {x \in DOMAIN roles : x[1] = k}
        BY <2>1, <2>5 DEF Drop
      <3>2. \A x \in DOMAIN roles : x[1] = k => roles'[x] = roles[x]
        BY <2>1, <2>5 DEF Drop
      <3> QED
        BY <3>1, <3>2 DEF RolesOf
    <2> QED
      BY <1>1, <2>2, <2>3, <2>4, <2>5
  <1>3. ~TokenTouched
    BY <1>2 DEF TokenTouched
  <1>4. /\ UNCHANGED <<settings, config, held_by>>
        /\ UNCHANGED <<token_holding, holdings>>
    BY DEF vars, bridgeVars, serviceVars, ledger
  <1>5. /\ HeldTypes'
        /\ \A k \in Token : ~(token_holding'[k] < token_holding[k])
        /\ \A u \in Account, k \in Token : ~(holdings'[u][k] < holdings[u][k])
    BY <1>4, NothingReleased DEF GovernanceInv
  <1> QED
    BY <1>3, <1>4, <1>5 DEF BridgeTouched, ServiceTouched, HoldingTouched, held_by

LEMMA DirectGoverned ==
    ASSUME GovernanceInv, NEW from \in Caller, DirectCall(from)
    PROVE  GovernanceInv' /\ StepGoverned
  <1>1. CouncilSound' /\ VoterListSound' /\ ~CouncilTouched
    BY CouncilUntouched DEF DirectCall
  <1>2. /\ HeldTypes'
        /\ ~BridgeTouched /\ ~ServiceTouched /\ ~HoldingTouched /\ ~TokenTouched
    BY OwnerCall, ServiceOwnerCall, HoldingOwnerCall, AdminCall DEF DirectCall
  <1> QED
    BY <1>1, <1>2 DEF GovernanceInv, StepGoverned, GovernedTouched

-----------------------------------------------------------------------------
LEMMA GovernanceInvInit == GovernanceInit => GovernanceInv
  <1> SUFFICES ASSUME GovernanceInit PROVE GovernanceInv
    OBVIOUS
  <1>1. CouncilSound
    BY DEF GovernanceInit, CouncilInit, CouncilSound, CouncilTypes, Initialized
  <1>2. VoterListSound
    BY DEF GovernanceInit, CouncilInit, VoterListSound
  <1>3. HeldTypes
    BY DEF GovernanceInit, HeldTypes
  <1> QED
    BY <1>1, <1>2, <1>3 DEF GovernanceInv

LEMMA GovernanceInvStep ==
    ASSUME GovernanceInv, [GovernanceNext]_governanceVars
    PROVE  GovernanceInv' /\ (GovernanceNext => StepGoverned)
  <1>1. CASE (Voting \/ ChangeCouncil) /\ UNCHANGED <<vars, registry>>
    BY <1>1, VotingGoverned, ChangeGoverned
  <1>2. ASSUME NEW p \in DOMAIN proposal_vote_counts, NEW voters \in [Slots -> Member],
               BridgeProposal(p, voters) \/ ServiceProposal(p, voters) \/ RegistryProposal(p, voters)
        PROVE  GovernanceInv' /\ StepGoverned
    <2>1. p \in Proposals /\ HeldTypes
      BY DEF GovernanceInv, CouncilSound, CouncilTypes
    <2>2. Executes(voters) /\ HeldTypes'
      BY <1>2, <2>1, BridgeProposalStep, ServiceProposalStep, RegistryProposalStep
    <2> QED
      BY <2>2, ExecutesStep
  <1>3. CASE Receive /\ UNCHANGED <<councilVars, registry>>
    BY <1>3, ReceiveGoverned
  <1>4. CASE UNCHANGED governanceVars
    BY <1>4, StateKept, CouncilUntouched
    DEF GovernanceInv, StepGoverned, GovernedTouched, governanceVars
  <1>5. ASSUME NEW from \in Caller, DirectCall(from)
        PROVE  GovernanceInv' /\ StepGoverned
    BY <1>5, DirectGoverned
  <1> QED
    BY <1>1, <1>2, <1>3, <1>4, <1>5 DEF GovernanceNext

(* Through every sequence of executed proposals total_members counts the   *)
(* members of the council, and the threshold is one they can reach.        *)
THEOREM CouncilAlwaysSound == GovernanceSpec => []CouncilSound
  <1>1. GovernanceInv => CouncilSound
    BY DEF GovernanceInv
  <1>2. GovernanceInv /\ [GovernanceNext]_governanceVars => GovernanceInv'
    BY GovernanceInvStep
  <1> QED
    BY <1>1, <1>2, GovernanceInvInit, PTL DEF GovernanceSpec

(* No address is twice in the voter list of a proposal, also after propose *)
(* has started the list over.                                              *)
THEOREM VoterListAlwaysSound == GovernanceSpec => []VoterListSound
  <1>1. GovernanceInv => VoterListSound
    BY DEF GovernanceInv
  <1>2. GovernanceInv /\ [GovernanceNext]_governanceVars => GovernanceInv'
    BY GovernanceInvStep
  <1> QED
    BY <1>1, <1>2, GovernanceInvInit, PTL DEF GovernanceSpec

(* Nothing that the council holds changes, and no held funds of the        *)
(* service are released, without a proposal that council_threshold members *)
(* accept at that time, whoever calls the programs and whatever was given  *)
(* to another owner and back before.                                       *)
THEOREM CouncilGoverns == GovernanceSpec => GovernedByQuorum
  <1>1. GovernanceInv /\ [GovernanceNext]_governanceVars => GovernanceInv'
    BY GovernanceInvStep
  <1>2. GovernanceInv /\ [GovernanceNext]_governanceVars
          => [ BridgeTouched \/ ServiceTouched \/ HoldingTouched \/ TokenTouched \/ CouncilTouched
               => \E p \in proposal_executed' \ proposal_executed :
                     Cardinality({m \in members \ {ZERO_ADDRESS} : Accepted(p, m)})
                       >= council_threshold ]_governanceVars
    BY GovernanceInvStep DEF StepGoverned, GovernedTouched, QuorumExecutes
  <1> QED
    BY <1>1, <1>2, GovernanceInvInit, PTL DEF GovernanceSpec, GovernedByQuorum
=============================================================================
