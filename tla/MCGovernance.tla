---- MODULE MCGovernance ----
(* Instance of Governance: two possible members, one token, one foreign     *)
(* chain, and one proposal for each struct of the council programs.         *)
EXTENDS Governance

MCChain == {"aleo", "eth"}
MCAddress == 0 .. 2
MCMember == 0 .. 2
MCInPackets ==
    {[src |-> "eth", dst |-> "aleo", srcService |-> "ts", dstService |-> "ts",
      sequence |-> 1, token |-> "t", amount |-> 1, sender |-> "u", receiver |-> "u",
      height |-> 1]}
MCLimit == [percentage |-> 5000, duration |-> 1, threshold_no_limit |-> 2]
MCNewLimit == [percentage |-> 10000, duration |-> 1, threshold_no_limit |-> 2]
MCLimits == {MCLimit, MCNewLimit}
MCFounders == {<<1, 2>>, <<0, 1>>}

AddAttestor == [id |-> 1, new_attestor |-> 2, new_threshold |-> 1]
RemoveAttestor == [id |-> 1, existing_attestor |-> 2, new_threshold |-> 1]
NewOwner == [id |-> 1, new_owner |-> "wallet"]
UpdateThreshold == [id |-> 1, new_threshold |-> 2]
ChainProposal == [id |-> 1, chain_id |-> "eth"]
TokenProposal == [id |-> 1, token_id |-> "t"]
AddToken == [id |-> 1, token_id |-> "t", min_transfer |-> 0, max_transfer |-> 1,
             limit |-> MCLimit, token_address |-> "t", token_service |-> "ts", chain_id |-> "eth"]
Release == [id |-> 1, token_id |-> "t", receiver |-> "u", amount |-> 1]
Register == [id |-> 1, token_name |-> "t"]
Manage == [id |-> 1, token_id |-> "t", admin |-> "wallet"]
SetRole == [id |-> 1, token_id |-> "t", account |-> "ts", role |-> 3]
AddMember == [id |-> 1, new_member |-> 2, new_threshold |-> 2]
RemoveMember == [id |-> 1, existing_member |-> 2, new_threshold |-> 1]

MCProposals ==
    { [id |-> 1],
      NewOwner, AddAttestor, RemoveAttestor, UpdateThreshold, ChainProposal,
      [id |-> 1, service |-> "ts"],
      TokenProposal, AddToken,
      [id |-> 1, token_id |-> "t", min_transfer |-> 0],
      [id |-> 1, token_id |-> "t", max_transfer |-> 1],
      [id |-> 1, token_id |-> "t", limit |-> MCNewLimit],
      Release,
      [id |-> 1, chain_id |-> "eth", token_id |-> "t", token_service_address |-> "ts"],
      [id |-> 1, chain_id |-> "eth", token_id |-> "t", token_address |-> "t"],
      [id |-> 1, chain_id |-> "eth", token_id |-> "t"],
      Register, Manage, SetRole, AddMember, RemoveMember }

(* Any one proposal, and the pairs in which the first matters to the second *)
MCAgenda ==
    {<<>>} \cup {<<p>> : p \in MCProposals}
    \cup {<<AddMember, p>> : p \in {AddMember, RemoveMember, Release, UpdateThreshold}}
    \cup {<<RemoveMember, p>> : p \in {AddMember, RemoveMember, Release}}
    \cup {<<UpdateThreshold, Release>>, <<Release, Release>>, <<RemoveAttestor, AddAttestor>>,
          <<TokenProposal, AddToken>>, <<TokenProposal, Release>>,
          <<Register, Manage>>, <<Register, SetRole>>}
====
