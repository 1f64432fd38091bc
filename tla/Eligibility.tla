---------------------------- MODULE Eligibility ----------------------------
(***************************************************************************)
(* Who may bid in an exclusive auction or buy tickets of an exclusive      *)
(* raffle. The listing names groups: holders of an NFT collection, holders *)
(* of a token, or a kind left for a later version. A signer says in which  *)
(* group to be and hands over the accounts that show it, as payload:       *)
(*   a token account     [mint, owner, amount]                             *)
(*   a metadata account  [mint, collection]                                *)
(* where the collection is a set of at most one, empty as well when the    *)
(* collection of the metadata is not verified: both are refused alike.     *)
(***************************************************************************)
EXTENDS Naturals, Sequences

GroupTypes == {"NftHolderGroup", "TokenHolderGroup", "OffChainNftGroup"}

(* eligibility_check_input, an option of which the type matters only. *)
Inputs == GroupTypes \cup {"None"}

(* What can be handed over: accounts of another kind abort like none.       *)
Payloads(tokens, metadata) ==
  {<<>>} \cup {<<t>> : t \in tokens}
         \cup {<<t, m>> : t \in tokens, m \in metadata}

(* EligibilityCheckStrategy::new. What is handed over without need is       *)
(* verified just the same, and off-chain groups are not implemented.        *)
IsVerified(signer, input, payload) ==
  \/ input = "None"
  \/ /\ input \in {"NftHolderGroup", "TokenHolderGroup"}
     /\ Len(payload) >= 1
     /\ input = "NftHolderGroup" =>
          /\ Len(payload) >= 2
          /\ payload[1].mint = payload[2].mint
          /\ payload[2].collection # {}
     /\ payload[1].owner = signer
     /\ payload[1].amount # 0

(* is_nft_holder and is_token_holder *)
IsGroupMember(group, payload) ==
  \/ /\ group.group_type = "NftHolderGroup"
     /\ group.key \in payload[2].collection
  \/ /\ group.group_type = "TokenHolderGroup"
     /\ group.key = payload[1].mint

(* check_eligibility: the group is one of the type that was verified.       *)
CheckEligibility(groups, input, payload) ==
  \/ groups = {}
  \/ \E group \in groups :
       group.group_type = input /\ IsGroupMember(group, payload)

Passes(groups, signer, input, payload) ==
  /\ IsVerified(signer, input, payload)
  /\ CheckEligibility(groups, input, payload)

(* The users who pass with what there is on chain, if they know how. *)
EligibleUsers(groups, users, tokens, metadata) ==
  {u \in users :
     \E input \in Inputs, payload \in Payloads(tokens, metadata) :
       Passes(groups, u, input, payload)}
=============================================================================
