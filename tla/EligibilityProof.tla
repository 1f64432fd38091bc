-------------------------- MODULE EligibilityProof --------------------------
(***************************************************************************)
(* The eligibility check against what its inputs document: a signer is     *)
(* eligible by holding a token of a group, or an NFT of its collection.    *)
(***************************************************************************)
EXTENDS Eligibility, TLAPS

(* What the documents call a holder. *)
Holds(u, t) == t.owner = u /\ t.amount # 0

IsTokenHolder(u, key, tokens) ==
  \E t \in tokens : Holds(u, t) /\ t.mint = key

IsNftHolder(u, key, tokens, metadata) ==
  \E t \in tokens, m \in metadata :
    Holds(u, t) /\ m.mint = t.mint /\ key \in m.collection

IsMember(u, group, tokens, metadata) ==
  \/ group.group_type = "TokenHolderGroup" /\ IsTokenHolder(u, group.key, tokens)
  \/ group.group_type = "NftHolderGroup"
       /\ IsNftHolder(u, group.key, tokens, metadata)

(* Whatever a signer claims and hands over, who passes holds something that *)
(* a group of the listing asks for: one group's type cannot be shown with   *)
(* the accounts of another's, nor with accounts of somebody else.           *)
THEOREM OnlyMembersPass ==
  ASSUME NEW groups, NEW u, NEW input, NEW tokens, NEW metadata,
         NEW payload \in Payloads(tokens, metadata),
         groups # {}, Passes(groups, u, input, payload)
  PROVE  \E group \in groups : IsMember(u, group, tokens, metadata)
<1>1. PICK group \in groups :
        group.group_type = input /\ IsGroupMember(group, payload)
  BY DEF Passes, CheckEligibility
<1>2. CASE group.group_type = "NftHolderGroup"
  <2>1. /\ Len(payload) >= 2
        /\ payload[1].mint = payload[2].mint
        /\ Holds(u, payload[1])
    BY <1>1, <1>2 DEF Passes, IsVerified, Holds
  <2>2. PICK t \in tokens, m \in metadata : payload = <<t, m>>
    BY <2>1 DEF Payloads
  <2>3. group.key \in m.collection
    BY <1>1, <1>2, <2>2 DEF IsGroupMember
  <2> QED BY <1>1, <1>2, <2>1, <2>2, <2>3 DEF IsMember, IsNftHolder
<1>3. CASE group.group_type = "TokenHolderGroup"
  <2>1. Len(payload) >= 1 /\ Holds(u, payload[1])
    BY <1>1, <1>3 DEF Passes, IsVerified, Holds
  <2>2. payload[1] \in tokens
    BY <2>1 DEF Payloads
  <2>3. group.key = payload[1].mint
    BY <1>1, <1>3 DEF IsGroupMember
  <2> QED BY <1>1, <1>3, <2>1, <2>2, <2>3 DEF IsMember, IsTokenHolder
<1> QED BY <1>1, <1>2, <1>3 DEF IsGroupMember

(* Nobody is shut out: with the accounts the documents ask for, every       *)
(* holder passes, and so does everybody when the listing names no group.    *)
THEOREM MembersPass ==
  ASSUME NEW groups, NEW u, NEW tokens, NEW metadata,
         groups = {} \/ \E group \in groups : IsMember(u, group, tokens, metadata)
  PROVE  \E input \in Inputs, payload \in Payloads(tokens, metadata) :
           Passes(groups, u, input, payload)
<1>1. CASE groups = {}
  <2>1. "None" \in Inputs /\ <<>> \in Payloads(tokens, metadata)
    BY DEF Inputs, Payloads
  <2>2. Passes(groups, u, "None", <<>>)
    BY <1>1 DEF Passes, IsVerified, CheckEligibility
  <2> QED BY <2>1, <2>2
<1>2. CASE \E group \in groups : IsMember(u, group, tokens, metadata)
  <2>1. PICK group \in groups : IsMember(u, group, tokens, metadata)
    BY <1>2
  <2>2. CASE group.group_type = "TokenHolderGroup"
    <3>1. PICK t \in tokens : Holds(u, t) /\ t.mint = group.key
      BY <2>1, <2>2 DEF IsMember, IsTokenHolder
    <3>2. <<t>> \in Payloads(tokens, metadata)
      BY DEF Payloads
    <3>3. Passes(groups, u, "TokenHolderGroup", <<t>>)
      BY <2>2, <3>1
      DEF Passes, IsVerified, CheckEligibility, IsGroupMember, Holds
    <3> QED BY <3>2, <3>3 DEF Inputs, GroupTypes
  <2>3. CASE group.group_type = "NftHolderGroup"
    <3>1. PICK t \in tokens, m \in metadata :
            Holds(u, t) /\ m.mint = t.mint /\ group.key \in m.collection
      BY <2>1, <2>3 DEF IsMember, IsNftHolder
    <3>2. <<t, m>> \in Payloads(tokens, metadata)
      BY DEF Payloads
    <3>3. Passes(groups, u, "NftHolderGroup", <<t, m>>)
      BY <2>3, <3>1
      DEF Passes, IsVerified, CheckEligibility, IsGroupMember, Holds
    <3> QED BY <3>2, <3>3 DEF Inputs, GroupTypes
  <2> QED BY <2>1, <2>2, <2>3 DEF IsMember
<1> QED BY <1>1, <1>2

(* The two together: the eligible users are the members of the groups.      *)
THEOREM EligibleAreMembers ==
  ASSUME NEW groups, NEW users, NEW tokens, NEW metadata, groups # {}
  PROVE  EligibleUsers(groups, users, tokens, metadata)
           = {u \in users : \E group \in groups :
                              IsMember(u, group, tokens, metadata)}
BY OnlyMembersPass, MembersPass DEF EligibleUsers
=============================================================================
