---------------------------- MODULE MCReferrals ----------------------------
(* Small instances of Referrals for TLC. *)
EXTENDS Referrals, TLC

MCCapabilities == {"view", "edit", "manage"}
MCGrantCaps == {{"view"}, {"view", "edit"}, {"view", "manage"}}
HiddenGrantCaps == {{}, {"view"}}
PolicyCaps == {{"view"}, {"view", "edit"}}
MCAdminRows == [to : Groups, status : {"open", "responded", "cancelled"}]
Both == {TRUE, FALSE}
AllKinds == Kinds
MCSymmetry == Permutations(Groups) \cup Permutations(Ids)
=============================================================================
