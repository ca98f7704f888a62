------------------------- MODULE MCReferralRequests -------------------------
(* Small instances of ReferralRequests for TLC. *)
EXTENDS ReferralRequests, TLC

MCCapabilities == {"view", "edit", "manage"}
MCGrantCaps == {{"view"}, {"view", "edit"}}
AllKinds == Kinds
NoAdmin == {}
Manage == {{"manage"}}
Reopened == [to : Groups, status : {"open"}]
MCSymmetry == Permutations(Groups) \cup Permutations(Ids) \cup Permutations(Workers)
=============================================================================
