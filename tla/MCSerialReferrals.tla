------------------------- MODULE MCSerialReferrals -------------------------
(* A small instance of SerialReferrals for TLC. *)
EXTENDS SerialReferrals, TLC

ASSUME SerialAssumption == OneWorker

MCCapabilities == {"view", "edit", "manage"}
MCGrantCaps == {{"view"}, {"view", "edit"}}
NoAdmin == {}
SomeKinds == {"created", "expired"}
MCAdminRows == [to : Groups, status : {"open"}]
MCSymmetry == Permutations(Groups) \cup Permutations(Ids)
=============================================================================
