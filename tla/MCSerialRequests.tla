-------------------------- MODULE MCSerialRequests --------------------------
(* A small workflow type for TLC: a draft, a committee stage it may return *)
(* from, and two ends, one of which is sealed against referrals.           *)
EXTENDS SerialRequests, TLC

CONSTANTS draft, committee, closed, withdrawn, report, atc

MCStates == {draft, committee, closed, withdrawn}
MCAllowsReferrals == {draft, committee, withdrawn}
MCEdges == {"submit", "return", "close", "withdraw"}
MCFrom == [e \in MCEdges |-> IF e = "submit" THEN draft ELSE committee]
MCTo == ("submit" :> committee) @@ ("return" :> draft) @@ ("close" :> closed) @@ ("withdraw" :> withdrawn)
MCRequired == ("submit" :> {}) @@ ("return" :> {}) @@ ("close" :> {report, atc}) @@ ("withdraw" :> {})
MCConditions == ("submit" :> {"field_set"}) @@ ("return" :> {"all_children_closed"})
             @@ ("close" :> {"no_open_referrals", "all_children_closed"}) @@ ("withdraw" :> {})
MCNeedsComment == {"return", "withdraw"}
MCEventTypes == {report, atc}
MCSymmetry == Permutations(Referrals) \cup Permutations(Children) \cup Permutations(Workers)
=============================================================================
