------------------------ MODULE MCTransitionRequests ------------------------
(* The workflow type of MCSerialRequests, closed on one event only.        *)
EXTENDS TransitionRequests, TLC

CONSTANTS draft, committee, closed, withdrawn, report

MCStates == {draft, committee, closed, withdrawn}
MCAllowsReferrals == {draft, committee, withdrawn}
MCEdges == {"submit", "return", "close", "withdraw"}
MCFrom == [e \in MCEdges |-> IF e = "submit" THEN draft ELSE committee]
MCTo == ("submit" :> committee) @@ ("return" :> draft) @@ ("close" :> closed) @@ ("withdraw" :> withdrawn)
MCRequired == ("submit" :> {}) @@ ("return" :> {}) @@ ("close" :> {report}) @@ ("withdraw" :> {})
MCConditions == ("submit" :> {"field_set"}) @@ ("return" :> {"all_children_closed"})
             @@ ("close" :> {"no_open_referrals", "all_children_closed"}) @@ ("withdraw" :> {})
MCNeedsComment == {"return", "withdraw"}
MCEventTypes == {report}
MCSymmetry == Permutations(Referrals) \cup Permutations(Children) \cup Permutations(Workers)
=============================================================================
