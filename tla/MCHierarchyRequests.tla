------------------------- MODULE MCHierarchyRequests -------------------------
(* Small instances of SerialHierarchy and HierarchyRequests for TLC. *)
EXTENDS SerialHierarchy, TLC

CONSTANTS rep1, rep2, res1, res2

(* The shipped forms: resolutions under delegation reports.                *)
ReportsOverResolutions == {rep1, rep2} \X {res1, res2}
AnyPair == Records \X Records

MCSymmetry == Permutations(Requests)
=============================================================================
