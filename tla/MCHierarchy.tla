---------------------------- MODULE MCHierarchy ----------------------------
(* Small instances of Hierarchy for TLC. *)
EXTENDS Hierarchy, TLC

AnyPair == Records \X Records
MCSymmetry == Permutations(Records) \cup Permutations(Kinds)
=============================================================================
