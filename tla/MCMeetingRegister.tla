-------------------------- MODULE MCMeetingRegister --------------------------
(* A small instance of MeetingRegister for TLC. *)
EXTENDS MeetingRegister, TLC

Alike == Permutations(Users) \cup Permutations(Groups) \cup Permutations(Workers)
=============================================================================
