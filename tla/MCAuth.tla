------------------------------ MODULE MCAuth ------------------------------
(* One account at a time, with a second one after its removal. *)
EXTENDS AuthSessions, TLC

(* Requests of one kind are interchangeable; only invariants are checked. *)
RequestSymmetry ==
  Permutations(Logins) \cup Permutations(Changes) \cup Permutations(Mints) \cup Permutations(Joins) \cup Permutations(Boots)
=============================================================================
