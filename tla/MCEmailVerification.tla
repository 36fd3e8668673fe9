------------------------ MODULE MCEmailVerification ------------------------
(* Two users, two addresses, two requests at a time. *)
EXTENDS EmailVerification, TLC

Symmetry ==
  Permutations(Users) \cup Permutations(Addresses)
    \cup Permutations(Slots) \cup Permutations(Codes)
=============================================================================
