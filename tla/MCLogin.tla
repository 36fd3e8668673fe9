------------------------------ MODULE MCLogin ------------------------------
(* One address under two urls, two requests at a time, five minutes of two *)
(* ticks and the smallest limit, which two overlapping requests already    *)
(* exceed; that a larger number can be put back is left to the theorem     *)
(* about Burst, which holds for any limit.                                 *)
EXTENDS Login, TLC, Combinatorics

CONSTANT ann

MCAddressOf == [u \in Urls |-> ann]

(* The two urls name the same address and differ in nothing else. *)
Symmetry == Permutations(Slots) \cup Permutations(Mails) \cup Permutations(Urls)

ASSUME BurstIsBinomial ==
  \A n \in 0 .. 4, k \in 1 .. 4 : Burst(n, k) = choose(n + k, k) - 1
=============================================================================
