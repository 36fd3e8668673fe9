------------------------------ MODULE MCRents ------------------------------
(* Rents of one property, all by one occupant, so that every handler meets *)
(* every other on the same documents.                                      *)
EXTENDS Rents, TLC

CONSTANTS owner, occupant, home

MCUsers == {owner, occupant}
MCProperties == {home}
MCOwnerOf == [p \in MCProperties |-> owner]
MCPropertyOf == [r \in RentIds |-> home]
MCOccupantOf == [r \in RentIds |-> occupant]

(* Neither the slots nor the ids of the rents differ in anything. *)
Symmetry == Permutations(Requests) \cup Permutations(RentIds)
=============================================================================
