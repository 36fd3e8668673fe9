----------------------------- MODULE RentDomain -----------------------------
(***************************************************************************)
(* What every model of the rents of the marketplace shares: the users, the *)
(* properties they own, the rent documents that may be created, and the    *)
(* states of a rent (shared/rent.state.ts).                                *)
(*                                                                         *)
(* A rent document names its property and its occupant when it is created  *)
(* and no code path changes them afterwards (every update of the rents     *)
(* collection sets `status` only), so they are constants of the document   *)
(* id.  The owner of a property is set once too.                           *)
(***************************************************************************)
EXTENDS Naturals, FiniteSets

CONSTANTS
  Users,       \* ids of the users collection
  Properties,  \* ids of the properties collection
  RentIds,     \* the uuids that rent documents may be created under
  OwnerOf,     \* the owner of each property
  PropertyOf,  \* the property a rent document is created for
  OccupantOf   \* the occupant a rent document is created with

ASSUME DomainAssumption ==
  /\ IsFiniteSet(RentIds)
  /\ OwnerOf \in [Properties -> Users]
  /\ PropertyOf \in [RentIds -> Properties]
  /\ OccupantOf \in [RentIds -> Users]

(* The states a stored rent can be in. *)
RentState ==
  {"REQUEST", "APPROVED", "REJECTED", "PAYING", "PAID", "EXPIRED", "CANCELED"}

(* The rents of one property. *)
RentsOf(p) == {r \in RentIds : PropertyOf[r] = p}
=============================================================================
