--------------------------- MODULE RentLifecycle ---------------------------
(***************************************************************************)
(* What RentsService promises: the life of a rent as its handlers would    *)
(* make it if each of them took effect at once.  Every guard is one of the *)
(* checks a handler makes before it writes (the texts of its exceptions    *)
(* state them), evaluated here in the state the write happens in.          *)
(*                                                                         *)
(* Rents.tla is the detailed specification, in which a handler reads,      *)
(* awaits and writes in steps of its own.                                  *)
(***************************************************************************)
EXTENDS RentDomain

VARIABLES
  active,    \* the `active` field of each property
  status,    \* the `status` field of each rent, "NEW" before it is created
  receipts   \* how many RENT transactions are recorded for each rent

vars == <<active, status, receipts>>

TypeOK ==
  /\ active \in [Properties -> BOOLEAN]
  /\ status \in [RentIds -> RentState \cup {"NEW"}]
  /\ receipts \in [RentIds -> Nat]

(* No rent of the property is in state s. *)
NoneIn(p, s) == \A r \in RentsOf(p) : status[r] # s

Init ==
  /\ active = [p \in Properties |-> FALSE]
  /\ status = [r \in RentIds |-> "NEW"]
  /\ receipts = [r \in RentIds |-> 0]

Become(r, s) == status' = [status EXCEPT ![r] = s]

UpdateProperty(p, on) ==
  /\ active' = [active EXCEPT ![p] = on]
  /\ UNCHANGED <<status, receipts>>

RequestRent(r) ==
  /\ status[r] = "NEW"
  /\ active[PropertyOf[r]]
  /\ NoneIn(PropertyOf[r], "PAID")
  /\ \A o \in RentsOf(PropertyOf[r]) :
       OccupantOf[o] = OccupantOf[r] => status[o] # "REQUEST"
  /\ Become(r, "REQUEST")
  /\ UNCHANGED <<active, receipts>>

ApproveRent(r) ==
  /\ status[r] \in {"REQUEST", "REJECTED"}
  /\ NoneIn(PropertyOf[r], "PAYING")
  /\ Become(r, "APPROVED")
  /\ UNCHANGED <<active, receipts>>

RejectRent(r) ==
  /\ status[r] \in {"REQUEST", "APPROVED"}
  /\ Become(r, "REJECTED")
  /\ UNCHANGED <<active, receipts>>

PayingRent(r) ==
  /\ status[r] = "APPROVED"
  /\ NoneIn(PropertyOf[r], "PAYING")
  /\ Become(r, "PAYING")
  /\ UNCHANGED <<active, receipts>>

PayRent(r) ==
  /\ status[r] = "PAYING"
  /\ Become(r, "PAID")
  /\ receipts' = [receipts EXCEPT ![r] = @ + 1]
  /\ UNCHANGED active

CancelRent(r) ==
  /\ status[r] \in {"REQUEST", "APPROVED"}
  /\ Become(r, "CANCELED")
  /\ UNCHANGED <<active, receipts>>

CancelRentPayment(r) ==
  /\ status[r] = "PAYING"
  /\ Become(r, "APPROVED")
  /\ UNCHANGED <<active, receipts>>

RemindRent(r) ==
  /\ status[r] = "PAID"
  /\ Become(r, "EXPIRED")
  /\ UNCHANGED <<active, receipts>>

Next ==
  \/ \E p \in Properties, on \in BOOLEAN : UpdateProperty(p, on)
  \/ \E r \in RentIds :
       \/ RequestRent(r)
       \/ ApproveRent(r)
       \/ RejectRent(r)
       \/ PayingRent(r)
       \/ PayRent(r)
       \/ CancelRent(r)
       \/ CancelRentPayment(r)
       \/ RemindRent(r)

Spec == Init /\ [][Next]_vars

-----------------------------------------------------------------------------
(* At most one rent of a property is being paid for: approveRent and       *)
(* payingRent both refuse while another one is (rents.service.ts:103-106   *)
(* and 145-152).                                                           *)
OnePaymentPerProperty ==
  \A r, o \in RentIds :
    /\ PropertyOf[r] = PropertyOf[o]
    /\ status[r] = "PAYING"
    /\ status[o] = "PAYING"
    => r = o

(* An occupant has at most one open request on a property                  *)
(* (rents.service.ts:47-50).                                               *)
OneOpenRequest ==
  \A r, o \in RentIds :
    /\ PropertyOf[r] = PropertyOf[o]
    /\ OccupantOf[r] = OccupantOf[o]
    /\ status[r] = "REQUEST"
    /\ status[o] = "REQUEST"
    => r = o

(* A rent that is or was rented has exactly one receipt, any other rent    *)
(* has none: nobody pays twice and nobody pays for nothing                 *)
(* (rents.service.ts:181-186).                                             *)
OneReceiptPerTenancy ==
  \A r \in RentIds :
    receipts[r] = IF status[r] \in {"PAID", "EXPIRED"} THEN 1 ELSE 0
=============================================================================
