---------------------------- MODULE Rents_proofs ----------------------------
(***************************************************************************)
(* Safety of the interleaved handlers of Rents, for any number of users,   *)
(* properties, rents and requests at a time, failures included.            *)
(*                                                                         *)
(* The status of a rent alone says little: a request in flight carries a   *)
(* status it read in the past.  The inductive invariant therefore says     *)
(* what each request has found out before each of its steps (Committed),   *)
(* that a grant outlives every status that followed from it (Granted), and *)
(* that a receipt outlives the payment (Paid).                             *)
(***************************************************************************)
EXTENDS Rents, FiniteSetTheorems, TLAPS

(* What a request knows once its checks are made. *)
Committed ==
  \A q \in Requests :
    LET seen == req[q].seen
        user == req[q].user
    IN  /\ req[q].at \in {"request.paid", "request.open", "request.create"}
             => seen = "NEW" /\ user = OccupantOf[req[q].rent]
        /\ req[q].at \in {"approve.check", "approve.write"}
             => user = OwnerOf[PropertyOf[req[q].rent]]
        /\ At(q, "approve.write") => seen \in {"REJECTED", "REQUEST"}
        /\ At(q, "reject.write") => seen \in {"APPROVED", "REQUEST"}
        /\ At(q, "paying.write") => seen = "APPROVED"
        /\ req[q].at \in {"pay.record", "pay.settle"} => seen = "PAYING"
        /\ At(q, "cancel.write") => seen \in {"APPROVED", "REQUEST"}
        /\ At(q, "cancelPayment.write") => seen = "PAYING"
        /\ req[q].at \in {"remind.due", "remind.expire"} => seen = "PAID"

(* The states that only an approval leads to. *)
GrantedState == {"APPROVED", "PAYING", "PAID", "EXPIRED"}

Granted ==
  /\ \A r \in RentIds :
       status[r] \in GrantedState \/ receipts[r] > 0
         => granter[r] = OwnerOf[PropertyOf[r]]
  /\ \A q \in Requests :
       req[q].seen \in GrantedState
         => granter[req[q].rent] = OwnerOf[PropertyOf[req[q].rent]]

Paid ==
  /\ \A r \in RentIds : status[r] \in {"PAID", "EXPIRED"} => receipts[r] > 0
  /\ \A q \in Requests :
       req[q].at \in {"pay.settle", "remind.expire"}
         => receipts[req[q].rent] > 0

IInv == TypeOK /\ Committed /\ Granted /\ Paid

(* Every action writes values of the right kind. *)
LEMMA TypeStep == TypeOK /\ [Next]_vars => TypeOK'
<1> SUFFICES ASSUME TypeOK, [Next]_vars PROVE TypeOK'
  OBVIOUS
<1> USE DomainAssumption, RentsAssumption
    DEF TypeOK, InFlight, Step, RentState, Begin, Goto, Respond, Write, At,
        Stored, Idle
<1>1. CASE UNCHANGED vars
  BY <1>1 DEF vars
<1>2. ASSUME NEW q \in Requests, NEW r \in RentIds, RequestRent(q, r)
     PROVE  TypeOK'
  BY <1>2 DEF RequestRent
<1>3. ASSUME NEW q \in Requests, NEW r \in RentIds, RemindRent(q, r)
     PROVE  TypeOK'
  BY <1>3 DEF RemindRent
<1>4. ASSUME NEW q \in Requests, NEW r \in RentIds,
             NEW u \in Users, ApproveRent(q, r, u)
     PROVE  TypeOK'
  BY <1>4 DEF ApproveRent
<1>5. ASSUME NEW q \in Requests, NEW r \in RentIds,
             NEW u \in Users, RejectRent(q, r, u)
     PROVE  TypeOK'
  BY <1>5 DEF RejectRent
<1>6. ASSUME NEW q \in Requests, NEW r \in RentIds,
             NEW u \in Users, PayingRent(q, r, u)
     PROVE  TypeOK'
  BY <1>6 DEF PayingRent
<1>7. ASSUME NEW q \in Requests, NEW r \in RentIds,
             NEW u \in Users, PayRent(q, r, u)
     PROVE  TypeOK'
  BY <1>7 DEF PayRent
<1>8. ASSUME NEW q \in Requests, NEW r \in RentIds,
             NEW u \in Users, CancelRent(q, r, u)
     PROVE  TypeOK'
  BY <1>8 DEF CancelRent
<1>9. ASSUME NEW q \in Requests, NEW r \in RentIds,
             NEW u \in Users, CancelRentPayment(q, r, u)
     PROVE  TypeOK'
  BY <1>9 DEF CancelRentPayment
<1>10. ASSUME NEW q \in Requests, RequestPaid(q) PROVE TypeOK'
  BY <1>10 DEF RequestPaid
<1>11. ASSUME NEW q \in Requests, RequestOpen(q) PROVE TypeOK'
  BY <1>11 DEF RequestOpen
<1>12. ASSUME NEW q \in Requests, RequestCreate(q) PROVE TypeOK'
  BY <1>12 DEF RequestCreate
<1>13. ASSUME NEW q \in Requests, ApproveCheck(q) PROVE TypeOK'
  BY <1>13 DEF ApproveCheck
<1>14. ASSUME NEW q \in Requests, ApproveWrite(q) PROVE TypeOK'
  BY <1>14 DEF ApproveWrite
<1>15. ASSUME NEW q \in Requests, RejectWrite(q) PROVE TypeOK'
  BY <1>15 DEF RejectWrite
<1>16. ASSUME NEW q \in Requests, PayingCheck(q) PROVE TypeOK'
  BY <1>16 DEF PayingCheck
<1>17. ASSUME NEW q \in Requests, PayingWrite(q) PROVE TypeOK'
  BY <1>17 DEF PayingWrite
<1>18. ASSUME NEW q \in Requests, PayRecord(q) PROVE TypeOK'
  BY <1>18 DEF PayRecord
<1>19. ASSUME NEW q \in Requests, PaySettle(q) PROVE TypeOK'
  BY <1>19 DEF PaySettle
<1>20. ASSUME NEW q \in Requests, CancelWrite(q) PROVE TypeOK'
  BY <1>20 DEF CancelWrite
<1>21. ASSUME NEW q \in Requests, CancelPaymentWrite(q) PROVE TypeOK'
  BY <1>21 DEF CancelPaymentWrite
<1>22. ASSUME NEW q \in Requests, RemindDue(q) PROVE TypeOK'
  BY <1>22 DEF RemindDue
<1>23. ASSUME NEW q \in Requests, RemindExpire(q) PROVE TypeOK'
  BY <1>23 DEF RemindExpire
<1>24. ASSUME NEW q \in Requests, Fail(q) PROVE TypeOK'
  BY <1>24 DEF Fail
<1>25. ASSUME NEW p \in Properties, NEW on \in BOOLEAN, UpdateProperty(p, on)
      PROVE  TypeOK'
  BY <1>25 DEF UpdateProperty
<1> QED
  BY <1>1, <1>2, <1>3, <1>4, <1>5, <1>6, <1>7, <1>8, <1>9, <1>10, <1>11, <1>12,
     <1>13, <1>14, <1>15, <1>16, <1>17, <1>18, <1>19, <1>20, <1>21, <1>22,
     <1>23, <1>24, <1>25
     DEF Next, Start, Continue

(* Every step leaves the request knowing what its checks told it. *)
LEMMA CommittedStep == TypeOK /\ Committed /\ [Next]_vars => Committed'
<1> SUFFICES ASSUME TypeOK /\ Committed, [Next]_vars PROVE Committed'
  OBVIOUS
<1> USE DomainAssumption, RentsAssumption
    DEF TypeOK, InFlight, Committed, Begin, Goto, Respond, Write, At, Stored,
        Idle
<1>1. CASE UNCHANGED vars
  BY <1>1 DEF vars
<1>2. ASSUME NEW q \in Requests, NEW r \in RentIds, RequestRent(q, r)
     PROVE  Committed'
  BY <1>2 DEF RequestRent
<1>3. ASSUME NEW q \in Requests, NEW r \in RentIds, RemindRent(q, r)
     PROVE  Committed'
  BY <1>3 DEF RemindRent
<1>4. ASSUME NEW q \in Requests, NEW r \in RentIds,
             NEW u \in Users, ApproveRent(q, r, u)
     PROVE  Committed'
  BY <1>4 DEF ApproveRent
<1>5. ASSUME NEW q \in Requests, NEW r \in RentIds,
             NEW u \in Users, RejectRent(q, r, u)
     PROVE  Committed'
  BY <1>5 DEF RejectRent
<1>6. ASSUME NEW q \in Requests, NEW r \in RentIds,
             NEW u \in Users, PayingRent(q, r, u)
     PROVE  Committed'
  BY <1>6 DEF PayingRent
<1>7. ASSUME NEW q \in Requests, NEW r \in RentIds,
             NEW u \in Users, PayRent(q, r, u)
     PROVE  Committed'
  BY <1>7 DEF PayRent
<1>8. ASSUME NEW q \in Requests, NEW r \in RentIds,
             NEW u \in Users, CancelRent(q, r, u)
     PROVE  Committed'
  BY <1>8 DEF CancelRent
<1>9. ASSUME NEW q \in Requests, NEW r \in RentIds,
             NEW u \in Users, CancelRentPayment(q, r, u)
     PROVE  Committed'
  BY <1>9 DEF CancelRentPayment
<1>10. ASSUME NEW q \in Requests, RequestPaid(q) PROVE Committed'
  BY <1>10 DEF RequestPaid
<1>11. ASSUME NEW q \in Requests, RequestOpen(q) PROVE Committed'
  BY <1>11 DEF RequestOpen
<1>12. ASSUME NEW q \in Requests, RequestCreate(q) PROVE Committed'
  BY <1>12 DEF RequestCreate
<1>13. ASSUME NEW q \in Requests, ApproveCheck(q) PROVE Committed'
  BY <1>13 DEF ApproveCheck
<1>14. ASSUME NEW q \in Requests, ApproveWrite(q) PROVE Committed'
  BY <1>14 DEF ApproveWrite
<1>15. ASSUME NEW q \in Requests, RejectWrite(q) PROVE Committed'
  BY <1>15 DEF RejectWrite
<1>16. ASSUME NEW q \in Requests, PayingCheck(q) PROVE Committed'
  BY <1>16 DEF PayingCheck
<1>17. ASSUME NEW q \in Requests, PayingWrite(q) PROVE Committed'
  BY <1>17 DEF PayingWrite
<1>18. ASSUME NEW q \in Requests, PayRecord(q) PROVE Committed'
  BY <1>18 DEF PayRecord
<1>19. ASSUME NEW q \in Requests, PaySettle(q) PROVE Committed'
  BY <1>19 DEF PaySettle
<1>20. ASSUME NEW q \in Requests, CancelWrite(q) PROVE Committed'
  BY <1>20 DEF CancelWrite
<1>21. ASSUME NEW q \in Requests, CancelPaymentWrite(q) PROVE Committed'
  BY <1>21 DEF CancelPaymentWrite
<1>22. ASSUME NEW q \in Requests, RemindDue(q) PROVE Committed'
  BY <1>22 DEF RemindDue
<1>23. ASSUME NEW q \in Requests, RemindExpire(q) PROVE Committed'
  BY <1>23 DEF RemindExpire
<1>24. ASSUME NEW q \in Requests, Fail(q) PROVE Committed'
  BY <1>24 DEF Fail
<1>25. ASSUME NEW p \in Properties, NEW on \in BOOLEAN, UpdateProperty(p, on)
      PROVE  Committed'
  BY <1>25 DEF UpdateProperty
<1> QED
  BY <1>1, <1>2, <1>3, <1>4, <1>5, <1>6, <1>7, <1>8, <1>9, <1>10, <1>11, <1>12,
     <1>13, <1>14, <1>15, <1>16, <1>17, <1>18, <1>19, <1>20, <1>21, <1>22,
     <1>23, <1>24, <1>25
     DEF Next, Start, Continue

(* A grant is only ever replaced by the grant of the same owner. *)
LEMMA GrantedStep == TypeOK /\ Committed /\ Granted /\ [Next]_vars => Granted'
<1> SUFFICES ASSUME TypeOK /\ Committed /\ Granted, [Next]_vars PROVE Granted'
  OBVIOUS
<1> USE DomainAssumption, RentsAssumption
    DEF TypeOK, InFlight, Committed, Granted, GrantedState, Begin, Goto,
        Respond, Write, At, Stored, Idle
<1>1. CASE UNCHANGED vars
  BY <1>1 DEF vars
<1>2. ASSUME NEW q \in Requests, NEW r \in RentIds, RequestRent(q, r)
     PROVE  Granted'
  BY <1>2 DEF RequestRent
<1>3. ASSUME NEW q \in Requests, NEW r \in RentIds, RemindRent(q, r)
     PROVE  Granted'
  BY <1>3 DEF RemindRent
<1>4. ASSUME NEW q \in Requests, NEW r \in RentIds,
             NEW u \in Users, ApproveRent(q, r, u)
     PROVE  Granted'
  BY <1>4 DEF ApproveRent
<1>5. ASSUME NEW q \in Requests, NEW r \in RentIds,
             NEW u \in Users, RejectRent(q, r, u)
     PROVE  Granted'
  BY <1>5 DEF RejectRent
<1>6. ASSUME NEW q \in Requests, NEW r \in RentIds,
             NEW u \in Users, PayingRent(q, r, u)
     PROVE  Granted'
  BY <1>6 DEF PayingRent
<1>7. ASSUME NEW q \in Requests, NEW r \in RentIds,
             NEW u \in Users, PayRent(q, r, u)
     PROVE  Granted'
  BY <1>7 DEF PayRent
<1>8. ASSUME NEW q \in Requests, NEW r \in RentIds,
             NEW u \in Users, CancelRent(q, r, u)
     PROVE  Granted'
  BY <1>8 DEF CancelRent
<1>9. ASSUME NEW q \in Requests, NEW r \in RentIds,
             NEW u \in Users, CancelRentPayment(q, r, u)
     PROVE  Granted'
  BY <1>9 DEF CancelRentPayment
<1>10. ASSUME NEW q \in Requests, RequestPaid(q) PROVE Granted'
  BY <1>10 DEF RequestPaid
<1>11. ASSUME NEW q \in Requests, RequestOpen(q) PROVE Granted'
  BY <1>11 DEF RequestOpen
<1>12. ASSUME NEW q \in Requests, RequestCreate(q) PROVE Granted'
  BY <1>12 DEF RequestCreate
<1>13. ASSUME NEW q \in Requests, ApproveCheck(q) PROVE Granted'
  BY <1>13 DEF ApproveCheck
<1>14. ASSUME NEW q \in Requests, ApproveWrite(q) PROVE Granted'
  BY <1>14 DEF ApproveWrite
<1>15. ASSUME NEW q \in Requests, RejectWrite(q) PROVE Granted'
  BY <1>15 DEF RejectWrite
<1>16. ASSUME NEW q \in Requests, PayingCheck(q) PROVE Granted'
  BY <1>16 DEF PayingCheck
<1>17. ASSUME NEW q \in Requests, PayingWrite(q) PROVE Granted'
  BY <1>17 DEF PayingWrite
<1>18. ASSUME NEW q \in Requests, PayRecord(q) PROVE Granted'
  BY <1>18 DEF PayRecord
<1>19. ASSUME NEW q \in Requests, PaySettle(q) PROVE Granted'
  BY <1>19 DEF PaySettle
<1>20. ASSUME NEW q \in Requests, CancelWrite(q) PROVE Granted'
  BY <1>20 DEF CancelWrite
<1>21. ASSUME NEW q \in Requests, CancelPaymentWrite(q) PROVE Granted'
  BY <1>21 DEF CancelPaymentWrite
<1>22. ASSUME NEW q \in Requests, RemindDue(q) PROVE Granted'
  BY <1>22 DEF RemindDue
<1>23. ASSUME NEW q \in Requests, RemindExpire(q) PROVE Granted'
  BY <1>23 DEF RemindExpire
<1>24. ASSUME NEW q \in Requests, Fail(q) PROVE Granted'
  BY <1>24 DEF Fail
<1>25. ASSUME NEW p \in Properties, NEW on \in BOOLEAN, UpdateProperty(p, on)
      PROVE  Granted'
  BY <1>25 DEF UpdateProperty
<1> QED
  BY <1>1, <1>2, <1>3, <1>4, <1>5, <1>6, <1>7, <1>8, <1>9, <1>10, <1>11, <1>12,
     <1>13, <1>14, <1>15, <1>16, <1>17, <1>18, <1>19, <1>20, <1>21, <1>22,
     <1>23, <1>24, <1>25
     DEF Next, Start, Continue

(* The transaction is stored before the status and never removed. *)
LEMMA PaidStep == TypeOK /\ Paid /\ [Next]_vars => Paid'
<1> SUFFICES ASSUME TypeOK /\ Paid, [Next]_vars PROVE Paid'
  OBVIOUS
<1> USE DomainAssumption, RentsAssumption
    DEF TypeOK, InFlight, Paid, Begin, Goto, Respond, Write, At, Stored, Idle
<1>1. CASE UNCHANGED vars
  BY <1>1 DEF vars
<1>2. ASSUME NEW q \in Requests, NEW r \in RentIds, RequestRent(q, r)
     PROVE  Paid'
  BY <1>2 DEF RequestRent
<1>3. ASSUME NEW q \in Requests, NEW r \in RentIds, RemindRent(q, r)
     PROVE  Paid'
  BY <1>3 DEF RemindRent
<1>4. ASSUME NEW q \in Requests, NEW r \in RentIds,
             NEW u \in Users, ApproveRent(q, r, u)
     PROVE  Paid'
  BY <1>4 DEF ApproveRent
<1>5. ASSUME NEW q \in Requests, NEW r \in RentIds,
             NEW u \in Users, RejectRent(q, r, u)
     PROVE  Paid'
  BY <1>5 DEF RejectRent
<1>6. ASSUME NEW q \in Requests, NEW r \in RentIds,
             NEW u \in Users, PayingRent(q, r, u)
     PROVE  Paid'
  BY <1>6 DEF PayingRent
<1>7. ASSUME NEW q \in Requests, NEW r \in RentIds,
             NEW u \in Users, PayRent(q, r, u)
     PROVE  Paid'
  BY <1>7 DEF PayRent
<1>8. ASSUME NEW q \in Requests, NEW r \in RentIds,
             NEW u \in Users, CancelRent(q, r, u)
     PROVE  Paid'
  BY <1>8 DEF CancelRent
<1>9. ASSUME NEW q \in Requests, NEW r \in RentIds,
             NEW u \in Users, CancelRentPayment(q, r, u)
     PROVE  Paid'
  BY <1>9 DEF CancelRentPayment
<1>10. ASSUME NEW q \in Requests, RequestPaid(q) PROVE Paid'
  BY <1>10 DEF RequestPaid
<1>11. ASSUME NEW q \in Requests, RequestOpen(q) PROVE Paid'
  BY <1>11 DEF RequestOpen
<1>12. ASSUME NEW q \in Requests, RequestCreate(q) PROVE Paid'
  BY <1>12 DEF RequestCreate
<1>13. ASSUME NEW q \in Requests, ApproveCheck(q) PROVE Paid'
  BY <1>13 DEF ApproveCheck
<1>14. ASSUME NEW q \in Requests, ApproveWrite(q) PROVE Paid'
  BY <1>14 DEF ApproveWrite
<1>15. ASSUME NEW q \in Requests, RejectWrite(q) PROVE Paid'
  BY <1>15 DEF RejectWrite
<1>16. ASSUME NEW q \in Requests, PayingCheck(q) PROVE Paid'
  BY <1>16 DEF PayingCheck
<1>17. ASSUME NEW q \in Requests, PayingWrite(q) PROVE Paid'
  BY <1>17 DEF PayingWrite
<1>18. ASSUME NEW q \in Requests, PayRecord(q) PROVE Paid'
  BY <1>18 DEF PayRecord
<1>19. ASSUME NEW q \in Requests, PaySettle(q) PROVE Paid'
  BY <1>19 DEF PaySettle
<1>20. ASSUME NEW q \in Requests, CancelWrite(q) PROVE Paid'
  BY <1>20 DEF CancelWrite
<1>21. ASSUME NEW q \in Requests, CancelPaymentWrite(q) PROVE Paid'
  BY <1>21 DEF CancelPaymentWrite
<1>22. ASSUME NEW q \in Requests, RemindDue(q) PROVE Paid'
  BY <1>22 DEF RemindDue
<1>23. ASSUME NEW q \in Requests, RemindExpire(q) PROVE Paid'
  BY <1>23 DEF RemindExpire
<1>24. ASSUME NEW q \in Requests, Fail(q) PROVE Paid'
  BY <1>24 DEF Fail
<1>25. ASSUME NEW p \in Properties, NEW on \in BOOLEAN, UpdateProperty(p, on)
      PROVE  Paid'
  BY <1>25 DEF UpdateProperty
<1> QED
  BY <1>1, <1>2, <1>3, <1>4, <1>5, <1>6, <1>7, <1>8, <1>9, <1>10, <1>11, <1>12,
     <1>13, <1>14, <1>15, <1>16, <1>17, <1>18, <1>19, <1>20, <1>21, <1>22,
     <1>23, <1>24, <1>25
     DEF Next, Start, Continue

(* A write is made at the last step of a request, by when its checks have   *)
(* been made on the status it saw.                                         *)
LEMMA WriteStep ==
  TypeOK /\ Committed /\ [Next]_vars => [WriteFollowsRead]_vars
<1> SUFFICES ASSUME TypeOK, Committed, Next PROVE WriteFollowsRead
  BY DEF vars, WriteFollowsRead
<1> USE DomainAssumption, RentsAssumption
    DEF TypeOK, InFlight, Committed, WriteFollowsRead, Edge, Write, At, Stored,
        Idle
<1>1. ASSUME NEW q \in Requests, Start(q) PROVE WriteFollowsRead
  BY <1>1 DEF Start, RequestRent, RemindRent, ApproveRent, RejectRent,
              PayingRent, PayRent, CancelRent, CancelRentPayment
<1>2. ASSUME NEW q \in Requests,
             \/ RequestPaid(q) \/ RequestOpen(q)
             \/ ApproveCheck(q) \/ PayingCheck(q)
             \/ PayRecord(q) \/ RemindDue(q)
      PROVE  WriteFollowsRead
  BY <1>2 DEF RequestPaid, RequestOpen, ApproveCheck, PayingCheck,
              PayRecord, RemindDue
<1>3. ASSUME NEW q \in Requests, RequestCreate(q) PROVE WriteFollowsRead
  BY <1>3 DEF RequestCreate
<1>4. ASSUME NEW q \in Requests, ApproveWrite(q) PROVE WriteFollowsRead
  BY <1>4 DEF ApproveWrite
<1>5. ASSUME NEW q \in Requests, RejectWrite(q) PROVE WriteFollowsRead
  BY <1>5 DEF RejectWrite
<1>6. ASSUME NEW q \in Requests, PayingWrite(q) PROVE WriteFollowsRead
  BY <1>6 DEF PayingWrite
<1>7. ASSUME NEW q \in Requests, PaySettle(q) PROVE WriteFollowsRead
  BY <1>7 DEF PaySettle
<1>8. ASSUME NEW q \in Requests, CancelWrite(q) PROVE WriteFollowsRead
  BY <1>8 DEF CancelWrite
<1>9. ASSUME NEW q \in Requests, CancelPaymentWrite(q) PROVE WriteFollowsRead
  BY <1>9 DEF CancelPaymentWrite
<1>10. ASSUME NEW q \in Requests, RemindExpire(q) PROVE WriteFollowsRead
  BY <1>10 DEF RemindExpire
<1>11. ASSUME NEW q \in Requests, Fail(q) PROVE WriteFollowsRead
  BY <1>11 DEF Fail
<1>12. ASSUME NEW p \in Properties, NEW on \in BOOLEAN, UpdateProperty(p, on)
      PROVE  WriteFollowsRead
  BY <1>12 DEF UpdateProperty
<1> QED
  BY <1>1, <1>2, <1>3, <1>4, <1>5, <1>6, <1>7, <1>8, <1>9, <1>10, <1>11, <1>12
     DEF Next, Continue

LEMMA InitIInv == Init => IInv
  BY DomainAssumption, RentsAssumption
     DEF Init, IInv, TypeOK, Committed, Granted, GrantedState, Paid, Idle, At

-----------------------------------------------------------------------------
(* The requests, the stored rents and the history keep their types.        *)
THEOREM TypeCorrect == Spec => []TypeOK
<1>1. Init => TypeOK
  BY InitIInv DEF IInv
<1> QED
  BY <1>1, TypeStep, PTL DEF Spec

THEOREM InductiveInvariant == Spec => []IInv
<1>1. IInv /\ [Next]_vars => IInv'
  BY TypeStep, CommittedStep, GrantedStep, PaidStep DEF IInv
<1> QED
  BY <1>1, InitIInv, PTL DEF Spec

(* However requests interleave and fail, nobody pays for, rents or has     *)
(* rented a property whose owner did not approve it                        *)
(* (rents.service.ts:95-115, 138-189, 210-227).                            *)
THEOREM PaymentsAreGranted == Spec => []PaidWasGranted
<1>1. IInv => PaidWasGranted
  BY DEF IInv, Granted, GrantedState, PaidWasGranted
<1> QED
  BY <1>1, InductiveInvariant, PTL

(* However requests interleave and fail, a rented property has a           *)
(* transaction for remindRent to find (rents.service.ts:185-186, 243).     *)
THEOREM ReceiptsPrecedeTenancies == Spec => []ReceiptBeforePaid
<1>1. IInv => ReceiptBeforePaid
  BY DEF IInv, Paid, ReceiptBeforePaid
<1> QED
  BY <1>1, InductiveInvariant, PTL

(* Every write of a status follows an allowed move from a status that was  *)
(* read by the same request (rents.service.ts:95-227).                     *)
THEOREM WritesAreReadBased == Spec => WritesFollowReads
<1>1. IInv /\ [Next]_vars => [WriteFollowsRead]_vars
  BY WriteStep DEF IInv
<1> QED
  BY <1>1, InductiveInvariant, PTL DEF Spec, WritesFollowReads

-----------------------------------------------------------------------------
(* How far races can take the rents of a property beyond "one payment at a *)
(* time" and "one open request of an occupant": to the number of requests  *)
(* handled at once and no further, for any number of rents.                *)
(*                                                                         *)
(* The overlap (rents in the state, plus requests about to put one in it)  *)
(* cannot exceed the number of slots: it is reset when a check finds no    *)
(* rent in the state, a write only moves one from the second term to the   *)
(* first, and nothing else adds to either.                                 *)

(* The requests that will move a rent of p to PAYING. *)
Payers(p) ==
  {q \in Requests : At(q, "paying.write") /\ PropertyOf[req[q].rent] = p}

(* The requests of u that will open a request on p. *)
Openers(p, u) ==
  {q \in Requests :
     At(q, "request.create") /\ PropertyOf[req[q].rent] = p /\ req[q].user = u}

Fits(S, W) == Cardinality(S) + Cardinality(W) <= Cardinality(Requests)

PaymentsFit == \A p \in Properties : Fits(PayingOf(p), Payers(p))

OpeningsFit ==
  \A p \in Properties, u \in Users : Fits(OpenRequestsOf(p, u), Openers(p, u))

-----------------------------------------------------------------------------
(* Neither term grows. *)
LEMMA FitsShrink ==
  ASSUME NEW S, NEW W, IsFiniteSet(S), IsFiniteSet(W), Fits(S, W),
         NEW S2 \in SUBSET S, NEW W2 \in SUBSET W
  PROVE  Fits(S2, W2)
<1>1. Cardinality(S2) <= Cardinality(S) /\ Cardinality(W2) <= Cardinality(W)
  BY FS_Subset
<1>2. /\ Cardinality(S) \in Nat /\ Cardinality(W) \in Nat
      /\ Cardinality(S2) \in Nat /\ Cardinality(W2) \in Nat
      /\ Cardinality(Requests) \in Nat
  BY FS_Subset, FS_CardinalityType, RentsAssumption
<1> QED
  BY <1>1, <1>2 DEF Fits

(* One element leaves the second term, at most one joins the first. *)
LEMMA FitsMove ==
  ASSUME NEW S, NEW W, IsFiniteSet(S), IsFiniteSet(W), Fits(S, W),
         NEW x, NEW y \in W,
         NEW S2 \in SUBSET (S \cup {x}), NEW W2 \in SUBSET (W \ {y})
  PROVE  Fits(S2, W2)
<1>1. /\ IsFiniteSet(S \cup {x}) /\ IsFiniteSet(W \ {y})
      /\ Cardinality(S \cup {x}) <= Cardinality(S) + 1
      /\ Cardinality(W \ {y}) = Cardinality(W) - 1
  <2>1. IsFiniteSet(W \ {y}) /\ Cardinality(W \ {y}) = Cardinality(W) - 1
    BY FS_RemoveElement
  <2>2. /\ IsFiniteSet(S \cup {x})
        /\ \/ Cardinality(S \cup {x}) = Cardinality(S)
           \/ Cardinality(S \cup {x}) = Cardinality(S) + 1
    BY FS_AddElement
  <2>3. Cardinality(S) \in Nat
    BY FS_CardinalityType
  <2> QED
    BY <2>1, <2>2, <2>3
<1>2. /\ Cardinality(S2) <= Cardinality(S \cup {x})
      /\ Cardinality(W2) <= Cardinality(W \ {y})
  BY <1>1, FS_Subset
<1>3. /\ Cardinality(S) \in Nat /\ Cardinality(W) \in Nat
      /\ Cardinality(S2) \in Nat /\ Cardinality(W2) \in Nat
      /\ Cardinality(S \cup {x}) \in Nat /\ Cardinality(W \ {y}) \in Nat
      /\ Cardinality(Requests) \in Nat
  BY <1>1, FS_Subset, FS_CardinalityType, RentsAssumption
<1> QED
  BY <1>1, <1>2, <1>3 DEF Fits

(* The first term is empty. *)
LEMMA FitsAfresh ==
  ASSUME NEW W \in SUBSET Requests
  PROVE  Fits({}, W)
<1>1. Cardinality(W) <= Cardinality(Requests)
  BY FS_Subset, RentsAssumption
<1>2. /\ Cardinality(W) \in Nat /\ Cardinality(Requests) \in Nat
      /\ Cardinality({}) = 0
  BY FS_Subset, FS_EmptySet, FS_CardinalityType, RentsAssumption
<1> QED
  BY <1>1, <1>2 DEF Fits

(* The sets that are counted are finite. *)
LEMMA OverlapFinite ==
  ASSUME NEW p, NEW u
  PROVE  /\ IsFiniteSet(PayingOf(p)) /\ IsFiniteSet(Payers(p))
         /\ IsFiniteSet(OpenRequestsOf(p, u)) /\ IsFiniteSet(Openers(p, u))
<1>1. /\ PayingOf(p) \in SUBSET RentIds
      /\ OpenRequestsOf(p, u) \in SUBSET RentIds
      /\ Payers(p) \in SUBSET Requests
      /\ Openers(p, u) \in SUBSET Requests
  BY DEF PayingOf, OpenRequestsOf, RentsOf, Payers, Openers
<1> QED
  BY <1>1, FS_Subset, DomainAssumption, RentsAssumption

-----------------------------------------------------------------------------
(* Only payingRent moves a rent to PAYING, and its check finds none there. *)
LEMMA PaymentsFitStep ==
  TypeOK /\ Committed /\ PaymentsFit /\ [Next]_vars => PaymentsFit'
<1> SUFFICES ASSUME TypeOK, Committed, PaymentsFit, [Next]_vars,
                    NEW p \in Properties
             PROVE  Fits(PayingOf(p)', Payers(p)')
  BY DEF PaymentsFit
<1> DEFINE Shrinks ==
      /\ PayingOf(p)' \in SUBSET PayingOf(p)
      /\ Payers(p)' \in SUBSET Payers(p)
<1> USE DomainAssumption, RentsAssumption
<1>1. Fits(PayingOf(p), Payers(p))
  BY DEF PaymentsFit
<1>2. ASSUME Shrinks PROVE Fits(PayingOf(p)', Payers(p)')
  BY <1>1, <1>2, FitsShrink, OverlapFinite
<1>3. CASE UNCHANGED vars
  <2>1. Shrinks
    BY <1>3 DEF vars, PayingOf, Payers, RentsOf, At
  <2> QED
    BY <2>1, <1>2
<1>4. ASSUME NEW q \in Requests, Start(q) \/ Fail(q)
      PROVE  Fits(PayingOf(p)', Payers(p)')
  <2>1. Shrinks
    BY <1>4 DEF Start, RequestRent, RemindRent, ApproveRent, RejectRent,
                PayingRent, PayRent, CancelRent, CancelRentPayment, Fail,
                Begin, Respond, Stored, Idle, TypeOK, InFlight,
                PayingOf, Payers, RentsOf, At
  <2> QED
    BY <2>1, <1>2
<1>5. ASSUME NEW q \in Requests,
             \/ RequestPaid(q) \/ RequestOpen(q) \/ RequestCreate(q)
             \/ ApproveCheck(q) \/ ApproveWrite(q) \/ RejectWrite(q)
             \/ PayRecord(q) \/ PaySettle(q) \/ CancelWrite(q)
             \/ CancelPaymentWrite(q) \/ RemindDue(q) \/ RemindExpire(q)
      PROVE  Fits(PayingOf(p)', Payers(p)')
  <2>1. Shrinks
    BY <1>5 DEF RequestPaid, RequestOpen, RequestCreate, ApproveCheck,
                ApproveWrite, RejectWrite, PayRecord, PaySettle,
                CancelWrite, CancelPaymentWrite, RemindDue, RemindExpire,
                Goto, Respond, Write, Stored, Idle, TypeOK, InFlight,
                PayingOf, Payers, RentsOf, At
  <2> QED
    BY <2>1, <1>2
<1>6. ASSUME NEW q \in Requests, PayingCheck(q)
      PROVE  Fits(PayingOf(p)', Payers(p)')
  <2>1. CASE Shrinks
    BY <2>1, <1>2
  <2>2. CASE ~Shrinks
    <3>1. PayingOf(p)' = {}
      BY <1>6, <2>2 DEF PayingCheck, Exists, Goto, Respond, Stored, Idle,
                        TypeOK, InFlight, PayingOf, Payers, RentsOf, At
    <3>2. Payers(p)' \in SUBSET Requests
      BY DEF Payers
    <3> QED
      BY <3>1, <3>2, FitsAfresh
  <2> QED
    BY <2>1, <2>2
<1>7. ASSUME NEW q \in Requests, PayingWrite(q)
      PROVE  Fits(PayingOf(p)', Payers(p)')
  <2>1. CASE Shrinks
    BY <2>1, <1>2
  <2>2. CASE ~Shrinks
    <3>1. /\ q \in Payers(p)
          /\ Payers(p)' \in SUBSET (Payers(p) \ {q})
          /\ PayingOf(p)' \in SUBSET (PayingOf(p) \cup {req[q].rent})
      BY <1>7, <2>2 DEF PayingWrite, Respond, Write, Idle, TypeOK, InFlight,
                        Committed, PayingOf, Payers, RentsOf, At
    <3> QED
      BY <3>1, <1>1, FitsMove, OverlapFinite
  <2> QED
    BY <2>1, <2>2
<1>8. ASSUME NEW h \in Properties, NEW on \in BOOLEAN, UpdateProperty(h, on)
      PROVE  Fits(PayingOf(p)', Payers(p)')
  <2>1. Shrinks
    BY <1>8 DEF UpdateProperty, PayingOf, Payers, RentsOf, At
  <2> QED
    BY <2>1, <1>2
<1> QED
  BY <1>3, <1>4, <1>5, <1>6, <1>7, <1>8 DEF Next, Continue

(* Only requestRent opens a request, and its check finds none of the user. *)
LEMMA OpeningsFitStep ==
  TypeOK /\ Committed /\ OpeningsFit /\ [Next]_vars => OpeningsFit'
<1> SUFFICES ASSUME TypeOK, Committed, OpeningsFit, [Next]_vars,
                    NEW p \in Properties, NEW u \in Users
             PROVE  Fits(OpenRequestsOf(p, u)', Openers(p, u)')
  BY DEF OpeningsFit
<1> DEFINE Shrinks ==
      /\ OpenRequestsOf(p, u)' \in SUBSET OpenRequestsOf(p, u)
      /\ Openers(p, u)' \in SUBSET Openers(p, u)
<1> USE DomainAssumption, RentsAssumption
<1>1. Fits(OpenRequestsOf(p, u), Openers(p, u))
  BY DEF OpeningsFit
<1>2. ASSUME Shrinks PROVE Fits(OpenRequestsOf(p, u)', Openers(p, u)')
  BY <1>1, <1>2, FitsShrink, OverlapFinite
<1>3. CASE UNCHANGED vars
  <2>1. Shrinks
    BY <1>3 DEF vars, OpenRequestsOf, Openers, RentsOf, At
  <2> QED
    BY <2>1, <1>2
<1>4. ASSUME NEW q \in Requests, Start(q) \/ Fail(q)
      PROVE  Fits(OpenRequestsOf(p, u)', Openers(p, u)')
  <2>1. Shrinks
    BY <1>4 DEF Start, RequestRent, RemindRent, ApproveRent, RejectRent,
                PayingRent, PayRent, CancelRent, CancelRentPayment, Fail,
                Begin, Respond, Stored, Idle, TypeOK, InFlight,
                OpenRequestsOf, Openers, RentsOf, At
  <2> QED
    BY <2>1, <1>2
<1>5. ASSUME NEW q \in Requests,
             \/ RequestPaid(q) \/ ApproveCheck(q) \/ ApproveWrite(q)
             \/ RejectWrite(q) \/ PayingCheck(q) \/ PayingWrite(q)
             \/ PayRecord(q) \/ PaySettle(q) \/ CancelWrite(q)
             \/ CancelPaymentWrite(q) \/ RemindDue(q) \/ RemindExpire(q)
      PROVE  Fits(OpenRequestsOf(p, u)', Openers(p, u)')
  <2>1. Shrinks
    BY <1>5 DEF RequestPaid, ApproveCheck, ApproveWrite, RejectWrite,
                PayingCheck, PayingWrite, PayRecord, PaySettle,
                CancelWrite, CancelPaymentWrite, RemindDue, RemindExpire,
                Goto, Respond, Write, Stored, Idle, TypeOK, InFlight,
                OpenRequestsOf, Openers, RentsOf, At
  <2> QED
    BY <2>1, <1>2
<1>6. ASSUME NEW q \in Requests, RequestOpen(q)
      PROVE  Fits(OpenRequestsOf(p, u)', Openers(p, u)')
  <2>1. CASE Shrinks
    BY <2>1, <1>2
  <2>2. CASE ~Shrinks
    <3>1. OpenRequestsOf(p, u)' = {}
      BY <1>6, <2>2
     DEF RequestOpen, HasOpenRequest, Goto, Respond, Stored, Idle,
                        TypeOK, InFlight, OpenRequestsOf, Openers, RentsOf, At
    <3>2. Openers(p, u)' \in SUBSET Requests
      BY DEF Openers
    <3> QED
      BY <3>1, <3>2, FitsAfresh
  <2> QED
    BY <2>1, <2>2
<1>7. ASSUME NEW q \in Requests, RequestCreate(q)
      PROVE  Fits(OpenRequestsOf(p, u)', Openers(p, u)')
  <2>1. CASE Shrinks
    BY <2>1, <1>2
  <2>2. CASE ~Shrinks
    <3>1. /\ q \in Openers(p, u)
          /\ Openers(p, u)' \in SUBSET (Openers(p, u) \ {q})
          /\ OpenRequestsOf(p, u)' \in
               SUBSET (OpenRequestsOf(p, u) \cup {req[q].rent})
      BY <1>7, <2>2 DEF RequestCreate, Respond, Write, Idle, TypeOK, InFlight,
                        Committed, OpenRequestsOf, Openers, RentsOf, At
    <3> QED
      BY <3>1, <1>1, FitsMove, OverlapFinite
  <2> QED
    BY <2>1, <2>2
<1>8. ASSUME NEW h \in Properties, NEW on \in BOOLEAN, UpdateProperty(h, on)
      PROVE  Fits(OpenRequestsOf(p, u)', Openers(p, u)')
  <2>1. Shrinks
    BY <1>8 DEF UpdateProperty, OpenRequestsOf, Openers, RentsOf, At
  <2> QED
    BY <2>1, <1>2
<1> QED
  BY <1>3, <1>4, <1>5, <1>6, <1>7, <1>8 DEF Next, Continue

LEMMA PaymentsFitInit == Init => PaymentsFit
<1> SUFFICES ASSUME Init, NEW p \in Properties
             PROVE  Fits(PayingOf(p), Payers(p))
  BY DEF PaymentsFit
<1>1. PayingOf(p) = {} /\ Payers(p) \in SUBSET Requests
  BY DEF Init, PayingOf, RentsOf, Payers
<1> QED
  BY <1>1, FitsAfresh

LEMMA OpeningsFitInit == Init => OpeningsFit
<1> SUFFICES ASSUME Init, NEW p \in Properties, NEW u \in Users
             PROVE  Fits(OpenRequestsOf(p, u), Openers(p, u))
  BY DEF OpeningsFit
<1>1. OpenRequestsOf(p, u) = {} /\ Openers(p, u) \in SUBSET Requests
  BY DEF Init, OpenRequestsOf, RentsOf, Openers
<1> QED
  BY <1>1, FitsAfresh

(* The first term alone is within the bound too. *)
LEMMA FitsBounds ==
  ASSUME NEW S, NEW W, IsFiniteSet(S), IsFiniteSet(W), Fits(S, W)
  PROVE  Cardinality(S) <= Cardinality(Requests)
  BY FS_CardinalityType, RentsAssumption DEF Fits

-----------------------------------------------------------------------------
(* Payments under way on one property never outnumber the requests handled *)
(* at one time (rents.service.ts:138-161).                                 *)
THEOREM PaymentOverlap == Spec => []PaymentOverlapBounded
<1>1. IInv /\ PaymentsFit /\ [Next]_vars => PaymentsFit'
  BY PaymentsFitStep DEF IInv
<1>2. PaymentsFit => PaymentOverlapBounded
  BY FitsBounds, OverlapFinite DEF PaymentsFit, PaymentOverlapBounded
<1> QED
  BY <1>1, <1>2, PaymentsFitInit, InductiveInvariant, PTL DEF Spec

(* Open requests of an occupant on a property never outnumber the requests *)
(* handled at one time (rents.service.ts:36-55).                           *)
THEOREM OpenRequestOverlap == Spec => []OpenRequestsBounded
<1>1. IInv /\ OpeningsFit /\ [Next]_vars => OpeningsFit'
  BY OpeningsFitStep DEF IInv
<1>2. OpeningsFit => OpenRequestsBounded
  BY FitsBounds, OverlapFinite DEF OpeningsFit, OpenRequestsBounded
<1> QED
  BY <1>1, <1>2, OpeningsFitInit, InductiveInvariant, PTL DEF Spec
=============================================================================
