------------------------ MODULE RentsSerial_proofs ------------------------
(***************************************************************************)
(* With one request at a time on each property the handlers of Rents       *)
(* implement RentLifecycle, for any number of users, properties, rents and *)
(* slots: every handler takes effect at its write, and its checks, made at *)
(* earlier steps, still hold there (Current).                              *)
(***************************************************************************)
EXTENDS Rents_proofs

(* What a request read is still so. *)
Current ==
  \A q \in Requests :
    LET r == req[q].rent
        p == PropertyOf[r]
    IN  /\ ~At(q, "idle") => req[q].seen = status[r]
        /\ req[q].at \in {"request.paid", "request.open", "request.create"}
             => active[p]
        /\ req[q].at \in {"request.open", "request.create"}
             => ~Exists(q, "PAID")
        /\ At(q, "request.create") => ~HasOpenRequest(q)
        /\ req[q].at \in {"approve.write", "paying.write"}
             => ~Exists(q, "PAYING")

SInv == TypeOK /\ Committed /\ Serialised /\ Current

(* Requests take turns. *)
LEMMA SerialisedStep ==
  TypeOK /\ Serialised /\ [SerialNext]_vars => Serialised'
  BY DEF SerialNext, Serialised, UpdateProperty, vars, At

(* A step on one property leaves what is known of another as it is, and on *)
(* its own property there is nobody else to tell.                          *)
LEMMA CurrentStep == SInv /\ [SerialNext]_vars => Current'
<1> SUFFICES ASSUME SInv, [SerialNext]_vars PROVE Current'
  OBVIOUS
<1> USE DomainAssumption, RentsAssumption
    DEF SInv, TypeOK, InFlight, Current, Exists, HasOpenRequest, RentsOf,
        Begin, Goto, Respond, Write, At, Stored, Idle
<1>1. CASE UNCHANGED vars
  BY <1>1 DEF vars
<1>2. ASSUME NEW q \in Requests, NEW r \in RentIds,
             RequestRent(q, r), Serialised'
     PROVE  Current'
  BY <1>2 DEF RequestRent, Serialised
<1>3. ASSUME NEW q \in Requests, NEW r \in RentIds,
             RemindRent(q, r), Serialised'
     PROVE  Current'
  BY <1>3 DEF RemindRent, Serialised
<1>4. ASSUME NEW q \in Requests, NEW r \in RentIds,
             NEW u \in Users, ApproveRent(q, r, u), Serialised'
     PROVE  Current'
  BY <1>4 DEF ApproveRent, Serialised
<1>5. ASSUME NEW q \in Requests, NEW r \in RentIds,
             NEW u \in Users, RejectRent(q, r, u), Serialised'
     PROVE  Current'
  BY <1>5 DEF RejectRent, Serialised
<1>6. ASSUME NEW q \in Requests, NEW r \in RentIds,
             NEW u \in Users, PayingRent(q, r, u), Serialised'
     PROVE  Current'
  BY <1>6 DEF PayingRent, Serialised
<1>7. ASSUME NEW q \in Requests, NEW r \in RentIds,
             NEW u \in Users, PayRent(q, r, u), Serialised'
     PROVE  Current'
  BY <1>7 DEF PayRent, Serialised
<1>8. ASSUME NEW q \in Requests, NEW r \in RentIds,
             NEW u \in Users, CancelRent(q, r, u), Serialised'
     PROVE  Current'
  BY <1>8 DEF CancelRent, Serialised
<1>9. ASSUME NEW q \in Requests, NEW r \in RentIds,
             NEW u \in Users, CancelRentPayment(q, r, u), Serialised'
     PROVE  Current'
  BY <1>9 DEF CancelRentPayment, Serialised
<1>10. ASSUME NEW q \in Requests, RequestPaid(q) PROVE Current'
  BY <1>10 DEF RequestPaid, Serialised
<1>11. ASSUME NEW q \in Requests, RequestOpen(q) PROVE Current'
  BY <1>11 DEF RequestOpen, Serialised
<1>12. ASSUME NEW q \in Requests, RequestCreate(q) PROVE Current'
  BY <1>12 DEF RequestCreate, Serialised
<1>13. ASSUME NEW q \in Requests, ApproveCheck(q) PROVE Current'
  BY <1>13 DEF ApproveCheck, Serialised
<1>14. ASSUME NEW q \in Requests, ApproveWrite(q) PROVE Current'
  BY <1>14 DEF ApproveWrite, Serialised
<1>15. ASSUME NEW q \in Requests, RejectWrite(q) PROVE Current'
  BY <1>15 DEF RejectWrite, Serialised
<1>16. ASSUME NEW q \in Requests, PayingCheck(q) PROVE Current'
  BY <1>16 DEF PayingCheck, Serialised
<1>17. ASSUME NEW q \in Requests, PayingWrite(q) PROVE Current'
  BY <1>17 DEF PayingWrite, Serialised
<1>18. ASSUME NEW q \in Requests, PayRecord(q) PROVE Current'
  BY <1>18 DEF PayRecord, Serialised
<1>19. ASSUME NEW q \in Requests, PaySettle(q) PROVE Current'
  BY <1>19 DEF PaySettle, Serialised
<1>20. ASSUME NEW q \in Requests, CancelWrite(q) PROVE Current'
  BY <1>20 DEF CancelWrite, Serialised
<1>21. ASSUME NEW q \in Requests, CancelPaymentWrite(q) PROVE Current'
  BY <1>21 DEF CancelPaymentWrite, Serialised
<1>22. ASSUME NEW q \in Requests, RemindDue(q) PROVE Current'
  BY <1>22 DEF RemindDue, Serialised
<1>23. ASSUME NEW q \in Requests, RemindExpire(q) PROVE Current'
  BY <1>23 DEF RemindExpire, Serialised
<1>24. ASSUME NEW p \in Properties, NEW on \in BOOLEAN,
             Quiet(p), UpdateProperty(p, on)
      PROVE  Current'
  BY <1>24 DEF Quiet, UpdateProperty
<1> QED
  BY <1>1, <1>2, <1>3, <1>4, <1>5, <1>6, <1>7, <1>8, <1>9, <1>10, <1>11, <1>12,
     <1>13, <1>14, <1>15, <1>16, <1>17, <1>18, <1>19, <1>20, <1>21, <1>22,
     <1>23, <1>24
     DEF SerialNext, Start, Continue

LEMMA SerialIsNext == [SerialNext]_vars => [Next]_vars
  BY DEF SerialNext, Next

LEMMA InitSInv == Init => SInv
  BY InitIInv
     DEF Init, IInv, SInv, Serialised, Current, Idle, At

LEMMA SInvStep == SInv /\ [SerialNext]_vars => SInv'
  BY TypeStep, CommittedStep, SerialisedStep, CurrentStep, SerialIsNext
     DEF SInv

-----------------------------------------------------------------------------
(* The refinement. *)

LEMMA InitRefines == Init => Lifecycle!Init
  BY DEF Init, Lifecycle!Init, Settled, Idle, At

(* A step before the last leaves the three abstract variables alone: a     *)
(* transaction just stored is not settled yet.                             *)
LEMMA QuietSteps ==
  ASSUME SInv, NEW q \in Requests, Serialised',
         \/ Start(q) \/ RequestPaid(q) \/ RequestOpen(q)
         \/ ApproveCheck(q) \/ PayingCheck(q) \/ PayRecord(q) \/ RemindDue(q)
  PROVE  UNCHANGED Lifecycle!vars
<1> USE DomainAssumption, RentsAssumption
    DEF SInv, TypeOK, InFlight, Committed, Serialised, Settled, Begin, Goto,
        Respond, At, Stored, Idle, Lifecycle!vars
<1>1. CASE Start(q)
  BY <1>1 DEF Start, RequestRent, RemindRent, ApproveRent, RejectRent,
              PayingRent, PayRent, CancelRent, CancelRentPayment
<1>2. CASE \/ RequestPaid(q) \/ RequestOpen(q) \/ ApproveCheck(q)
           \/ PayingCheck(q) \/ RemindDue(q)
  BY <1>2 DEF RequestPaid, RequestOpen, ApproveCheck, PayingCheck, RemindDue
<1>3. CASE PayRecord(q)
  <2>1. UNCHANGED <<active, status>>
    BY <1>3 DEF PayRecord
  <2>2. ASSUME NEW r \in RentIds PROVE Settled'[r] = Settled[r]
    BY <1>3, <2>2 DEF PayRecord
  <2>3. Settled' = Settled
    BY <2>2
  <2> QED
    BY <2>1, <2>3
<1> QED
  BY <1>1, <1>2, <1>3

(* The last step of a handler is the abstract handler. *)
LEMMA WritesRefine ==
  SInv /\ [SerialNext]_vars => [Lifecycle!Next]_(Lifecycle!vars)
<1> SUFFICES ASSUME SInv, [SerialNext]_vars
             PROVE  Lifecycle!Next \/ UNCHANGED Lifecycle!vars
  OBVIOUS
<1> USE DomainAssumption, RentsAssumption
    DEF SInv, TypeOK, InFlight, Committed, Serialised, Current, Exists,
        HasOpenRequest, Settled, Respond, Write, At, Stored, Idle, RentsOf,
        Lifecycle!Become, Lifecycle!NoneIn, Lifecycle!RentsOf
<1>1. CASE UNCHANGED vars
  BY <1>1 DEF vars, Lifecycle!vars
<1>2. ASSUME NEW q \in Requests, RequestCreate(q) PROVE Lifecycle!Next
  <2>1. Lifecycle!RequestRent(req[q].rent) /\ req[q].rent \in RentIds
    BY <1>2 DEF RequestCreate, Lifecycle!RequestRent
  <2> QED
    BY <2>1 DEF Lifecycle!Next
<1>3. ASSUME NEW q \in Requests, ApproveWrite(q) PROVE Lifecycle!Next
  <2>1. Lifecycle!ApproveRent(req[q].rent) /\ req[q].rent \in RentIds
    BY <1>3 DEF ApproveWrite, Lifecycle!ApproveRent
  <2> QED
    BY <2>1 DEF Lifecycle!Next
<1>4. ASSUME NEW q \in Requests, RejectWrite(q) PROVE Lifecycle!Next
  <2>1. Lifecycle!RejectRent(req[q].rent) /\ req[q].rent \in RentIds
    BY <1>4 DEF RejectWrite, Lifecycle!RejectRent
  <2> QED
    BY <2>1 DEF Lifecycle!Next
<1>5. ASSUME NEW q \in Requests, PayingWrite(q) PROVE Lifecycle!Next
  <2>1. Lifecycle!PayingRent(req[q].rent) /\ req[q].rent \in RentIds
    BY <1>5 DEF PayingWrite, Lifecycle!PayingRent
  <2> QED
    BY <2>1 DEF Lifecycle!Next
<1>6. ASSUME NEW q \in Requests, CancelWrite(q) PROVE Lifecycle!Next
  <2>1. Lifecycle!CancelRent(req[q].rent) /\ req[q].rent \in RentIds
    BY <1>6 DEF CancelWrite, Lifecycle!CancelRent
  <2> QED
    BY <2>1 DEF Lifecycle!Next
<1>7. ASSUME NEW q \in Requests, CancelPaymentWrite(q) PROVE Lifecycle!Next
  <2>1. Lifecycle!CancelRentPayment(req[q].rent) /\ req[q].rent \in RentIds
    BY <1>7 DEF CancelPaymentWrite, Lifecycle!CancelRentPayment
  <2> QED
    BY <2>1 DEF Lifecycle!Next
<1>8. ASSUME NEW q \in Requests, RemindExpire(q) PROVE Lifecycle!Next
  <2>1. Lifecycle!RemindRent(req[q].rent) /\ req[q].rent \in RentIds
    BY <1>8 DEF RemindExpire, Lifecycle!RemindRent
  <2> QED
    BY <2>1 DEF Lifecycle!Next
<1>9. ASSUME NEW q \in Requests, PaySettle(q) PROVE Lifecycle!Next
  <2>1. req[q].rent \in RentIds /\ status[req[q].rent] = "PAYING"
    BY <1>9 DEF PaySettle
  <2>2. ASSUME NEW o \in RentIds
        PROVE  Settled'[o] = IF o = req[q].rent THEN Settled[o] + 1
                                                ELSE Settled[o]
    BY <1>9, <2>1, <2>2 DEF PaySettle
  <2>3. Settled' = [Settled EXCEPT ![req[q].rent] = @ + 1]
    BY <2>1, <2>2
  <2>4. \E r \in RentIds : Lifecycle!PayRent(r)
    BY <1>9, <2>1, <2>3 DEF PaySettle, Lifecycle!PayRent
  <2> QED
    BY <2>4 DEF Lifecycle!Next
<1>10. ASSUME NEW p \in Properties, NEW on \in BOOLEAN, UpdateProperty(p, on)
      PROVE  Lifecycle!Next
  <2>1. UNCHANGED <<status, Settled>>
    BY <1>10 DEF UpdateProperty
  <2>2. Lifecycle!UpdateProperty(p, on)
    BY <1>10, <2>1 DEF UpdateProperty, Lifecycle!UpdateProperty
  <2> QED
    BY <2>2 DEF Lifecycle!Next
<1> QED
  BY <1>1, <1>2, <1>3, <1>4, <1>5, <1>6, <1>7, <1>8, <1>9, <1>10, QuietSteps
     DEF SerialNext, Continue

(* One request at a time on a property, the handlers make exactly the      *)
(* moves their checks promise (rents.service.ts:36-285).                   *)
THEOREM SerialRefinement == SerialSpec => ImplementsLifecycle
<1>1. SerialSpec => []SInv
  BY InitSInv, SInvStep, PTL DEF SerialSpec
<1> QED
  BY <1>1, InitRefines, WritesRefine, PTL
     DEF SerialSpec, ImplementsLifecycle, Lifecycle!Spec

-----------------------------------------------------------------------------
(* The promises of RentLifecycle, kept by each of its actions. *)

Promises ==
  /\ Lifecycle!TypeOK
  /\ OnePaymentPerProperty
  /\ OneOpenRequest
  /\ OneReceiptPerTenancy

LEMMA InitPromises == Lifecycle!Init => Promises
  BY DEF Lifecycle!Init, Promises, Lifecycle!TypeOK,
         OnePaymentPerProperty, Lifecycle!OnePaymentPerProperty,
         OneOpenRequest, Lifecycle!OneOpenRequest,
         OneReceiptPerTenancy, Lifecycle!OneReceiptPerTenancy

(* An action writes one status, whose check its guard repeats, or none. *)
LEMMA PromisesStep ==
  Promises /\ [Lifecycle!Next]_(Lifecycle!vars) => Promises'
<1> SUFFICES ASSUME Promises, [Lifecycle!Next]_(Lifecycle!vars)
             PROVE  Promises'
  OBVIOUS
<1> USE DomainAssumption
    DEF Promises, Lifecycle!TypeOK, Lifecycle!RentState,
        OnePaymentPerProperty, Lifecycle!OnePaymentPerProperty,
        OneOpenRequest, Lifecycle!OneOpenRequest,
        OneReceiptPerTenancy, Lifecycle!OneReceiptPerTenancy,
        Lifecycle!Become, Lifecycle!NoneIn, Lifecycle!RentsOf
<1>1. CASE UNCHANGED Lifecycle!vars
  BY <1>1 DEF Lifecycle!vars
<1>2. ASSUME NEW p \in Properties, NEW on \in BOOLEAN,
             Lifecycle!UpdateProperty(p, on)
      PROVE  Promises'
  BY <1>2 DEF Lifecycle!UpdateProperty
<1>3. ASSUME NEW r \in RentIds, Lifecycle!RequestRent(r) PROVE Promises'
  BY <1>3 DEF Lifecycle!RequestRent
<1>4. ASSUME NEW r \in RentIds, Lifecycle!ApproveRent(r) PROVE Promises'
  BY <1>4 DEF Lifecycle!ApproveRent
<1>5. ASSUME NEW r \in RentIds, Lifecycle!RejectRent(r) PROVE Promises'
  BY <1>5 DEF Lifecycle!RejectRent
<1>6. ASSUME NEW r \in RentIds, Lifecycle!PayingRent(r) PROVE Promises'
  BY <1>6 DEF Lifecycle!PayingRent
<1>7. ASSUME NEW r \in RentIds, Lifecycle!PayRent(r) PROVE Promises'
  BY <1>7 DEF Lifecycle!PayRent
<1>8. ASSUME NEW r \in RentIds, Lifecycle!CancelRent(r) PROVE Promises'
  BY <1>8 DEF Lifecycle!CancelRent
<1>9. ASSUME NEW r \in RentIds, Lifecycle!CancelRentPayment(r) PROVE Promises'
  BY <1>9 DEF Lifecycle!CancelRentPayment
<1>10. ASSUME NEW r \in RentIds, Lifecycle!RemindRent(r) PROVE Promises'
  BY <1>10 DEF Lifecycle!RemindRent
<1> QED
  BY <1>1, <1>2, <1>3, <1>4, <1>5, <1>6, <1>7, <1>8, <1>9, <1>10
     DEF Lifecycle!Next

(* One request at a time on a property, at most one rent of it is being    *)
(* paid for, an occupant has at most one open request on it, and each      *)
(* tenancy has one receipt (rents.service.ts:47-50, 103-106, 145-152,      *)
(* 181-186).                                                               *)
THEOREM SerialPromises ==
  SerialSpec =>
    [](OnePaymentPerProperty /\ OneOpenRequest /\ OneReceiptPerTenancy)
<1>1. Promises =>
        OnePaymentPerProperty /\ OneOpenRequest /\ OneReceiptPerTenancy
  BY DEF Promises
<1> QED
  BY <1>1, InitPromises, PromisesStep, SerialRefinement, PTL
     DEF ImplementsLifecycle, Lifecycle!Spec

-----------------------------------------------------------------------------
(* Every move of a status is one the texts of the exceptions allow from    *)
(* the status the rent has then, not just from one a handler has read: a   *)
(* canceled or expired rent stays so.                                      *)
MoveAllowed ==
  \A r \in RentIds :
    status'[r] # status[r] => <<status[r], status'[r]>> \in Edge

MovesAllowed == [][MoveAllowed]_vars

LEMMA ActionsMoveAlongEdges ==
  Promises /\ [Lifecycle!Next]_(Lifecycle!vars) => MoveAllowed
<1> SUFFICES ASSUME Promises, [Lifecycle!Next]_(Lifecycle!vars),
                    NEW r \in RentIds, status'[r] # status[r]
             PROVE  <<status[r], status'[r]>> \in Edge
  BY DEF MoveAllowed
<1>1. status \in [RentIds -> Lifecycle!RentState \cup {"NEW"}]
  BY DEF Promises, Lifecycle!TypeOK
<1>2. PICK o \in RentIds :
           \/ Lifecycle!RequestRent(o) \/ Lifecycle!ApproveRent(o)
           \/ Lifecycle!RejectRent(o) \/ Lifecycle!PayingRent(o)
           \/ Lifecycle!PayRent(o) \/ Lifecycle!CancelRent(o)
           \/ Lifecycle!CancelRentPayment(o) \/ Lifecycle!RemindRent(o)
  BY DEF Lifecycle!Next, Lifecycle!UpdateProperty, Lifecycle!vars
<1> QED
  BY <1>1, <1>2
     DEF Edge, Lifecycle!Become, Lifecycle!RequestRent,
         Lifecycle!ApproveRent, Lifecycle!RejectRent, Lifecycle!PayingRent,
         Lifecycle!PayRent, Lifecycle!CancelRent,
         Lifecycle!CancelRentPayment, Lifecycle!RemindRent

(* One request at a time on a property, a rent moves only as the checks of *)
(* the handlers say; in particular it is paid from the paying state, which *)
(* overlapping requests do not keep to (rents.service.ts:108, 129, 154,    *)
(* 181, 201, 220).                                                         *)
THEOREM SerialMoves == SerialSpec => MovesAllowed /\ PaidFromPaying
<1>1. MoveAllowed =>
        \A r \in RentIds :
          status[r] # "PAID" /\ status'[r] = "PAID" => status[r] = "PAYING"
  BY DEF MoveAllowed, Edge
<1>2. SerialSpec => []Promises /\ [][Lifecycle!Next]_(Lifecycle!vars)
  BY InitPromises, PromisesStep, SerialRefinement, PTL
     DEF ImplementsLifecycle, Lifecycle!Spec
<1> QED
  BY <1>1, <1>2, ActionsMoveAlongEdges, PTL DEF MovesAllowed, PaidFromPaying

(* What ReceiptIsHonoured rests on, as a property of states: a recorded    *)
(* payment has its tenancy, or its request is about to store the status    *)
(* (rents.service.ts:185-186).                                             *)
ReceiptIsHeld ==
  \A r \in RentIds :
    receipts[r] > 0 =>
      \/ status[r] \in {"PAID", "EXPIRED"}
      \/ \E q \in Requests : At(q, "pay.settle") /\ req[q].rent = r

(* One request at a time on a property, no payment is recorded and then    *)
(* forgotten (rents.service.ts:185-186).                                   *)
THEOREM NoReceiptForgotten == SerialSpec => []ReceiptIsHeld
<1>1. Promises => ReceiptIsHeld
  BY DEF Promises, ReceiptIsHeld, OneReceiptPerTenancy,
         Lifecycle!OneReceiptPerTenancy, Settled
<1> QED
  BY <1>1, InitPromises, PromisesStep, SerialRefinement, PTL
     DEF ImplementsLifecycle, Lifecycle!Spec
=============================================================================
