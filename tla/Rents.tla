------------------------------- MODULE Rents -------------------------------
(***************************************************************************)
(* RentsService (rents.service.ts) as the server runs it.  A handler is an *)
(* async function: between two awaited database calls any other handler    *)
(* may run, and the sessions it opens never start a transaction.  One      *)
(* action is one awaited call together with the checks made on its result. *)
(*                                                                         *)
(* A request occupies a slot of `req` from its first read to its answer.   *)
(* A request refused on its first reads changes nothing and is not         *)
(* represented.  The read of the owner or the occupant is part of the      *)
(* first action: neither ever changes.                                     *)
(***************************************************************************)
EXTENDS RentDomain

CONSTANTS
  Requests,     \* slots of the requests being handled at one time
  MaxReceipts,  \* bound: no payment starts on a rent with so many
  None          \* no rent, no user

ASSUME RentsAssumption ==
  /\ IsFiniteSet(Requests)
  /\ MaxReceipts \in Nat
  /\ None \notin RentIds \cup Users

VARIABLES
  active,    \* the `active` field of each property
  status,    \* the `status` field of each rent, "NEW" before it is created
  receipts,  \* how many RENT transactions are recorded for each rent
  granter,   \* history: whose approval was last written on each rent
  req        \* the request in each slot

vars == <<active, status, receipts, granter, req>>

Step ==
  {"idle", "request.paid", "request.open", "request.create",
   "approve.check", "approve.write", "reject.write",
   "paying.check", "paying.write", "pay.record", "pay.settle",
   "cancel.write", "cancelPayment.write", "remind.due", "remind.expire"}

Idle == [at |-> "idle", rent |-> None, user |-> None, seen |-> "NEW"]

(* A request being handled: the step it is to make next, the rent and the  *)
(* caller, and the status the rent had when the handler read it.           *)
InFlight ==
  [at : Step \ {"idle"}, rent : RentIds, user : Users,
   seen : RentState \cup {"NEW"}]

TypeOK ==
  /\ active \in [Properties -> BOOLEAN]
  /\ status \in [RentIds -> RentState \cup {"NEW"}]
  /\ receipts \in [RentIds -> Nat]
  /\ granter \in [RentIds -> Users \cup {None}]
  /\ req \in [Requests -> InFlight \cup {Idle}]

Init ==
  /\ active = [p \in Properties |-> FALSE]
  /\ status = [r \in RentIds |-> "NEW"]
  /\ receipts = [r \in RentIds |-> 0]
  /\ granter = [r \in RentIds |-> None]
  /\ req = [q \in Requests |-> Idle]

-----------------------------------------------------------------------------
(* The life of a request. *)

At(q, step) == req[q].at = step

(* The handler reads rent r and goes on to its next call. *)
Begin(q, r, u, step) ==
  /\ At(q, "idle")
  /\ req' = [req EXCEPT ![q] =
               [at |-> step, rent |-> r, user |-> u, seen |-> status[r]]]

Goto(q, step) == req' = [req EXCEPT ![q].at = step]

(* Slip: the slot is not cleared. *)
RespondKeepingRent(q) == req' = [req EXCEPT ![q].at = "idle"]

Respond(q) == req' = [req EXCEPT ![q] = Idle]

(* findOneAndUpdate({ _id: id }, { status: s }): the filter names the rent *)
(* only, so the write lands whatever the status has become.                *)
Write(q, s) == status' = [status EXCEPT ![req[q].rent] = s]

(* findOne({ property, status: s }) on the property of the request's rent  *)
(* finds a rent.                                                           *)
Exists(q, s) == \E r \in RentsOf(PropertyOf[req[q].rent]) : status[r] = s

Stored == <<active, status, receipts, granter>>

-----------------------------------------------------------------------------
(* requestRent *)

RequestRent(q, r) ==
  /\ status[r] = "NEW"
  /\ \A o \in Requests : req[o].rent # r
  /\ active[PropertyOf[r]]
  /\ Begin(q, r, OccupantOf[r], "request.paid")
  /\ UNCHANGED Stored

RequestPaid(q) ==
  /\ At(q, "request.paid")
  /\ IF Exists(q, "PAID") THEN Respond(q) ELSE Goto(q, "request.open")
  /\ UNCHANGED Stored

(* Slip: the search is for the wrong status. *)
HasApprovedRequest(q) ==
  \E r \in RentsOf(PropertyOf[req[q].rent]) :
    OccupantOf[r] = req[q].user /\ status[r] = "APPROVED"

(* The occupant already has an open request on the property. *)
HasOpenRequest(q) ==
  \E r \in RentsOf(PropertyOf[req[q].rent]) :
    OccupantOf[r] = req[q].user /\ status[r] = "REQUEST"

RequestOpen(q) ==
  /\ At(q, "request.open")
  /\ IF HasOpenRequest(q) THEN Respond(q) ELSE Goto(q, "request.create")
  /\ UNCHANGED Stored

RequestCreate(q) ==
  /\ At(q, "request.create")
  /\ Write(q, "REQUEST")
  /\ Respond(q)
  /\ UNCHANGED <<active, receipts, granter>>

(* approveRent: the check of the status read first comes after the search  *)
(* for a rent being paid.                                                  *)

(* Slip: the owner is not checked. *)
ApproveRentAnyone(q, r, u) ==
  /\ status[r] # "NEW"
  /\ Begin(q, r, u, "approve.check")
  /\ UNCHANGED Stored

ApproveRent(q, r, u) ==
  /\ status[r] # "NEW"
  /\ u = OwnerOf[PropertyOf[r]]
  /\ Begin(q, r, u, "approve.check")
  /\ UNCHANGED Stored

(* Slip: the status read first is not checked. *)
ApproveCheckPaymentOnly(q) ==
  /\ At(q, "approve.check")
  /\ IF Exists(q, "PAYING") THEN Respond(q) ELSE Goto(q, "approve.write")
  /\ UNCHANGED Stored

ApproveCheck(q) ==
  /\ At(q, "approve.check")
  /\ IF Exists(q, "PAYING") \/ req[q].seen \notin {"REJECTED", "REQUEST"}
     THEN Respond(q)
     ELSE Goto(q, "approve.write")
  /\ UNCHANGED Stored

ApproveWrite(q) ==
  /\ At(q, "approve.write")
  /\ Write(q, "APPROVED")
  /\ granter' = [granter EXCEPT ![req[q].rent] = req[q].user]
  /\ Respond(q)
  /\ UNCHANGED <<active, receipts>>

(* rejectRent *)

(* Slip: a rent being paid for is rejected too. *)
RejectRentPaying(q, r, u) ==
  /\ status[r] \in {"APPROVED", "REQUEST", "PAYING"}
  /\ u = OwnerOf[PropertyOf[r]]
  /\ Begin(q, r, u, "reject.write")
  /\ UNCHANGED Stored

RejectRent(q, r, u) ==
  /\ status[r] \in {"APPROVED", "REQUEST"}
  /\ u = OwnerOf[PropertyOf[r]]
  /\ Begin(q, r, u, "reject.write")
  /\ UNCHANGED Stored

RejectWrite(q) ==
  /\ At(q, "reject.write")
  /\ Write(q, "REJECTED")
  /\ Respond(q)
  /\ UNCHANGED <<active, receipts, granter>>

(* payingRent: again the status read first is checked last. *)

PayingRent(q, r, u) ==
  /\ status[r] # "NEW"
  /\ u = OccupantOf[r]
  /\ Begin(q, r, u, "paying.check")
  /\ UNCHANGED Stored

(* Slip: other payments on the property are not looked for. *)
PayingCheckStatusOnly(q) ==
  /\ At(q, "paying.check")
  /\ IF req[q].seen # "APPROVED" THEN Respond(q) ELSE Goto(q, "paying.write")
  /\ UNCHANGED Stored

PayingCheck(q) ==
  /\ At(q, "paying.check")
  /\ IF Exists(q, "PAYING") \/ req[q].seen # "APPROVED"
     THEN Respond(q)
     ELSE Goto(q, "paying.write")
  /\ UNCHANGED Stored

PayingWrite(q) ==
  /\ At(q, "paying.write")
  /\ Write(q, "PAYING")
  /\ Respond(q)
  /\ UNCHANGED <<active, receipts, granter>>

(* payRent: the transaction is stored before the status is. *)

PayRent(q, r, u) ==
  /\ receipts[r] < MaxReceipts
  /\ status[r] = "PAYING"
  /\ u = OccupantOf[r]
  /\ Begin(q, r, u, "pay.record")
  /\ UNCHANGED Stored

(* Slip: createTransaction is not awaited, so its failure goes unnoticed. *)
PayRecordUnawaited(q) ==
  /\ At(q, "pay.record")
  /\ \/ receipts' = [receipts EXCEPT ![req[q].rent] = @ + 1]
     \/ UNCHANGED receipts
  /\ Goto(q, "pay.settle")
  /\ UNCHANGED <<active, status, granter>>

PayRecord(q) ==
  /\ At(q, "pay.record")
  /\ receipts' = [receipts EXCEPT ![req[q].rent] = @ + 1]
  /\ Goto(q, "pay.settle")
  /\ UNCHANGED <<active, status, granter>>

(* Slip: the handler answers without storing the status. *)
PaySettleUnsaved(q) ==
  /\ At(q, "pay.settle")
  /\ Respond(q)
  /\ UNCHANGED Stored

PaySettle(q) ==
  /\ At(q, "pay.settle")
  /\ Write(q, "PAID")
  /\ Respond(q)
  /\ UNCHANGED <<active, receipts, granter>>

(* cancelRent *)

CancelRent(q, r, u) ==
  /\ status[r] \in {"APPROVED", "REQUEST"}
  /\ u = OccupantOf[r]
  /\ Begin(q, r, u, "cancel.write")
  /\ UNCHANGED Stored

CancelWrite(q) ==
  /\ At(q, "cancel.write")
  /\ Write(q, "CANCELED")
  /\ Respond(q)
  /\ UNCHANGED <<active, receipts, granter>>

(* cancelRentPayment *)

CancelRentPayment(q, r, u) ==
  /\ status[r] = "PAYING"
  /\ u = OccupantOf[r]
  /\ Begin(q, r, u, "cancelPayment.write")
  /\ UNCHANGED Stored

CancelPaymentWrite(q) ==
  /\ At(q, "cancelPayment.write")
  /\ Write(q, "APPROVED")
  /\ Respond(q)
  /\ UNCHANGED <<active, receipts, granter>>

(* remindRent, for each rent the job found PAID.  Whether the rent is due  *)
(* is left open here: the clock is the matter of Reminder.tla.  Without a  *)
(* transaction the handler fails on payload[0].                            *)

RemindRent(q, r) ==
  /\ status[r] = "PAID"
  /\ Begin(q, r, OccupantOf[r], "remind.due")
  /\ UNCHANGED Stored

RemindDue(q) ==
  /\ At(q, "remind.due")
  /\ \/ receipts[req[q].rent] > 0 /\ Goto(q, "remind.expire")
     \/ Respond(q)
  /\ UNCHANGED Stored

RemindExpire(q) ==
  /\ At(q, "remind.expire")
  /\ Write(q, "EXPIRED")
  /\ Respond(q)
  /\ UNCHANGED <<active, receipts, granter>>

-----------------------------------------------------------------------------
(* PropertiesService.updateProperty switches a property on and off. *)
UpdateProperty(p, on) ==
  /\ active' = [active EXCEPT ![p] = on]
  /\ UNCHANGED <<status, receipts, granter, req>>

(* The awaited call rejects, or the process dies (every request in flight  *)
(* then fails): what was written stays, nothing is rolled back.            *)
Fail(q) ==
  /\ ~At(q, "idle")
  /\ Respond(q)
  /\ UNCHANGED Stored

(* The routes of RentsController, each for any rent and any user with a    *)
(* token; and the job, for each rent.                                      *)
Start(q) ==
  \E r \in RentIds :
    \/ RequestRent(q, r)
    \/ RemindRent(q, r)
    \/ \E u \in Users :
         \/ ApproveRent(q, r, u)
         \/ RejectRent(q, r, u)
         \/ PayingRent(q, r, u)
         \/ PayRent(q, r, u)
         \/ CancelRent(q, r, u)
         \/ CancelRentPayment(q, r, u)

Continue(q) ==
  \/ RequestPaid(q) \/ RequestOpen(q) \/ RequestCreate(q)
  \/ ApproveCheck(q) \/ ApproveWrite(q)
  \/ RejectWrite(q)
  \/ PayingCheck(q) \/ PayingWrite(q)
  \/ PayRecord(q) \/ PaySettle(q)
  \/ CancelWrite(q)
  \/ CancelPaymentWrite(q)
  \/ RemindDue(q) \/ RemindExpire(q)

Next ==
  \/ \E q \in Requests : Start(q) \/ Continue(q) \/ Fail(q)
  \/ \E p \in Properties, on \in BOOLEAN : UpdateProperty(p, on)

(* Any interleaving, any failure. *)
Spec == Init /\ [][Next]_vars

-----------------------------------------------------------------------------
(* One request at a time on each property, and no failure: what the        *)
(* guards of the handlers were written for.                                *)

Serialised ==
  \A q, o \in Requests :
    /\ ~At(q, "idle")
    /\ ~At(o, "idle")
    /\ PropertyOf[req[q].rent] = PropertyOf[req[o].rent]
    => q = o

Quiet(p) ==
  \A q \in Requests : ~At(q, "idle") => PropertyOf[req[q].rent] # p

SerialNext ==
  \/ \E q \in Requests : (Start(q) \/ Continue(q)) /\ Serialised'
  \/ \E p \in Properties, on \in BOOLEAN : Quiet(p) /\ UpdateProperty(p, on)

(* Every awaited call is answered in the end. *)
Fairness == \A q \in Requests : WF_vars(Continue(q))

SerialSpec == Init /\ [][SerialNext]_vars /\ Fairness

-----------------------------------------------------------------------------
(* Properties of every interleaving (Spec). *)

(* No rent is being paid for, rented or expired, and no receipt stands     *)
(* for one, unless the owner of its property approved it: neither stale    *)
(* writes (cancelRentPayment puts APPROVED back without the owner) nor     *)
(* failures get round approveRent (rents.service.ts:99, 154, 181).         *)
PaidWasGranted ==
  \A r \in RentIds :
    status[r] \in {"PAYING", "PAID", "EXPIRED"} \/ receipts[r] > 0
      => granter[r] = OwnerOf[PropertyOf[r]]

(* A rented rent has a receipt, so remindRent finds the transaction whose  *)
(* date it reads without looking (rents.service.ts:185-186, 243-244), even *)
(* when payRent fails between its two writes.                              *)
ReceiptBeforePaid ==
  \A r \in RentIds : status[r] \in {"PAID", "EXPIRED"} => receipts[r] > 0

(* Races can break "one payment at a time on a property"                   *)
(* (rents.service.ts:145-152), but never by more than the number of        *)
(* requests handled at once: the overlap does not build up.                *)
PayingOf(p) == {r \in RentsOf(p) : status[r] = "PAYING"}

PaymentOverlapBounded ==
  \A p \in Properties : Cardinality(PayingOf(p)) <= Cardinality(Requests)

(* The same of "one open request of an occupant on a property"             *)
(* (rents.service.ts:47-50).                                               *)
OpenRequestsOf(p, u) ==
  {r \in RentsOf(p) : OccupantOf[r] = u /\ status[r] = "REQUEST"}

OpenRequestsBounded ==
  \A p \in Properties, u \in Users :
    Cardinality(OpenRequestsOf(p, u)) <= Cardinality(Requests)

(* The moves of a rent the texts of the exceptions allow. *)
Edge ==
  ({"REQUEST", "REJECTED"} \X {"APPROVED"})
  \cup ({"REQUEST", "APPROVED"} \X {"REJECTED", "CANCELED"})
  \cup {<<"NEW", "REQUEST">>, <<"APPROVED", "PAYING">>, <<"PAYING", "PAID">>,
        <<"PAYING", "APPROVED">>, <<"PAID", "EXPIRED">>}

(* A status is only ever written by a request that read a status the move  *)
(* is allowed from, however long ago: a canceled or expired rent can come  *)
(* back to life by a stale write and by nothing else.                      *)
WriteFollowsRead ==
  \A r \in RentIds :
    status'[r] # status[r] =>
      \E q \in Requests :
        /\ req[q].rent = r
        /\ <<req[q].seen, status'[r]>> \in Edge

WritesFollowReads == [][WriteFollowsRead]_vars

(* "Only rents at (paying) state can be paid" (rents.service.ts:182;       *)
(* test/integrations/rents/pay-rent.e2e-spec.ts:241).  The status is read  *)
(* two calls before it is written.                                         *)
PaidFromPaying ==
  [][\A r \in RentIds :
       status[r] # "PAID" /\ status'[r] = "PAID" => status[r] = "PAYING"]_vars

-----------------------------------------------------------------------------
(* Properties of SerialSpec. *)

(* receipts of payments that are settled: payRent stores the transaction   *)
(* one call before the status.                                             *)
Settled ==
  [r \in RentIds |->
     IF \E q \in Requests : At(q, "pay.settle") /\ req[q].rent = r
     THEN receipts[r] - 1
     ELSE receipts[r]]

Lifecycle == INSTANCE RentLifecycle WITH receipts <- Settled

(* One request at a time, the handlers keep every promise of               *)
(* RentLifecycle.tla.                                                      *)
ImplementsLifecycle == Lifecycle!Spec

(* At most one rent of a property is being paid for                        *)
(* (rents.service.ts:103-106 and 145-152).                                 *)
OnePaymentPerProperty == Lifecycle!OnePaymentPerProperty

(* An occupant has at most one open request on a property                  *)
(* (rents.service.ts:47-50).                                               *)
OneOpenRequest == Lifecycle!OneOpenRequest

(* Nobody pays twice and nobody pays for nothing                           *)
(* (rents.service.ts:181-186).                                             *)
OneReceiptPerTenancy == Lifecycle!OneReceiptPerTenancy

(* A property that has been rented is not rented to anyone else            *)
(* ("This property has already been rented", rents.service.ts:44).         *)
(* Only requestRent looks for a PAID rent.                                 *)
ExclusiveTenancy ==
  \A r, o \in RentIds :
    /\ PropertyOf[r] = PropertyOf[o]
    /\ status[r] = "PAID"
    /\ status[o] = "PAID"
    => r = o

(* A tenant whose payment is recorded is given the property                *)
(* (rents.service.ts:185-186).                                             *)
ReceiptIsHonoured ==
  \A r \in RentIds : receipts[r] > 0 ~> status[r] \in {"PAID", "EXPIRED"}
=============================================================================
