-------------------------- MODULE Reminder_proofs --------------------------
(***************************************************************************)
(* For any rents, durations, tick, length of the day and period of the     *)
(* job: no rent is expired an hour or more before its end (the decision is *)
(* taken a call before the status is stored, and time only runs down in    *)
(* between); with a run a day the occupant is reminded before that; and    *)
(* with runs less than two hours apart no end is overlooked.               *)
(***************************************************************************)
EXTENDS Reminder, TLAPS

(* No unit is left, so less than one unit is left. *)
LEMMA WholeZero ==
  ASSUME NEW a \in Int, NEW b \in Nat \ {0}, Whole(a, b) = 0
  PROVE  a < b
<1>1. CASE a >= 0
  <2>1. a \div b = 0
    BY <1>1 DEF Whole
  <2>2. a = b * (a \div b) + (a % b) /\ a % b \in 0..(b - 1)
    OBVIOUS
  <2> QED
    BY <2>1, <2>2
<1>2. CASE a < 0
  BY <1>2
<1> QED
  BY <1>1, <1>2

Decided ==
  \A r \in Rents :
    status[r] = "EXPIRED" \/ job[r] = "expire" => left[r] < Hour

TInv ==
  /\ left \in [Rents -> Int]
  /\ job \in [Rents -> {"none", "look", "expire", "remind"}]
  /\ status \in [Rents -> {"PAYING", "PAID", "EXPIRED"}]

LEMMA DecidedInit == Init => TInv /\ Decided
  BY ReminderAssumption DEF Init, TInv, Decided

LEMMA DecidedStep == TInv /\ Decided /\ [Next]_vars => TInv' /\ Decided'
<1> SUFFICES ASSUME TInv, Decided, [Next]_vars PROVE TInv' /\ Decided'
  OBVIOUS
<1> USE ReminderAssumption DEF TInv, Decided
<1>1. CASE UNCHANGED vars
  BY <1>1 DEF vars
<1>2. CASE Tick
  BY <1>2 DEF Tick, Floor
<1>3. CASE RemindRentsJob
  BY <1>3 DEF RemindRentsJob
<1>4. ASSUME NEW r \in Rents, PayRent(r) PROVE TInv' /\ Decided'
  BY <1>4 DEF PayRent
<1>5. ASSUME NEW r \in Rents, RemoveUser(r) PROVE TInv' /\ Decided'
  BY <1>5 DEF RemoveUser
<1>6. ASSUME NEW r \in Rents, Look(r) PROVE TInv' /\ Decided'
  <2>1. TInv' /\ UNCHANGED <<status, left>>
    BY <1>6 DEF Look
  <2>2. CASE job'[r] = "expire"
    <3>1. HoursLeft(r) = 0
      BY <1>6, <2>2 DEF Look, Due
    <3>2. left[r] < Hour
      BY <3>1, WholeZero DEF HoursLeft
    <3> QED
      BY <1>6, <2>1, <3>2 DEF Look
  <2>3. CASE job'[r] # "expire"
    BY <1>6, <2>1, <2>3 DEF Look
  <2> QED
    BY <2>2, <2>3
<1>7. ASSUME NEW r \in Rents, Expire(r) PROVE TInv' /\ Decided'
  BY <1>7 DEF Expire
<1>8. ASSUME NEW r \in Rents, Remind(r) PROVE TInv' /\ Decided'
  BY <1>8 DEF Remind
<1> QED
  BY <1>1, <1>2, <1>3, <1>4, <1>5, <1>6, <1>7, <1>8 DEF Next, RemindRent

(* A tenant keeps the property until the last hour of the rent             *)
(* (rents.service.ts:246-253).                                             *)
THEOREM NotExpiredEarly == Spec => []NeverExpiresEarly
<1>1. Decided => NeverExpiresEarly
  BY DEF Decided, NeverExpiresEarly
<1> QED
  BY <1>1, DecidedInit, DecidedStep, PTL DEF Spec

-----------------------------------------------------------------------------
(* The bounds of the clocks. *)
LEMMA Days ==
  ASSUME NEW r \in Rents
  PROVE  /\ Duration[r] * Day \in Nat
         /\ Duration[r] >= 2 => Duration[r] * Day >= 2 * Day
<1>1. Duration[r] \in Nat \ {0} /\ Day \in Nat \ {0}
  BY ReminderAssumption
<1>2. \A a, b \in Nat : a * b \in Nat /\ (a >= 2 => a * b >= 2 * b)
  OBVIOUS
<1> QED
  BY <1>1, <1>2

Clocks ==
  /\ \A r \in Rents : left[r] \in Floor..(Duration[r] * Day)
  /\ next \in 0..Period
  /\ reminded \subseteq Rents
  /\ removed \subseteq Rents

LEMMA ClocksInit == Init => Clocks
<1> SUFFICES ASSUME Init PROVE Clocks
  OBVIOUS
<1>1. Floor \in Int /\ Floor <= 0
  BY ReminderAssumption DEF Floor
<1>2. ASSUME NEW r \in Rents PROVE left[r] \in Floor..(Duration[r] * Day)
  <2>1. left[r] = Duration[r] * Day /\ left[r] \in Nat
    BY Days DEF Init
  <2> DEFINE end == Duration[r] * Day
  <2> HIDE DEF end
  <2>2. left[r] \in Floor..end
    BY <1>1, <2>1 DEF end
  <2> QED
    BY <2>2 DEF end
<1> QED
  BY <1>2 DEF Init, Clocks

LEMMA ClocksStep == TInv /\ Clocks /\ [Next]_vars => Clocks'
<1> SUFFICES ASSUME TInv, Clocks, [Next]_vars PROVE Clocks'
  OBVIOUS
<1>1. CASE Tick
  <2>1. next' \in 0..Period
    BY <1>1, ReminderAssumption DEF Tick, Clocks
  <2>2. ASSUME NEW r \in Rents PROVE left'[r] \in Floor..(Duration[r] * Day)
    <3>1. Duration[r] * Day \in Int /\ Floor \in Int
      BY Days, ReminderAssumption DEF Floor
    <3>2. left[r] \in Int /\ Floor <= left[r] /\ left[r] <= Duration[r] * Day
      BY <3>1 DEF TInv, Clocks
    <3>3. left'[r] = left[r] \/ (left[r] > Floor /\ left'[r] = left[r] - 1)
      BY <1>1 DEF Tick
    <3> QED
      BY <3>1, <3>2, <3>3
  <2> QED
    BY <1>1, <2>1, <2>2 DEF Tick, Clocks
<1>2. CASE RemindRentsJob
  BY <1>2, ReminderAssumption DEF RemindRentsJob, Clocks
<1>3. ASSUME NEW r \in Rents, PayRent(r) \/ RemoveUser(r) \/ RemindRent(r) PROVE Clocks'
  BY <1>3 DEF PayRent, RemoveUser, RemindRent, Look, Expire, Remind, Clocks
<1>4. CASE UNCHANGED vars
  BY <1>4 DEF vars, Clocks
<1> QED
  BY <1>1, <1>2, <1>3, <1>4 DEF Next

(* Every variable keeps to its values. *)
THEOREM ReminderTypeCorrect == Spec => []TypeOK
<1>1. TInv /\ Clocks => TypeOK
  BY DEF TInv, Clocks, TypeOK
<1> QED
  BY <1>1, DecidedInit, DecidedStep, ClocksInit, ClocksStep, PTL DEF Spec

-----------------------------------------------------------------------------
(* The occupant of a rent of two days or more who has not been reminded    *)
(* has a run to come that finds at least a day left: from one run to the   *)
(* next the end comes nearer by a period, and a run that finds between one *)
(* day and two reminds.                                                    *)
LEMMA WholeDays ==
  ASSUME NEW a \in Int, NEW b \in Nat \ {0}, a >= b
  PROVE  /\ Whole(a, b) # 0
         /\ a < 2 * b => Whole(a, b) = 1
<1>1. a \div b \in Int /\ a = b * (a \div b) + (a % b) /\ a % b \in 0..(b - 1)
  OBVIOUS
<1>2. \A q \in Int : b * q <= 0 \/ q >= 1
  OBVIOUS
<1>3. \A q \in Int : b * q >= 2 * b \/ q <= 1
  OBVIOUS
<1> QED
  BY <1>1, <1>2, <1>3 DEF Whole

Unreminded(r) == Duration[r] >= 2 /\ r \notin removed \cup reminded

ToCome ==
  \A r \in Rents : Unreminded(r) =>
    /\ status[r] = "PAYING" => left[r] >= 2 * Day /\ job[r] = "none"
    /\ status[r] = "PAID" =>
         \/ job[r] = "none" /\ left[r] - next >= 2 * Day - Period
         \/ job[r] = "look" /\ left[r] >= Day /\ next = Period
         \/ job[r] = "remind"
    /\ status[r] # "EXPIRED"

LEMMA ToComeStep ==
  ASSUME Period <= Day, TInv, Clocks, ToCome, [Next]_vars
  PROVE  ToCome'
<1> SUFFICES ASSUME NEW r \in Rents, Unreminded(r)'
             PROVE  (/\ status[r] = "PAYING" => left[r] >= 2 * Day /\ job[r] = "none"
                     /\ status[r] = "PAID" =>
                          \/ job[r] = "none" /\ left[r] - next >= 2 * Day - Period
                          \/ job[r] = "look" /\ left[r] >= Day /\ next = Period
                          \/ job[r] = "remind"
                     /\ status[r] # "EXPIRED")'
  BY DEF ToCome
<1>1. Unreminded(r)
  <2>1. removed \subseteq removed' /\ reminded \subseteq reminded'
    BY DEF Next, Tick, RemindRentsJob, PayRent, RemoveUser, RemindRent, Look, Expire,
           Remind, vars
  <2> QED
    BY <2>1 DEF Unreminded
<1>2. /\ Period \in Nat \ {0} /\ Day \in Nat \ {0} /\ Hour \in Nat \ {0} /\ Hour < Day
      /\ left[r] \in Int /\ next \in 0..Period
      /\ Floor \in Int /\ Floor < 0
  BY ReminderAssumption DEF TInv, Clocks, Floor
<1> DEFINE I == /\ status[r] = "PAYING" => left[r] >= 2 * Day /\ job[r] = "none"
                /\ status[r] = "PAID" =>
                     \/ job[r] = "none" /\ left[r] - next >= 2 * Day - Period
                     \/ job[r] = "look" /\ left[r] >= Day /\ next = Period
                     \/ job[r] = "remind"
                /\ status[r] # "EXPIRED"
<1>3. I
  BY <1>1 DEF ToCome
<1>4. CASE Tick
  <2>1. /\ next' = next - 1 /\ next > 0 /\ job[r] # "look"
        /\ UNCHANGED <<status, job>>
        /\ left'[r] = IF status[r] # "PAYING" /\ left[r] > Floor THEN left[r] - 1
                                                                 ELSE left[r]
    BY <1>4 DEF Tick
  <2> QED
    BY <1>2, <1>3, <2>1
<1>5. CASE RemindRentsJob
  <2>1. /\ next = 0 /\ next' = Period /\ job[r] = "none" /\ UNCHANGED <<status, left>>
        /\ job'[r] = IF status[r] = "PAID" THEN "look" ELSE "none"
    BY <1>5 DEF RemindRentsJob
  <2> QED
    BY <1>2, <1>3, <2>1
<1>6. CASE PayRent(r)
  <2>1. /\ UNCHANGED <<left, next, job>> /\ status[r] = "PAYING" /\ status'[r] = "PAID"
    BY <1>6 DEF PayRent, TInv
  <2> QED
    BY <1>2, <1>3, <2>1
<1>7. CASE Look(r)
  <2>1. /\ UNCHANGED <<left, next, status>> /\ job[r] = "look"
        /\ job'[r] = IF r \in removed THEN "none"
                     ELSE IF Due(r) THEN "expire"
                     ELSE IF LastDay(r) THEN "remind"
                     ELSE "none"
    BY <1>7 DEF Look, TInv
  <2>2. status[r] = "PAID" => left[r] >= Day /\ next = Period
    BY <1>3, <2>1
  <2>3. status[r] = "PAID" => ~Due(r) /\ (left[r] < 2 * Day => LastDay(r))
    BY <1>2, <2>2, WholeDays DEF Due, LastDay, DaysLeft
  <2>4. r \notin removed
    BY <1>1 DEF Unreminded
  <2>5. CASE status[r] = "PAID" /\ LastDay(r)
    BY <2>1, <2>3, <2>4, <2>5
  <2>6. CASE status[r] = "PAID" /\ ~LastDay(r)
    <3>1. job'[r] = "none" /\ left[r] >= 2 * Day
      BY <1>2, <2>1, <2>3, <2>4, <2>6
    <3> QED
      BY <1>2, <2>1, <2>2, <2>6, <3>1
  <2> QED
    BY <1>3, <2>1, <2>5, <2>6 DEF TInv
<1>8. CASE Expire(r)
  BY <1>3, <1>8 DEF Expire, TInv
<1>9. CASE Remind(r)
  BY <1>9 DEF Remind, Unreminded
<1>10. CASE RemoveUser(r)
  BY <1>10 DEF RemoveUser, Unreminded
<1>11. ASSUME NEW q \in Rents \ {r}, PayRent(q) \/ RemoveUser(q) \/ RemindRent(q)
       PROVE  /\ status'[r] = status[r] /\ job'[r] = job[r]
              /\ UNCHANGED <<left, next>>
  BY <1>11 DEF PayRent, RemoveUser, RemindRent, Look, Expire, Remind, TInv
<1>12. CASE UNCHANGED vars
  BY <1>3, <1>12 DEF vars
<1> QED
  BY <1>3, <1>4, <1>5, <1>6, <1>7, <1>8, <1>9, <1>10, <1>11, <1>12 DEF Next, RemindRent

(* When the runs come at least once a day, the occupant of a rent of two   *)
(* days or more is reminded before it expires (rents.service.ts:269).      *)
THEOREM RemindedInTime ==
  ASSUME Period <= Day
  PROVE  Spec => []RemindedBeforeEnd
<1>1. Init => ToCome
  <2> SUFFICES ASSUME Init, NEW r \in Rents, Unreminded(r)
               PROVE  left[r] >= 2 * Day /\ job[r] = "none" /\ status[r] = "PAYING"
    BY DEF ToCome
  <2> QED
    BY Days DEF Init, Unreminded
<1>2. TInv /\ Clocks /\ ToCome /\ [Next]_vars => ToCome'
  BY ToComeStep
<1>3. ToCome => RemindedBeforeEnd
  BY DEF ToCome, Unreminded, RemindedBeforeEnd
<1> QED
  BY <1>1, <1>2, <1>3, DecidedInit, DecidedStep, ClocksInit, ClocksStep, PTL DEF Spec

-----------------------------------------------------------------------------
(* When the runs come less than two hours apart, one of them finds the     *)
(* rent in the two hours around its end.                                   *)
LEMMA WholeSmall ==
  ASSUME NEW a \in Int, NEW b \in Nat \ {0}, -b < a, a < b
  PROVE  Whole(a, b) = 0
<1>1. \A c \in Nat : c < b => c \div b = 0
  OBVIOUS
<1>2. CASE a >= 0
  BY <1>1, <1>2 DEF Whole
<1>3. CASE a < 0
  <2>1. -a \in Nat /\ -a < b
    BY <1>3
  <2>2. (-a) \div b = 0
    BY <1>1, <2>1
  <2> QED
    BY <1>3, <2>2 DEF Whole
<1> QED
  BY <1>2, <1>3

(* A tenancy that nobody is ending has a run to come before it is an hour  *)
(* past its end, or that run is looking at it now.                         *)
RunToCome ==
  \A r \in Rents :
    status[r] = "PAID" /\ r \notin removed /\ job[r] # "expire"
      => IF job[r] = "look" THEN left[r] > -Hour /\ next = Period
                           ELSE left[r] - next > -Hour

(* The days of a rent are counted from its payment, and until then no run  *)
(* looks at it.                                                            *)
Unspent ==
  \A r \in Rents : status[r] = "PAYING" => left[r] > Hour /\ job[r] = "none"

LEMMA UnspentStep == TInv /\ Unspent /\ [Next]_vars => Unspent'
  BY DEF TInv, Unspent, Next, Tick, RemindRentsJob, PayRent, RemoveUser,
         RemindRent, Look, Expire, Remind, vars

LEMMA RunToComeStep ==
  ASSUME PromiseOk, Period < 2 * Hour,
         TInv, Clocks, Unspent, RunToCome, [Next]_vars
  PROVE  RunToCome'
<1> DEFINE Awaited(r) ==
      IF job[r] = "look" THEN left[r] > -Hour /\ next = Period
                         ELSE left[r] - next > -Hour
<1> SUFFICES ASSUME NEW r \in Rents, status'[r] = "PAID",
                    r \notin removed', job'[r] # "expire"
             PROVE  Awaited(r)'
  BY DEF RunToCome
<1>1. /\ Period \in Nat \ {0} /\ Hour \in Nat \ {0} /\ Day \in Nat \ {0}
      /\ Hour < Day
      /\ left[r] \in Int /\ next \in 0..Period
      /\ job[r] \in {"none", "look", "expire", "remind"}
  BY ReminderAssumption DEF TInv, Clocks
<1>2. r \notin removed
  <2>1. removed \subseteq removed'
    BY DEF Next, Tick, RemindRentsJob, PayRent, RemoveUser, RemindRent, Look,
           Expire, Remind, vars
  <2> QED
    BY <2>1
<1>3. status[r] = "PAID" /\ job[r] # "expire" => Awaited(r)
  BY <1>2 DEF RunToCome
<1>4. CASE Tick
  <2>1. /\ next' = next - 1 /\ job[r] # "look"
        /\ UNCHANGED <<status, job>>
        /\ left'[r] \in {left[r], left[r] - 1}
    BY <1>4 DEF Tick
  <2> QED
    BY <1>1, <1>3, <2>1
<1>5. CASE RemindRentsJob
  <2>1. /\ next = 0 /\ next' = Period /\ job[r] = "none"
        /\ UNCHANGED <<status, left>>
        /\ job'[r] = "look"
    BY <1>5 DEF RemindRentsJob
  <2> QED
    BY <1>1, <1>3, <2>1
<1>6. CASE PayRent(r)
  <2>1. /\ UNCHANGED <<left, next, job>> /\ left[r] > Hour
    BY <1>6 DEF PayRent, Unspent
  <2>2. job[r] # "look"
    BY <1>6 DEF PayRent, Unspent
  <2> QED
    BY <1>1, <2>1, <2>2
<1>7. CASE Look(r)
  <2>1. /\ UNCHANGED <<left, next, status>> /\ job[r] = "look"
        /\ job'[r] = IF Due(r) THEN "expire"
                     ELSE IF LastDay(r) THEN "remind"
                     ELSE "none"
    BY <1>2, <1>7 DEF Look, TInv
  <2>2. left[r] > -Hour /\ next = Period
    BY <1>3, <2>1
  <2>3. left[r] >= Hour
    <3>1. ~Due(r)
      BY <2>1
    <3>2. left[r] < Hour => Due(r)
      BY <1>1, <2>2, WholeSmall DEF Due, DaysLeft, HoursLeft
    <3> QED
      BY <1>1, <3>1, <3>2
  <2> QED
    BY <1>1, <2>1, <2>2, <2>3
<1>8. CASE Expire(r)
  BY <1>8 DEF Expire, TInv
<1>9. CASE Remind(r)
  <2>1. UNCHANGED <<left, next, status>> /\ job[r] = "remind" /\ job'[r] = "none"
    BY <1>9 DEF Remind, TInv
  <2> QED
    BY <1>3, <2>1
<1>10. CASE RemoveUser(r)
  BY <1>10 DEF RemoveUser
<1>11. ASSUME NEW q \in Rents \ {r},
              PayRent(q) \/ RemoveUser(q) \/ RemindRent(q)
       PROVE  Awaited(r)'
  <2>1. /\ status'[r] = status[r] /\ job'[r] = job[r]
        /\ UNCHANGED <<left, next>>
    BY <1>11 DEF PayRent, RemoveUser, RemindRent, Look, Expire, Remind, TInv
  <2> QED
    BY <1>3, <2>1
<1>12. CASE UNCHANGED vars
  BY <1>3, <1>12 DEF vars
<1> QED
  BY <1>4, <1>5, <1>6, <1>7, <1>8, <1>9, <1>10, <1>11, <1>12
     DEF Next, RemindRent

(* What TenancyEnds rests on, as a property of states: an hour past the    *)
(* end the rent of an occupant who was not removed is expired, or a run    *)
(* has found it due and only the write is missing                          *)
(* (rents.service.ts:232, 246-253).                                        *)
OverstayIsEnding ==
  \A r \in Rents :
    status[r] = "PAID" /\ left[r] <= -Hour => r \in removed \/ job[r] = "expire"

(* When the runs come less than two hours apart and the driver takes the   *)
(* session, no tenancy slips through between two runs of the job.          *)
THEOREM NoTenancyOverlooked ==
  ASSUME PromiseOk, Period < 2 * Hour
  PROVE  Spec => []OverstayIsEnding
<1>1. Init => Unspent /\ RunToCome
  <2> SUFFICES ASSUME Init, NEW r \in Rents
               PROVE  /\ left[r] > Hour
                      /\ status[r] = "PAYING" /\ job[r] = "none"
    BY DEF Unspent, RunToCome
  <2>1. \A a, b \in Nat \ {0} : a * b >= b
    OBVIOUS
  <2>2. Duration[r] \in Nat \ {0} /\ Day \in Nat \ {0}
        /\ Hour \in Nat /\ Hour < Day
    BY ReminderAssumption
  <2>3. Duration[r] * Day >= Day /\ Duration[r] * Day \in Nat
    BY <2>1, <2>2, Days
  <2> QED
    BY <2>2, <2>3 DEF Init
<1>2. TInv /\ Clocks /\ Unspent /\ RunToCome /\ [Next]_vars
        => Unspent' /\ RunToCome'
  BY UnspentStep, RunToComeStep
<1>3. TInv /\ Clocks /\ RunToCome => OverstayIsEnding
  BY ReminderAssumption DEF TInv, Clocks, RunToCome, OverstayIsEnding
<1> QED
  BY <1>1, <1>2, <1>3, DecidedInit, DecidedStep, ClocksInit, ClocksStep, PTL
     DEF Spec
=============================================================================
