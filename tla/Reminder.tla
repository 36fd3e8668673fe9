------------------------------ MODULE Reminder ------------------------------
(***************************************************************************)
(* RentsService.remindRentsJob and remindRent (rents.service.ts): the only *)
(* way a rented rent ends.  The job has no memory of its own.  Each run    *)
(* compares the clock with the end of each rent and acts on the two        *)
(* numbers it gets, so what happens to a rent depends on when the runs     *)
(* fall.                                                                   *)
(*                                                                         *)
(* Nothing in the repository schedules the job.  It is modelled as run     *)
(* once in Period ticks, as a cron expression given to JobsService would.  *)
(* Assumed of one run: its reads are answered within a tick, all of its    *)
(* calls before the next run, and none of them rejects for another reason  *)
(* than a removed occupant or the session (PromiseOk).                     *)
(***************************************************************************)
EXTENDS Integers

CONSTANTS
  Rents,     \* rents of different occupants
  Duration,  \* the days each is rented for
  Hour,      \* ticks in an hour
  Day,       \* ticks in a day
  Period,    \* ticks from one run of the job to the next
  PromiseOk  \* the driver takes the promise of a session for a session

ASSUME ReminderAssumption ==
  /\ Duration \in [Rents -> Nat \ {0}]
  /\ {Hour, Day, Period} \subseteq Nat \ {0}
  /\ Hour < Day
  /\ PromiseOk \in BOOLEAN

VARIABLES
  status,    \* the `status` of each rent
  left,      \* ticks until the end of each rent that is or was rented
  next,      \* ticks until the next run
  job,       \* the call remindRent makes next for each rent
  reminded,  \* rents whose occupant was sent "your rent will soon expire"
  removed    \* rents whose occupant removed the account

vars == <<status, left, next, job, reminded, removed>>

(* Two hours past the end and later are all the same to the job. *)
Floor == -(2 * Hour)

TypeOK ==
  /\ status \in [Rents -> {"PAYING", "PAID", "EXPIRED"}]
  /\ left \in [Rents -> Int]
  /\ \A r \in Rents : left[r] \in Floor..(Duration[r] * Day)
  /\ next \in 0..Period
  /\ job \in [Rents -> {"none", "look", "expire", "remind"}]
  /\ reminded \subseteq Rents
  /\ removed \subseteq Rents

Init ==
  /\ status = [r \in Rents |-> "PAYING"]
  /\ left = [r \in Rents |-> Duration[r] * Day]
  /\ next \in 0..Period
  /\ job = [r \in Rents |-> "none"]
  /\ reminded = {}
  /\ removed = {}

-----------------------------------------------------------------------------
(* date-fns *)

(* Slip: rounded down instead of towards zero. *)
RoundDown(a, b) == a \div b

(* Whole units, rounded towards zero: the last hour before the end and the *)
(* first one after it both count as 0.                                     *)
Whole(a, b) == IF a >= 0 THEN a \div b ELSE -((-a) \div b)

DaysLeft(r) == Whole(left[r], Day)
HoursLeft(r) == Whole(left[r], Hour)

-----------------------------------------------------------------------------
(* Slip: time goes on although the job is due. *)
TickPastJob ==
  /\ \A r \in Rents : job[r] # "look"
  /\ next' = next - 1
  /\ UNCHANGED <<status, left, job, reminded, removed>>

(* A tick of the clock, which stops for the reads of the job. *)
Tick ==
  /\ next > 0
  /\ \A r \in Rents : job[r] # "look"
  /\ next' = next - 1
  /\ left' = [r \in Rents |->
                IF status[r] # "PAYING" /\ left[r] > Floor THEN left[r] - 1
                                                          ELSE left[r]]
  /\ UNCHANGED <<status, job, reminded, removed>>

(* payRent stores the transaction the end is counted from. *)
PayRent(r) ==
  /\ status[r] = "PAYING"
  /\ status' = [status EXCEPT ![r] = "PAID"]
  /\ UNCHANGED <<left, next, job, reminded, removed>>

(* removeUser hides the occupant, and getUser does not find it any more. *)
RemoveUser(r) ==
  /\ removed' = removed \cup {r}
  /\ UNCHANGED <<status, left, next, job, reminded>>

(* remindRentsJob calls remindRent for every PAID rent at once. *)
RemindRentsJob ==
  /\ next = 0
  /\ \A r \in Rents : job[r] = "none"
  /\ next' = Period
  /\ job' = [r \in Rents |-> IF status[r] = "PAID" THEN "look" ELSE "none"]
  /\ UNCHANGED <<status, left, reminded, removed>>

(* Slip: the hours are not looked at. *)
DueToday(r) == DaysLeft(r) = 0

Due(r) == DaysLeft(r) = 0 /\ HoursLeft(r) = 0

(* Slip: remind only when the rent has exactly one day left. *)
LastDayStarts(r) == left[r] = Day

LastDay(r) == DaysLeft(r) = 1

(* The reads of remindRent.  For a removed occupant getUser throws: this   *)
(* call of remindRent ends, the others go on.                              *)
Look(r) ==
  /\ job[r] = "look"
  /\ job' = [job EXCEPT ![r] = IF r \in removed THEN "none"
                               ELSE IF Due(r) THEN "expire"
                               ELSE IF LastDay(r) THEN "remind"
                               ELSE "none"]
  /\ UNCHANGED <<status, left, next, reminded, removed>>

(* The status is stored, then a mail is queued.  The session given for the *)
(* write is what startSession returned to remindRentsJob, and that is not  *)
(* awaited: a driver that wants a session rejects the write.               *)
Expire(r) ==
  /\ job[r] = "expire"
  /\ status' = [status EXCEPT ![r] = IF PromiseOk THEN "EXPIRED" ELSE @]
  /\ job' = [job EXCEPT ![r] = "none"]
  /\ UNCHANGED <<left, next, reminded, removed>>

Remind(r) ==
  /\ job[r] = "remind"
  /\ reminded' = reminded \cup {r}
  /\ job' = [job EXCEPT ![r] = "none"]
  /\ UNCHANGED <<status, left, next, removed>>

RemindRent(r) == Look(r) \/ Expire(r) \/ Remind(r)

Next ==
  \/ Tick
  \/ RemindRentsJob
  \/ \E r \in Rents : PayRent(r) \/ RemoveUser(r) \/ RemindRent(r)

(* Time passes, the scheduler runs the job and calls are answered. *)
Fairness ==
  /\ WF_vars(Tick)
  /\ WF_vars(RemindRentsJob)
  /\ \A r \in Rents : WF_vars(RemindRent(r))

Spec == Init /\ [][Next]_vars /\ Fairness

-----------------------------------------------------------------------------
(* A tenant loses the property less than an hour before the end of the     *)
(* rent at the earliest (rents.service.ts:246-253).                        *)
NeverExpiresEarly ==
  \A r \in Rents : status[r] = "EXPIRED" => left[r] < Hour

(* The occupant of a rent of two days or more has been reminded by the     *)
(* time it expires, whenever the runs fall (rents.service.ts:269).         *)
RemindedBeforeEnd ==
  \A r \in Rents :
    status[r] = "EXPIRED" /\ Duration[r] >= 2 => r \in removed \cup reminded

(* Every rent expires, unless its occupant is removed, which must not keep *)
(* the rents of others from expiring (rents.service.ts:232, 249-253;       *)
(* "should remind rents",                                                  *)
(* test/integrations/rents/remind-rents-job.e2e-uspec.ts:66).  The runs    *)
(* must come less than two hours apart: a run that misses the two hours    *)
(* around the end is not made up for.  And PromiseOk must hold.            *)
TenancyEnds ==
  \A r \in Rents : status[r] = "PAID" ~> status[r] = "EXPIRED" \/ r \in removed
=============================================================================
