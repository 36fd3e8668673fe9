---------------------------- MODULE Login_proofs ----------------------------
(***************************************************************************)
(* The limiter, the passwords and the mail queue keep their promises, for  *)
(* any urls, addresses, requests and mails, any limit and any length of    *)
(* the five minutes.                                                       *)
(***************************************************************************)
EXTENDS Login, FiniteSetTheorems, FunctionTheorems, TLAPS

-----------------------------------------------------------------------------
(* The queue.  A mail whose job is not under way is not being sent, and    *)
(* each delivery is accounted for by the first time the job was given out  *)
(* or by a stall.                                                          *)
Idle(m) == job[m] \in {"none", "delayed", "stalled", "failed"}

QueueInv ==
  /\ QueueTypeOK
  /\ \A m \in Mails :
       /\ Idle(m) => m \notin sending /\ inbox[m] <= stalls[m]
       /\ ~Idle(m) => inbox[m] <= stalls[m] + (IF m \in sending THEN 0 ELSE 1)
       /\ job[m] \notin {"stalled", "failed"} => stalls[m] <= 1

LEMMA QueueInitInv == QueueInit => QueueInv
  BY DEF QueueInit, QueueInv, QueueTypeOK, Idle

LEMMA QueueSteps ==
  ASSUME QueueInv,
         \/ \E m \in Mails : SendMail(m) \/ Consume(m)
         \/ \E m \in Mails : Finished(m) /\ Forget(m)
         \/ QueueCrash
         \/ UNCHANGED queueVars
  PROVE  QueueInv'
<1> USE DEF QueueInv, QueueTypeOK, Idle
<1>1. ASSUME NEW m \in Mails, SendMail(m) PROVE QueueInv'
  BY <1>1 DEF SendMail
<1>2. ASSUME NEW m \in Mails, MailJob(m) PROVE QueueInv'
  BY <1>2 DEF MailJob
<1>3. ASSUME NEW m \in Mails, Complete(m) PROVE QueueInv'
  BY <1>3 DEF Complete
<1>4. ASSUME NEW m \in Mails, Deliver(m) PROVE QueueInv'
  BY <1>4 DEF Deliver
<1>5. ASSUME NEW m \in Mails, Reject(m) PROVE QueueInv'
  BY <1>5 DEF Reject
<1>6. ASSUME NEW m \in Mails, Recover(m) PROVE QueueInv'
  BY <1>6 DEF Recover
<1>7. ASSUME NEW m \in Mails, Finished(m), Forget(m) PROVE QueueInv'
  BY <1>7 DEF Finished, Forget
<1>8. ASSUME QueueCrash PROVE QueueInv'
  BY <1>8 DEF QueueCrash
<1>9. ASSUME UNCHANGED queueVars PROVE QueueInv'
  BY <1>9 DEF queueVars
<1> QED
  BY <1>1, <1>2, <1>3, <1>4, <1>5, <1>6, <1>7, <1>8, <1>9 DEF Consume

-----------------------------------------------------------------------------
(* The types. *)

QueueStep ==
  \/ \E m \in Mails : SendMail(m) \/ Consume(m)
  \/ \E m \in Mails : Finished(m) /\ Forget(m)
  \/ QueueCrash
  \/ UNCHANGED queueVars

Reqs ==
  {NoReq}
    \cup [at : {"limit"}, url : Urls, address : {None}, seen : 0..Limit,
          code : {None}]
    \cup [at : {"user", "pass"}, url : {None}, address : Addresses,
          seen : {0}, code : {None}]
    \cup [at : {"mail", "login", "guard", "change"}, url : {None},
          address : Addresses, seen : {0}, code : Codes]

AuthTypeOK ==
  /\ account \in [Addresses -> {"none", "shown", "hidden"}]
  /\ code \in [Addresses -> Codes \cup {None}]
  /\ life \in [Addresses -> 0..FiveMinutes]
  /\ \A a \in Addresses : code[a] = None <=> life[a] = 0
  /\ req \in [Slots -> Reqs]
  /\ missed \subseteq Addresses
  /\ lost \subseteq Codes

LEMMA TypesSplit == TypeOK <=> LimitTypeOK /\ QueueTypeOK /\ AuthTypeOK
  BY DEF TypeOK, AuthTypeOK, Reqs

(* A request that waits at a step has what it needs there. *)
LEMMA ReqFields ==
  ASSUME AuthTypeOK, NEW s \in Slots
  PROVE  /\ At(s, "limit") => req[s].url \in Urls /\ req[s].seen \in 0..Limit
         /\ At(s, "user") \/ At(s, "pass") =>
              req[s].address \in Addresses /\ req[s].seen = 0
         /\ At(s, "mail") \/ At(s, "login") \/ At(s, "guard") \/ At(s, "change") =>
              /\ req[s].address \in Addresses
              /\ req[s].code \in Codes
              /\ req[s].seen = 0
<1>1. req[s] \in Reqs
  BY DEF AuthTypeOK
<1> QED
  BY <1>1 DEF At, Reqs, NoReq

LEMMA EndTyped ==
  ASSUME AuthTypeOK, NEW s \in Slots, End(s)
  PROVE  req' \in [Slots -> Reqs]
<1>1. NoReq \in Reqs
  BY DEF Reqs
<1> QED
  BY <1>1 DEF AuthTypeOK, End

LEMMA LimitSteps ==
  ASSUME LimitTypeOK, AuthTypeOK, [Next]_vars
  PROVE  LimitTypeOK'
<1> USE LimitAssumption DEF LimitTypeOK
<1>1. ASSUME NEW s \in Slots, Accept(s) PROVE LimitTypeOK'
  BY <1>1, ReqFields DEF Accept, Count, TooMany
<1>2. ASSUME Tick PROVE LimitTypeOK'
  BY <1>2 DEF Tick, LimitTick
<1>3. ASSUME UNCHANGED limitVars PROVE LimitTypeOK'
  BY <1>3 DEF limitVars
<1>4. (\E s \in Slots : Accept(s)) \/ Tick \/ UNCHANGED limitVars
  BY DEF Next, vars, limitVars, ReadCount, LoginUser, Authorize, Use, Handle, Refuse,
         FindByEmail, MailPassword, Authenticate, ChangeProfile, StorePassword,
         Fail, Register, Queue, Reuse, Crash
<1> QED
  BY <1>1, <1>2, <1>3, <1>4

(* A request that does anything to the queue mails a password of its own. *)
LEMMA QueueStepped ==
  ASSUME AuthTypeOK, [Next]_vars
  PROVE  QueueStep
<1>1. ASSUME NEW s \in Slots, MailPassword(s) PROVE QueueStep
  <2>1. req[s].code \in Mails
    BY <1>1, ReqFields DEF MailPassword, Codes
  <2> QED
    BY <1>1, <2>1 DEF MailPassword, QueueStep
<1>2. ASSUME NEW m \in Mails, Queue(m) \/ Reuse(m) PROVE QueueStep
  BY <1>2 DEF Queue, Reuse, QueueStep
<1>3. ASSUME Crash PROVE QueueStep
  BY <1>3 DEF Crash, QueueStep
<1>4. \/ \E s \in Slots : MailPassword(s)
      \/ \E m \in Mails : Queue(m) \/ Reuse(m)
      \/ Crash
      \/ UNCHANGED queueVars
  BY DEF Next, vars, queueVars, ReadCount, LoginUser, Authorize, Use, Handle, Refuse,
         Accept, FindByEmail, Authenticate, ChangeProfile, StorePassword, Fail,
         Register, Tick
<1> QED
  BY <1>1, <1>2, <1>3, <1>4 DEF QueueStep

(* Only these touch what AuthService keeps. *)
LEMMA AuthSteps ==
  ASSUME LimitTypeOK, QueueTypeOK, AuthTypeOK, [Next]_vars
  PROVE  AuthTypeOK'
<1> USE DEF AuthTypeOK
<1>1. ASSUME NEW s \in Slots, NEW u \in Urls, ReadCount(s, u)
      PROVE  AuthTypeOK'
  <2>1. [at |-> "limit", url |-> u, address |-> None, seen |-> count[u],
         code |-> None] \in Reqs
    BY DEF Reqs, LimitTypeOK
  <2> QED
    BY <1>1, <2>1 DEF ReadCount
<1>2. ASSUME NEW s \in Slots, NEW a \in Addresses, NEW c \in Codes,
             LoginUser(s, a, c) \/ Authorize(s, a, c)
      PROVE  AuthTypeOK'
  <2>1. PICK step \in {"login", "guard"} : Use(s, step, a, c)
    BY <1>2 DEF LoginUser, Authorize
  <2>2. [at |-> step, url |-> None, address |-> a, seen |-> 0, code |-> c]
          \in Reqs
    BY DEF Reqs
  <2> QED
    BY <2>1, <2>2 DEF Use
<1>3. ASSUME NEW s \in Slots, Refuse(s) PROVE AuthTypeOK'
  BY <1>3, EndTyped DEF Refuse
<1>4. ASSUME NEW s \in Slots, Accept(s) PROVE AuthTypeOK'
  <2>1. req[s] \in [at : {"limit"}, url : Urls, address : {None},
                    seen : 0..Limit, code : {None}]
    BY <1>4 DEF Accept, At, Reqs, NoReq
  <2>2. AddressOf[req[s].url] \in Addresses
    BY <2>1, AddressAssumption
  <2>3. [at |-> "user", url |-> None, address |-> AddressOf[req[s].url],
         seen |-> 0, code |-> None] \in Reqs
    BY <2>2 DEF Reqs
  <2>4. req'[s] = [at |-> "user", url |-> None,
                   address |-> AddressOf[req[s].url], seen |-> 0, code |-> None]
    BY <1>4, <2>1 DEF Accept
  <2>5. req' = [req EXCEPT ![s] = req'[s]]
    BY <1>4 DEF Accept
  <2> QED
    BY <1>4, <2>3, <2>4, <2>5 DEF Accept
<1>5. ASSUME NEW s \in Slots, FindByEmail(s) PROVE AuthTypeOK'
  <2>1. req[s] \in [at : {"user", "pass"}, url : {None}, address : Addresses,
                    seen : {0}, code : {None}]
    BY <1>5 DEF FindByEmail, At, Reqs, NoReq
  <2>2. [req[s] EXCEPT !.at = "pass"] \in Reqs
    BY <2>1 DEF Reqs
  <2>3. req' \in [Slots -> Reqs]
    BY <1>5, <2>2, EndTyped DEF FindByEmail, Go
  <2> QED
    BY <1>5, <2>1, <2>3 DEF FindByEmail
<1>6. ASSUME NEW s \in Slots, NEW c \in Codes, StorePassword(s, c)
      PROVE  AuthTypeOK'
  <2>1. req[s] \in [at : {"user", "pass"}, url : {None}, address : Addresses,
                    seen : {0}, code : {None}]
    BY <1>6 DEF StorePassword, At, Reqs, NoReq
  <2>2. [[req[s] EXCEPT !.at = "mail"] EXCEPT !.code = c] \in Reqs
    BY <2>1 DEF Reqs
  <2>3. req' = [req EXCEPT ![s] = [[req[s] EXCEPT !.at = "mail"] EXCEPT !.code = c]]
    BY <1>6 DEF StorePassword
  <2>4. c # None
    BY NoneAssumption DEF Codes
  <2> QED
    BY <1>6, <2>1, <2>2, <2>3, <2>4, LimitAssumption DEF StorePassword
<1>7. ASSUME NEW s \in Slots, MailPassword(s) PROVE AuthTypeOK'
  BY <1>7, EndTyped DEF MailPassword
<1>8. ASSUME NEW s \in Slots, Authenticate(s) PROVE AuthTypeOK'
  <2>1. req[s] \in [at : {"mail", "login", "guard", "change"}, url : {None},
                    address : Addresses, seen : {0}, code : Codes]
    BY <1>8 DEF Authenticate, At, Reqs, NoReq
  <2>2. [req[s] EXCEPT !.at = "change"] \in Reqs
    BY <2>1 DEF Reqs
  <2>3. req' \in [Slots -> Reqs]
    BY <1>8, <2>2, EndTyped DEF Authenticate, Go
  <2> QED
    BY <1>8, <2>3 DEF Authenticate
<1>9. ASSUME NEW s \in Slots, ChangeProfile(s) PROVE AuthTypeOK'
  BY <1>9, EndTyped, ReqFields DEF ChangeProfile
<1>10. ASSUME NEW a \in Addresses, Register(a) PROVE AuthTypeOK'
  BY <1>10 DEF Register
<1>11. ASSUME NEW m \in Mails, Queue(m) \/ Reuse(m) PROVE AuthTypeOK'
  BY <1>11 DEF Queue, Reuse, authVars, Codes
<1>12. ASSUME Tick PROVE AuthTypeOK'
  BY <1>12, NoneAssumption, LimitAssumption DEF Tick, Codes
<1>13. ASSUME NEW s \in Slots, Fail(s) PROVE AuthTypeOK'
  BY <1>13, EndTyped, ReqFields DEF Fail, MissedBy, LostBy, At
<1>14. ASSUME Crash PROVE AuthTypeOK'
  <2>1. NoReq \in Reqs
    BY DEF Reqs
  <2> QED
    BY <1>14, <2>1, ReqFields DEF Crash, MissedBy, LostBy, At, QueueTypeOK, Codes
<1>15. CASE UNCHANGED vars
  BY <1>15 DEF vars, authVars
<1> QED
  BY <1>1, <1>2, <1>3, <1>4, <1>5, <1>6, <1>7, <1>8, <1>9, <1>10, <1>11, <1>12,
     <1>13, <1>14, <1>15 DEF Next, Handle

Typed == LimitTypeOK /\ QueueInv /\ AuthTypeOK

LEMMA TypedInit == Init => Typed
  BY QueueInitInv, LimitAssumption
     DEF Init, Typed, LimitInit, LimitTypeOK, AuthTypeOK, Reqs

LEMMA TypedStep == Typed /\ [Next]_vars => Typed'
<1> SUFFICES ASSUME Typed, [Next]_vars PROVE Typed'
  OBVIOUS
<1> USE DEF Typed
<1>1. QueueTypeOK
  BY DEF QueueInv
<1>2. QueueInv'
  BY QueueStepped, QueueSteps DEF QueueStep
<1> QED
  BY <1>1, <1>2, LimitSteps, AuthSteps

(* Every variable keeps to its values. *)
THEOREM TypeCorrect == Spec => []TypeOK
<1>1. Typed => TypeOK
  BY TypesSplit DEF Typed, QueueInv
<1> QED
  BY <1>1, TypedInit, TypedStep, PTL DEF Spec

(* A mail is delivered once, and once more for each time the process died  *)
(* with its job in hand (queue.consumer.ts:14-16).                         *)
THEOREM DeliveredOnce == Spec => []TwiceOnlyAfterCrash
<1>1. Typed => TwiceOnlyAfterCrash
  BY DEF Typed, QueueInv, QueueTypeOK, TwiceOnlyAfterCrash
<1> QED
  BY <1>1, TypedInit, TypedStep, PTL DEF Spec

-----------------------------------------------------------------------------
(* Whoever is refused has a password.  A number is stored with a lifetime  *)
(* by a request that is then behind the limiter, stays there until its     *)
(* password is stored for as long, and is in `missed` if it ends before.   *)

LEMMA LimitedStep ==
  Typed /\ LimitedHasPassword /\ [Next]_vars => LimitedHasPassword'
<1> SUFFICES ASSUME Typed, LimitedHasPassword, [Next]_vars,
                    NEW u \in Urls, window'[u] > 0,
                    NEW b \in Addresses, b = AddressOf[u]
             PROVE  life'[b] >= window'[u] \/ Behind(b)' \/ b \in missed'
  BY AddressAssumption DEF LimitedHasPassword, Behind
<1> USE DEF Typed, LimitTypeOK, AuthTypeOK
<1> DEFINE Safe == life'[b] >= window'[u] \/ Behind(b)' \/ b \in missed'
<1>1. ASSUME UNCHANGED limitVars, UNCHANGED <<code, life, missed>>,
             Behind(b) => Behind(b)'
      PROVE  Safe
  BY <1>1 DEF LimitedHasPassword, limitVars
<1>2. ASSUME NEW s \in Slots, Accept(s) PROVE Safe
  <2>1. CASE u = req[s].url
    <3>1. req'[s].at = "user" /\ req'[s].address = b
      BY <1>2, <2>1 DEF Accept
    <3> QED
      BY <3>1 DEF Behind
  <2>2. CASE u # req[s].url
    <3>1. window'[u] = window[u] /\ UNCHANGED <<life, missed>>
      BY <1>2, <2>2 DEF Accept, Count
    <3>2. Behind(b) => Behind(b)'
      BY <1>2 DEF Accept, Behind, At
    <3> QED
      BY <3>1, <3>2 DEF LimitedHasPassword
  <2> QED
    BY <2>1, <2>2
<1>3. ASSUME NEW s \in Slots, FindByEmail(s) PROVE Safe
  <2>1. CASE account[req[s].address] = "shown"
    <3>1. req[s] \in [at : {"user", "pass"}, url : {None}, address : Addresses,
                      seen : {0}, code : {None}]
      BY <1>3 DEF FindByEmail, At, Reqs, NoReq
    <3>2. /\ req' = [req EXCEPT ![s] = req'[s]]
          /\ req'[s].at = "pass" /\ req'[s].address = req[s].address
      BY <1>3, <2>1, <3>1 DEF FindByEmail, Go
    <3>3. Behind(b) => Behind(b)'
      BY <3>2 DEF Behind
    <3> QED
      BY <1>3, <2>1, <3>3 DEF FindByEmail, limitVars, LimitedHasPassword
  <2>2. CASE account[req[s].address] # "shown"
    <3>1. Behind(b) => Behind(b)' \/ b = req[s].address
      BY <1>3, <2>2 DEF FindByEmail, End, Behind, At
    <3> QED
      BY <1>3, <2>2, <3>1 DEF FindByEmail, limitVars, LimitedHasPassword
  <2> QED
    BY <2>1, <2>2
<1>4. ASSUME NEW s \in Slots, NEW c \in Codes, StorePassword(s, c) PROVE Safe
  <2>1. CASE b = req[s].address
    <3>1. life'[b] = FiveMinutes /\ window'[u] \in 0..FiveMinutes
      BY <1>4, <2>1 DEF StorePassword, limitVars
    <3> QED
      BY <3>1, LimitAssumption
  <2>2. CASE b # req[s].address
    <3>1. Behind(b) => Behind(b)'
      BY <1>4, <2>2 DEF StorePassword, Behind, At
    <3> QED
      BY <1>4, <2>2, <3>1 DEF StorePassword, limitVars, LimitedHasPassword
  <2> QED
    BY <2>1, <2>2
<1>5. ASSUME Tick PROVE Safe
  <2>1. Behind(b) => Behind(b)'
    BY <1>5 DEF Tick, Behind
  <2>2. window[u] > 0 /\ window'[u] = window[u] - 1
    BY <1>5 DEF Tick, LimitTick
  <2>3. life[b] >= window[u] => life'[b] >= window'[u]
    BY <1>5, <2>2 DEF Tick
  <2> QED
    BY <1>5, <2>1, <2>2, <2>3 DEF Tick, LimitedHasPassword
<1>6. ASSUME NEW s \in Slots, Fail(s) PROVE Safe
  <2>1. Behind(b) => Behind(b)' \/ b \in missed'
    BY <1>6 DEF Fail, End, MissedBy, Behind
  <2> QED
    BY <1>6, <2>1 DEF Fail, MissedBy, limitVars, LimitedHasPassword
<1>7. ASSUME Crash PROVE Safe
  <2>1. Behind(b) => b \in missed'
    BY <1>7 DEF Crash, MissedBy, Behind
  <2> QED
    BY <1>7, <2>1 DEF Crash, MissedBy, limitVars, LimitedHasPassword
<1>8. ASSUME NEW s \in Slots,
             Refuse(s) \/ MailPassword(s) \/ Authenticate(s) \/ ChangeProfile(s)
      PROVE  Safe
  <2>1. Behind(b) => Behind(b)'
    BY <1>8 DEF Refuse, MailPassword, Authenticate, ChangeProfile, End, Go, Behind, At
  <2> QED
    BY <1>8, <2>1, <1>1
       DEF Refuse, MailPassword, Authenticate, ChangeProfile, limitVars
<1>9. ASSUME NEW s \in Slots, NEW v \in Urls, ReadCount(s, v) PROVE Safe
  <2>1. Behind(b) => Behind(b)'
    BY <1>9 DEF ReadCount, Behind, At
  <2> QED
    BY <1>9, <2>1, <1>1 DEF ReadCount
<1>10. ASSUME NEW s \in Slots, NEW a \in Addresses, NEW c \in Codes,
              LoginUser(s, a, c) \/ Authorize(s, a, c)
       PROVE  Safe
  <2>1. Behind(b) => Behind(b)'
    BY <1>10 DEF LoginUser, Authorize, Use, Behind, At
  <2> QED
    BY <1>10, <2>1, <1>1 DEF LoginUser, Authorize, Use
<1>11. ASSUME UNCHANGED <<limitVars, code, life, req, missed>> PROVE Safe
  BY <1>11, <1>1 DEF Behind
<1>12. \/ \E s \in Slots :
            \/ Accept(s) \/ FindByEmail(s) \/ Fail(s)
            \/ Refuse(s) \/ MailPassword(s) \/ Authenticate(s) \/ ChangeProfile(s)
            \/ \E c \in Codes : StorePassword(s, c)
            \/ \E v \in Urls : ReadCount(s, v)
            \/ \E a \in Addresses, c \in Codes : LoginUser(s, a, c) \/ Authorize(s, a, c)
       \/ Tick \/ Crash
       \/ UNCHANGED <<limitVars, code, life, req, missed>>
  BY DEF Next, Handle, Register, Queue, Reuse, vars, authVars
<1> QED
  BY <1>2, <1>3, <1>4, <1>5, <1>6, <1>7, <1>8, <1>9, <1>10, <1>11, <1>12

(* The limiter locks nobody out (limit-requests.guard.ts:25,               *)
(* auth.service.ts:43).                                                    *)
THEOREM NobodyLockedOut == Spec => []LimitedHasPassword
<1>1. Init => LimitedHasPassword
  BY DEF Init, LimitInit, LimitedHasPassword
<1> QED
  BY <1>1, TypedInit, TypedStep, LimitedStep, PTL DEF Spec

-----------------------------------------------------------------------------
(* A stored password is in a mail.  A job that has been given out has had  *)
(* its mail sent, lost or delivered: this is what the consumer's return,   *)
(* before the sending is over, could break.                                *)

Sent(m) == m \in sending \cup lost \/ inbox[m] > 0

Traced ==
  \A m \in Mails :
    job[m] \in {"active", "stalled", "completed", "failed"} => Sent(m)

Queued(c) == \E s \in Slots : At(s, "mail") /\ req[s].code = c

Followed(c) == Queued(c) \/ job[c] \in {"delayed", "stalled"} \/ Sent(c)

LEMMA FollowedIsMailed ==
  PasswordIsMailed <=> \A a \in Addresses : code[a] # None => Followed(code[a])
  BY DEF PasswordIsMailed, Followed, Queued, Sent

(* A step takes no mail off its way, except that a password nobody has     *)
(* stored is forgotten and drawn again.                                    *)
LEMMA TracedStep ==
  ASSUME Typed, Traced, [Next]_vars
  PROVE  /\ Traced'
         /\ \A c \in Mails :
              Followed(c) =>
                \/ Followed(c)'
                \/ Free(c) /\ \E s \in Slots : StorePassword(s, c)
                \/ Reuse(c)
<1> USE DEF Typed, QueueInv, QueueTypeOK, AuthTypeOK
<1> DEFINE Kept(c) ==
      Followed(c) => \/ Followed(c)'
                     \/ Free(c) /\ \E s \in Slots : StorePassword(s, c)
                     \/ Reuse(c)
<1>1. ASSUME UNCHANGED queueVars, lost \subseteq lost',
             \A c \in Mails : Queued(c) => Queued(c)' \/ c \in lost'
      PROVE  Traced' /\ \A c \in Mails : Kept(c)
  BY <1>1 DEF Traced, Followed, Sent, queueVars
<1>2. ASSUME NEW m \in Mails, Queue(m) PROVE Traced' /\ \A c \in Mails : Kept(c)
  <2>1. \A c \in Mails : Queued(c)' <=> Queued(c)
    BY <1>2 DEF Queue, authVars, Queued, At
  <2>2. CASE Reject(m)
    BY <1>2, <2>1, <2>2 DEF Queue, Reject, Traced, Followed, Sent
  <2>3. CASE MailJob(m) \/ Complete(m) \/ Recover(m)
    BY <1>2, <2>1, <2>3 DEF Queue, MailJob, Complete, Recover, Traced, Followed, Sent
  <2>4. CASE Deliver(m)
    BY <1>2, <2>1, <2>4 DEF Queue, Deliver, Traced, Followed, Sent
  <2> QED
    BY <1>2, <2>2, <2>3, <2>4 DEF Queue, Consume
<1>3. ASSUME NEW m \in Mails, Reuse(m) PROVE Traced' /\ \A c \in Mails : Kept(c)
  <2>1. \A c \in Mails : Queued(c)' <=> Queued(c)
    BY <1>3 DEF Reuse, authVars, Queued, At
  <2>2. \A c \in Mails \ {m} : Kept(c)
    BY <1>3, <2>1 DEF Reuse, Forget, Followed, Sent
  <2>3. Traced'
    BY <1>3 DEF Reuse, Forget, Traced, Sent
  <2> QED
    BY <1>3, <2>2, <2>3
<1>4. ASSUME Crash PROVE Traced' /\ \A c \in Mails : Kept(c)
  <2>1. \A c \in Mails : Queued(c) \/ c \in sending \/ c \in lost => c \in lost'
    BY <1>4 DEF Crash, LostBy, Queued, At
  <2> QED
    BY <1>4, <2>1 DEF Crash, QueueCrash, Traced, Followed, Sent
<1>5. ASSUME NEW s \in Slots, MailPassword(s)
      PROVE  Traced' /\ \A c \in Mails : Kept(c)
  <2>1. req[s].code \in Mails
    BY <1>5, ReqFields DEF MailPassword, Codes
  <2>2. \A c \in Mails \ {req[s].code} : Queued(c) => Queued(c)'
    BY <1>5 DEF MailPassword, End, Queued, At
  <2> QED
    BY <1>5, <2>1, <2>2 DEF MailPassword, SendMail, Traced, Followed, Sent
<1>6. ASSUME NEW s \in Slots, NEW d \in Codes, StorePassword(s, d)
      PROVE  Traced' /\ \A c \in Mails : Kept(c)
  <2>1. Free(d) /\ job[d] = "none"
    BY <1>6 DEF StorePassword, Free
  <2>2. \A c \in Mails \ {d} : Queued(c) => Queued(c)'
    BY <1>6 DEF StorePassword, Queued, At
  <2>3. UNCHANGED queueVars /\ lost' = lost \ {d}
    BY <1>6 DEF StorePassword
  <2> QED
    BY <1>6, <2>1, <2>2, <2>3 DEF Traced, Followed, Sent, queueVars, Codes
<1>7. ASSUME NEW s \in Slots, Fail(s) PROVE Traced' /\ \A c \in Mails : Kept(c)
  <2>1. \A c \in Mails : Queued(c) => Queued(c)' \/ c \in lost'
    BY <1>7 DEF Fail, End, LostBy, Queued, At
  <2> QED
    BY <1>1, <1>7, <2>1 DEF Fail, LostBy
<1>8. ASSUME NEW s \in Slots,
             \/ Refuse(s) \/ Accept(s) \/ FindByEmail(s)
             \/ Authenticate(s) \/ ChangeProfile(s)
             \/ \E v \in Urls : ReadCount(s, v)
             \/ \E a \in Addresses, c \in Codes : LoginUser(s, a, c) \/ Authorize(s, a, c)
      PROVE  Traced' /\ \A c \in Mails : Kept(c)
  <2>1. ~At(s, "mail") /\ \A t \in Slots \ {s} : req'[t] = req[t]
    BY <1>8 DEF Refuse, Accept, FindByEmail, Authenticate, ChangeProfile, ReadCount,
                LoginUser, Authorize, Use, End, Go, At
  <2>2. \A c \in Mails : Queued(c) => Queued(c)'
    BY <2>1 DEF Queued, At
  <2> QED
    BY <1>1, <1>8, <2>2
       DEF Refuse, Accept, FindByEmail, Authenticate, ChangeProfile, ReadCount,
           LoginUser, Authorize, Use
<1>9. ASSUME UNCHANGED <<queueVars, req, lost>>
      PROVE  Traced' /\ \A c \in Mails : Kept(c)
  BY <1>1, <1>9 DEF Queued, At
<1> QED
  BY <1>2, <1>3, <1>4, <1>5, <1>6, <1>7, <1>8, <1>9
     DEF Next, Handle, Register, Tick, vars, authVars

LEMMA MailedStep ==
  Typed /\ Traced /\ PasswordIsMailed /\ [Next]_vars => PasswordIsMailed'
<1> SUFFICES ASSUME Typed, Traced, [Next]_vars,
                    \A a \in Addresses : code[a] # None => Followed(code[a]),
                    NEW b \in Addresses, NEW d, d = code'[b], d # None
             PROVE  Followed(d)'
  BY FollowedIsMailed DEF PasswordIsMailed, Followed, Queued, Sent
<1> USE DEF Typed, AuthTypeOK, Codes
<1>1. CASE \E s \in Slots, c \in Codes : StorePassword(s, c)
  <2> PICK s \in Slots, c \in Codes : StorePassword(s, c)
    BY <1>1
  <2>1. req[s] \in [at : {"user", "pass"}, url : {None}, address : Addresses,
                    seen : {0}, code : {None}]
    BY DEF StorePassword, At, Reqs, NoReq
  <2>2. Queued(c)'
    BY <2>1 DEF StorePassword, Queued, At
  <2>3. CASE b = req[s].address
    BY <2>2, <2>3 DEF StorePassword, Followed
  <2>4. CASE b # req[s].address
    <3>1. d = code[b] /\ d # c /\ d \in Mails
      BY <2>4 DEF StorePassword, Free
    <3>2. Queued(d) => Queued(d)'
      BY <2>1 DEF StorePassword, Queued, At
    <3> QED
      BY <3>1, <3>2 DEF StorePassword, Followed, Sent, queueVars
  <2> QED
    BY <2>3, <2>4
<1>2. CASE ~\E s \in Slots, c \in Codes : StorePassword(s, c)
  <2>1. d = code[b]
    BY <1>2 DEF Next, Handle, ReadCount, LoginUser, Authorize, Use, Refuse, Accept,
                FindByEmail, MailPassword, Authenticate, ChangeProfile, Fail, Register,
                Queue, Reuse, Tick, Crash, vars, authVars
  <2>2. d \in Mails /\ Followed(d)
    BY <2>1
  <2>3. ~Reuse(d)
    BY <2>1 DEF Reuse
  <2> QED
    BY <1>2, <2>1, <2>2, <2>3, TracedStep
<1> QED
  BY <1>1, <1>2

(* A password that is stored is in a mail, whatever requests replace it    *)
(* and wherever they fail (auth.service.ts:43-53, queue.consumer.ts:15).   *)
THEOREM StoredIsMailed == Spec => []PasswordIsMailed
<1>1. Init => Traced /\ PasswordIsMailed
  BY DEF Init, QueueInit, Traced, PasswordIsMailed
<1>2. Typed /\ Traced /\ [Next]_vars => Traced'
  BY TracedStep
<1> QED
  BY <1>1, <1>2, TypedInit, TypedStep, MailedStep, PTL DEF Spec

-----------------------------------------------------------------------------
(* What a step may not do. *)

(* Only a request that is let through starts the five minutes anew         *)
(* (limit-requests.guard.ts:21-25).                                        *)
THEOREM RefusalsDoNotCount == Spec => RefusalsEnd
<1>1. Typed /\ [Next]_vars =>
        [\A u \in Urls :
           window'[u] > window[u] => accepted'[u] > accepted[u]]_vars
  <2> SUFFICES ASSUME Typed, Next, NEW u \in Urls, window'[u] > window[u]
               PROVE  accepted'[u] > accepted[u]
    OBVIOUS
  <2> USE DEF Typed, LimitTypeOK
  <2>1. ASSUME NEW s \in Slots, Accept(s) PROVE accepted'[u] > accepted[u]
    BY <2>1, LimitAssumption DEF Accept, Count
  <2>2. ASSUME Tick PROVE FALSE
    BY <2>2 DEF Tick, LimitTick
  <2>3. (\E s \in Slots : Accept(s)) \/ Tick \/ UNCHANGED limitVars
    BY DEF Next, Handle, ReadCount, LoginUser, Authorize, Use, Refuse, FindByEmail,
           StorePassword, MailPassword, Authenticate, ChangeProfile, Fail, Register,
           Queue, Reuse, Crash
  <2> QED
    BY <2>1, <2>2, <2>3 DEF limitVars
<1> QED
  BY <1>1, TypedInit, TypedStep, PTL DEF Spec, RefusalsEnd
-----------------------------------------------------------------------------
(* How many the limiter lets through.  Requests that overlap put the       *)
(* number back, but never all at once: the profile of a url moves on with  *)
(* each request that is let through, and never moves back.                 *)

Levels == 0 .. Limit - 1

(* The requests that will store at most x + 1, if let through. *)
Held(u, x) ==
  {s \in Slots : At(s, "limit") /\ req[s].url = u /\ req[s].seen <= x}

(* From the number up, a request may still read it. *)
Profile(u) ==
  [x \in Levels |-> IF x < count[u] THEN Cardinality(Held(u, x))
                                    ELSE Cardinality(Slots)]

AllProfiles == Profiles(Cardinality(Slots), Limit)

(* g comes before h: where they differ first, g is the larger. *)
Before(g, h) ==
  \E x \in Levels : h[x] < g[x] /\ \A y \in 0 .. x - 1 : h[y] <= g[y]

Earlier(h) == {g \in AllProfiles : Before(g, h)}

MovesOn == \A u \in Urls : accepted[u] <= Cardinality(Earlier(Profile(u)))

Numbers == 0 .. Cardinality(Slots)

LEMMA SlotsCounted ==
  /\ Cardinality(Slots) \in Nat
  /\ \A S \in SUBSET Slots : Cardinality(S) \in Numbers
  /\ \A S, T \in SUBSET Slots :
       S \subseteq T => Cardinality(S) <= Cardinality(T)
  /\ \A S, T \in SUBSET Slots :
       S \subseteq T /\ S # T => Cardinality(S) < Cardinality(T)
<1>1. Cardinality(Slots) \in Nat
  BY SlotsAssumption, FS_CardinalityType
<1>2. \A S \in SUBSET Slots :
        /\ IsFiniteSet(S)
        /\ Cardinality(S) \in Nat
        /\ Cardinality(S) <= Cardinality(Slots)
  BY SlotsAssumption, FS_Subset, FS_CardinalityType
<1>3. ASSUME NEW T \in SUBSET Slots, NEW S \in SUBSET T
      PROVE  /\ Cardinality(S) <= Cardinality(T)
             /\ Cardinality(S) = Cardinality(T) => S = T
  <2>1. IsFiniteSet(T)
    BY <1>2
  <2> QED
    BY <2>1, FS_Subset
<1>4. \A S \in SUBSET Slots : Cardinality(S) \in Numbers
  BY <1>1, <1>2 DEF Numbers
<1>5. \A S, T \in SUBSET Slots :
        S \subseteq T => Cardinality(S) <= Cardinality(T)
  BY <1>3
<1>6. ASSUME NEW T \in SUBSET Slots, NEW S \in SUBSET T, S # T
      PROVE  Cardinality(S) < Cardinality(T)
  <2>1. Cardinality(S) \in Nat /\ Cardinality(T) \in Nat
    BY <1>2
  <2> QED
    BY <1>3, <1>6, <2>1
<1> QED
  BY <1>1, <1>4, <1>5, <1>6

(* There are finitely many profiles: each is told by its pairs. *)
LEMMA ProfilesAreFinite ==
  ASSUME NEW n \in Nat, NEW k \in Nat
  PROVE  IsFiniteSet(Profiles(n, k))
<1> DEFINE D == 0 .. k - 1
           V == 0 .. n
           Pairs(h) == {<<x, h[x]>> : x \in D}
           f == [h \in Profiles(n, k) |-> Pairs(h)]
<1>1. IsFiniteSet(SUBSET (D \X V))
  <2>1. IsFiniteSet(D) /\ IsFiniteSet(V)
    BY FS_Interval
  <2> QED
    BY <2>1, FS_Product, FS_SUBSET
<1>2. \A h \in Profiles(n, k) : h \in [D -> V]
  BY DEF Profiles
<1>3. f \in [Profiles(n, k) -> SUBSET (D \X V)]
  BY <1>2
<1>4. ASSUME NEW g \in Profiles(n, k), NEW h \in Profiles(n, k),
             Pairs(g) = Pairs(h)
      PROVE  g = h
  <2>1. ASSUME NEW x \in D PROVE g[x] = h[x]
    <3>1. <<x, g[x]>> \in Pairs(h)
      BY <1>4
    <3> QED
      BY <3>1
  <2> QED
    BY <1>2, <2>1
<1>5. f \in Injection(Profiles(n, k), SUBSET (D \X V))
  BY <1>3, <1>4 DEF Injection, IsInjective
<1> QED
  BY <1>1, <1>5, FS_Injection

LEMMA ProfilesFinite == IsFiniteSet(AllProfiles)
<1>1. Cardinality(Slots) \in Nat /\ Limit \in Nat
  BY SlotsCounted, LimitAssumption
<1> QED
  BY <1>1, ProfilesAreFinite DEF AllProfiles

LEMMA ProfileValues ==
  ASSUME NEW h \in AllProfiles, NEW x \in Levels
  PROVE  h[x] \in Nat
  BY SlotsCounted DEF AllProfiles, Profiles, Levels

LEMMA BeforeTransitive ==
  ASSUME NEW f \in AllProfiles, NEW g \in AllProfiles, NEW h \in AllProfiles,
         Before(f, g), Before(g, h)
  PROVE  Before(f, h)
<1>1. PICK x \in Levels : g[x] < f[x] /\ \A y \in 0 .. x - 1 : g[y] <= f[y]
  BY DEF Before
<1>2. PICK z \in Levels : h[z] < g[z] /\ \A y \in 0 .. z - 1 : h[y] <= g[y]
  BY DEF Before
<1>3. \A y \in Levels : f[y] \in Nat /\ g[y] \in Nat /\ h[y] \in Nat
  BY ProfileValues
<1>4. \A y \in Levels : y \in Nat /\ 0 .. y - 1 \subseteq Levels
  BY LimitAssumption DEF Levels
<1>5. CASE x <= z
  <2>1. h[x] <= g[x]
    BY <1>2, <1>3, <1>4, <1>5
  <2>2. h[x] < f[x]
    BY <1>1, <1>3, <2>1
  <2>3. \A y \in 0 .. x - 1 : h[y] <= f[y]
    BY <1>1, <1>2, <1>3, <1>4, <1>5
  <2> QED
    BY <2>2, <2>3 DEF Before
<1>6. CASE z < x
  <2>1. h[z] < f[z]
    BY <1>1, <1>2, <1>3, <1>4, <1>6
  <2>2. \A y \in 0 .. z - 1 : h[y] <= f[y]
    BY <1>1, <1>2, <1>3, <1>4, <1>6
  <2> QED
    BY <2>1, <2>2 DEF Before
<1> QED
  BY <1>4, <1>5, <1>6

LEMMA EarlierFinite ==
  ASSUME NEW h
  PROVE  IsFiniteSet(Earlier(h)) /\ Cardinality(Earlier(h)) \in Nat
  BY ProfilesFinite, FS_Subset, FS_CardinalityType DEF Earlier

LEMMA NotBeforeItself ==
  ASSUME NEW h \in AllProfiles
  PROVE  h \notin Earlier(h)
  BY ProfileValues DEF Earlier, Before

(* A later profile has more before it. *)
LEMMA EarlierGrows ==
  ASSUME NEW g \in AllProfiles, NEW h \in AllProfiles, Before(g, h)
  PROVE  Cardinality(Earlier(g)) + 1 <= Cardinality(Earlier(h))
<1>1. Earlier(g) \cup {g} \subseteq Earlier(h)
  BY BeforeTransitive DEF Earlier
<1>2. Cardinality(Earlier(g) \cup {g}) = Cardinality(Earlier(g)) + 1
  BY EarlierFinite, NotBeforeItself, FS_AddElement
<1> QED
  BY <1>1, <1>2, EarlierFinite, FS_Subset

(* One that is nowhere larger has no fewer. *)
LEMMA EarlierKept ==
  ASSUME NEW g \in AllProfiles, NEW h \in AllProfiles,
         \A x \in Levels : h[x] <= g[x]
  PROVE  Cardinality(Earlier(g)) <= Cardinality(Earlier(h))
<1>1. CASE g = h
  BY <1>1, EarlierFinite
<1>2. CASE g # h
  <2>1. g \in [Levels -> Numbers] /\ h \in [Levels -> Numbers]
    BY DEF AllProfiles, Profiles, Levels, Numbers
  <2>2. PICK x \in Levels : h[x] # g[x]
    BY <1>2, <2>1
  <2>3. h[x] < g[x]
    BY <2>2, ProfileValues
  <2>4. 0 .. x - 1 \subseteq Levels
    BY LimitAssumption DEF Levels
  <2>5. Before(g, h)
    BY <2>3, <2>4 DEF Before
  <2> QED
    BY <2>5, EarlierGrows, EarlierFinite
<1> QED
  BY <1>1, <1>2

(* All but the profile itself can come before it. *)
LEMMA EarlierBounded ==
  ASSUME NEW h \in AllProfiles
  PROVE  Cardinality(Earlier(h)) <= MostAccepted
<1>1. Earlier(h) \subseteq AllProfiles \ {h}
  BY NotBeforeItself DEF Earlier
<1>2. /\ IsFiniteSet(AllProfiles \ {h})
      /\ Cardinality(AllProfiles \ {h}) = Cardinality(AllProfiles) - 1
  BY ProfilesFinite, FS_RemoveElement
<1> QED
  BY <1>1, <1>2, FS_Subset DEF MostAccepted, Burst, AllProfiles

LEMMA ProfileTyped == Typed => \A u \in Urls : Profile(u) \in AllProfiles
<1> SUFFICES ASSUME Typed, NEW u \in Urls
             PROVE  Profile(u) \in AllProfiles
  OBVIOUS
<1>1. \A x : Held(u, x) \in SUBSET Slots
  BY DEF Held
<1>2. ASSUME NEW x \in Levels PROVE Profile(u)[x] \in Numbers
  BY <1>1, SlotsCounted DEF Profile, Numbers
<1>3. ASSUME NEW x \in Levels, NEW y \in Levels, x <= y
      PROVE  Profile(u)[x] <= Profile(u)[y]
  <2>1. Held(u, x) \subseteq Held(u, y)
    BY <1>3, ReqFields DEF Held, Levels, Typed
  <2>2. count[u] \in Nat
    BY DEF Typed, LimitTypeOK
  <2> QED
    BY <1>1, <1>3, <2>1, <2>2, SlotsCounted, LimitAssumption
       DEF Profile, Levels, Numbers
<1> QED
  BY <1>2, <1>3 DEF AllProfiles, Profiles, Levels, Numbers, Profile

LEMMA ProfileTypedNext ==
  Typed /\ [Next]_vars =>
    \A u \in Urls : Profile(u) \in AllProfiles /\ Profile(u)' \in AllProfiles
<1>1. Typed' => (\A u \in Urls : Profile(u) \in AllProfiles)'
  BY ProfileTyped, PTL
<1>2. (\A u \in Urls : Profile(u) \in AllProfiles)'
        => \A u \in Urls : Profile(u)' \in AllProfiles
  BY DEF AllProfiles, Profiles
<1> QED
  BY <1>1, <1>2, ProfileTyped, TypedStep

(* A request that is let through leaves the ones that could use the room   *)
(* it leaves at one fewer.                                                 *)
LEMMA AcceptMovesOn ==
  ASSUME Typed, [Next]_vars, NEW s \in Slots, Accept(s), NEW u \in Urls,
         u = req[s].url
  PROVE  Before(Profile(u), Profile(u)')
<1>1. PICK v \in 0 .. Limit - 1 : v = req[s].seen
  BY ReqFields, LimitAssumption DEF Typed, Accept, TooMany
<1> count[u] \in 0 .. Limit /\ Limit \in Nat
  BY LimitAssumption DEF Typed, LimitTypeOK
<1>2. count'[u] = v + 1
  BY <1>1 DEF Typed, LimitTypeOK, Accept, Count
<1>3. \A x : /\ Held(u, x)' = Held(u, x) \ {s}
             /\ Held(u, x) \in SUBSET Slots
  BY DEF Accept, Held, At, Typed, AuthTypeOK
<1>4. \A x : /\ Held(u, x)' \in SUBSET Slots
             /\ Cardinality(Held(u, x)') <= Cardinality(Held(u, x))
             /\ Cardinality(Held(u, x)') < Cardinality(Slots)
             /\ Cardinality(Held(u, x)) \in Nat
             /\ Cardinality(Held(u, x)') \in Nat
  <2>1. \A x : /\ Held(u, x)' \in SUBSET Slots
               /\ Held(u, x)' \subseteq Held(u, x)
               /\ Held(u, x)' # Slots
    BY <1>3
  <2> QED
    BY <1>3, <2>1, SlotsCounted DEF Numbers
<1>5. \A x \in Levels :
        /\ Profile(u)[x] = IF x < count[u] THEN Cardinality(Held(u, x))
                                           ELSE Cardinality(Slots)
        /\ x <= v => Profile(u)'[x] = Cardinality(Held(u, x)')
  BY <1>1, <1>2 DEF Profile, Levels
<1>6. CASE v < count[u]
  <2>1. s \in Held(u, v)
    BY <1>1 DEF Accept, Held
  <2>2. Held(u, v)' \subseteq Held(u, v) /\ Held(u, v)' # Held(u, v)
    BY <1>3, <2>1
  <2>3. Cardinality(Held(u, v)') < Cardinality(Held(u, v))
    BY <1>3, <1>4, <2>2, SlotsCounted
  <2>4. Profile(u)'[v] < Profile(u)[v]
    BY <1>1, <1>5, <1>6, <2>3 DEF Levels
  <2>5. \A y \in 0 .. v - 1 : Profile(u)'[y] <= Profile(u)[y]
    BY <1>1, <1>4, <1>5, <1>6 DEF Levels
  <2> QED
    BY <1>1, <2>4, <2>5 DEF Before, Levels
<1>7. CASE count[u] <= v
  <2>1. Profile(u)'[count[u]] < Profile(u)[count[u]]
    BY <1>1, <1>4, <1>5, <1>7 DEF Levels
  <2>2. \A y \in 0 .. count[u] - 1 : Profile(u)'[y] <= Profile(u)[y]
    BY <1>1, <1>4, <1>5, <1>7 DEF Levels
  <2> QED
    BY <1>1, <1>7, <2>1, <2>2 DEF Before, Levels
<1> QED
  BY <1>1, <1>6, <1>7

(* Whatever a request does, it does not wait at the limiter after it, and  *)
(* it leaves the others where they are.                                    *)
LEMMA WaitsElsewhere ==
  ASSUME AuthTypeOK, NEW s \in Slots,
         \/ Handle(s) \/ Fail(s)
         \/ \E a \in Addresses, c \in Codes :
              LoginUser(s, a, c) \/ Authorize(s, a, c)
  PROVE  /\ ~At(s, "limit")'
         /\ \A t \in Slots : t # s => req'[t] = req[t]
<1> USE DEF AuthTypeOK
<1>1. req[s] \in Reqs
  OBVIOUS
<1>2. ~At(s, "limit")'
  BY <1>1 DEF Handle, Refuse, Accept, FindByEmail, MailPassword, Authenticate,
              ChangeProfile, StorePassword, Fail, LoginUser, Authorize, Use, End, Go,
              At, NoReq, Reqs
<1>3. \A t \in Slots : t # s => req'[t] = req[t]
  BY DEF Handle, Refuse, Accept, FindByEmail, MailPassword, Authenticate,
         ChangeProfile, StorePassword, Fail, LoginUser, Authorize, Use, End, Go
<1> QED
  BY <1>2, <1>3

(* Every other step leaves the number, and nobody holds it back further:   *)
(* who reads it now holds the number as it is.                             *)
LEMMA OthersKeepProfile ==
  ASSUME Typed, [Next]_vars, NEW u \in Urls,
         count'[u] = count[u],
         ~\E s \in Slots : Accept(s) /\ req[s].url = u
  PROVE  \A x \in Levels : Profile(u)'[x] <= Profile(u)[x]
<1>1. ASSUME NEW x \in Levels, x < count[u]
      PROVE  Held(u, x)' \subseteq Held(u, x)
  <2> SUFFICES ASSUME NEW t \in Slots, At(t, "limit")', req'[t].url = u,
                      req'[t].seen <= x
               PROVE  At(t, "limit") /\ req[t].url = u /\ req[t].seen <= x
    BY DEF Held
  <2> USE DEF Typed, AuthTypeOK
  <2>1. ASSUME NEW s \in Slots, NEW v \in Urls, ReadCount(s, v)
        PROVE  req'[t] = req[t]
    <3>1. t = s => req'[t].url = v /\ req'[t].seen = count[v]
      BY <2>1 DEF ReadCount
    <3>2. count[u] \in Nat /\ x \in Nat
      BY DEF LimitTypeOK, Levels
    <3>3. t # s
      BY <1>1, <3>1, <3>2
    <3> QED
      BY <2>1, <3>3 DEF ReadCount
  <2>2. ASSUME NEW s \in Slots,
               \/ Handle(s) \/ Fail(s)
               \/ \E b \in Addresses, c \in Codes :
                    LoginUser(s, b, c) \/ Authorize(s, b, c)
        PROVE  req'[t] = req[t]
    BY <2>2, WaitsElsewhere DEF At
  <2>3. ASSUME UNCHANGED req PROVE req'[t] = req[t]
    BY <2>3
  <2>4. ~Crash
    BY DEF Crash, At, NoReq
  <2>5. req'[t] = req[t]
    BY <2>1, <2>2, <2>3, <2>4
       DEF Next, Register, Queue, Reuse, Tick, Crash, At, NoReq, vars, authVars
  <2> QED
    BY <2>5 DEF At
<1>2. \A x \in Levels : /\ Held(u, x)' \in SUBSET Slots
                        /\ Held(u, x) \in SUBSET Slots
  BY DEF Held
<1>3. \A x \in Levels :
        x < count[u] => Cardinality(Held(u, x)') <= Cardinality(Held(u, x))
  BY <1>1, <1>2, SlotsCounted
<1>4. \A x : Held(u, x)' \in SUBSET Slots /\ Cardinality(Held(u, x)') \in Int
  BY SlotsCounted DEF Held, Numbers
<1> QED
  BY <1>3, <1>4, SlotsCounted DEF Profile

LEMMA MovesOnInit == Init => MovesOn
  BY EarlierFinite DEF Init, LimitInit, MovesOn

LEMMA MovesOnStep == Typed /\ MovesOn /\ [Next]_vars => MovesOn'
<1> SUFFICES ASSUME Typed, MovesOn, [Next]_vars, NEW u \in Urls
             PROVE  accepted'[u] <= Cardinality(Earlier(Profile(u)'))
  BY DEF MovesOn, Earlier, AllProfiles, Profiles, Before, Levels
<1> DEFINE g == Profile(u)
           h == Profile(u)'
<1>1. g \in AllProfiles /\ h \in AllProfiles
  BY ProfileTypedNext
<1>2. accepted[u] <= Cardinality(Earlier(g)) /\ accepted[u] \in Nat
  BY DEF MovesOn, Typed, LimitTypeOK
<1>3. Cardinality(Earlier(g)) \in Nat /\ Cardinality(Earlier(h)) \in Nat
  BY EarlierFinite
<1>4. CASE \E s \in Slots : Accept(s) /\ req[s].url = u
  <2>1. Before(g, h)
    BY <1>4, AcceptMovesOn
  <2>2. accepted'[u] = accepted[u] + 1
    BY <1>4 DEF Accept, Count, Typed, LimitTypeOK
  <2>3. Cardinality(Earlier(g)) + 1 <= Cardinality(Earlier(h))
    BY <1>1, <2>1, EarlierGrows
  <2> QED
    BY <1>2, <1>3, <2>2, <2>3
<1>5. CASE accepted'[u] = 0
  BY <1>3, <1>5
<1>6. CASE /\ ~\E s \in Slots : Accept(s) /\ req[s].url = u
           /\ accepted'[u] # 0
  <2>1. count'[u] = count[u] /\ accepted'[u] = accepted[u]
    <3>1. ASSUME NEW s \in Slots, Accept(s), req[s].url # u
          PROVE  count'[u] = count[u] /\ accepted'[u] = accepted[u]
      BY <3>1 DEF Accept, Count, Typed, LimitTypeOK
    <3>2. ASSUME Tick
          PROVE  count'[u] = count[u] /\ accepted'[u] = accepted[u]
      BY <1>6, <3>2 DEF Tick, LimitTick
    <3>3. (\E s \in Slots : Accept(s)) \/ Tick \/ UNCHANGED limitVars
      BY DEF Next, vars, limitVars, ReadCount, LoginUser, Authorize, Use, Handle,
             Refuse, FindByEmail, MailPassword, Authenticate, ChangeProfile,
             StorePassword, Fail, Register, Queue, Reuse, Crash
    <3> QED
      BY <1>6, <3>1, <3>2, <3>3 DEF limitVars
  <2>2. \A x \in Levels : h[x] <= g[x]
    BY <1>6, <2>1, OthersKeepProfile
  <2>3. Cardinality(Earlier(g)) <= Cardinality(Earlier(h))
    BY <1>1, <2>2, EarlierKept
  <2> QED
    BY <1>2, <1>3, <2>1, <2>3
<1> QED
  BY <1>4, <1>5, <1>6

(* Under each url the limiter lets no more requests through than Burst,    *)
(* however many overlap and whatever the limit.  An address has no such    *)
(* bound: each query string makes another url                              *)
(* (limit-requests.guard.ts:16-25).                                        *)
THEOREM EachUrlIsBounded == Spec => []AcceptedBounded
<1>1. Typed /\ MovesOn => AcceptedBounded
  <2> SUFFICES ASSUME Typed, MovesOn, NEW u \in Urls
               PROVE  accepted[u] <= MostAccepted
    BY DEF AcceptedBounded
  <2>1. Cardinality(Earlier(Profile(u))) <= MostAccepted
    BY ProfileTyped, EarlierBounded
  <2>2. MostAccepted \in Int
    BY ProfilesFinite, FS_CardinalityType DEF MostAccepted, Burst, AllProfiles
  <2> QED
    BY <2>1, <2>2, EarlierFinite DEF MovesOn, Typed, LimitTypeOK
<1> QED
  BY <1>1, TypedInit, TypedStep, MovesOnInit, MovesOnStep, PTL DEF Spec

(* Requests that take turns are counted one by one: nothing is let through *)
(* that the number does not show, whatever a request has read.             *)
Exact ==
  \A u \in Urls :
    /\ accepted[u] <= count[u]
    /\ \A s \in Slots :
         At(s, "limit") /\ req[s].url = u => accepted[u] <= req[s].seen

LEMMA ExactStep ==
  ASSUME NEW one, Slots = {one}, Typed, Exact, [Next]_vars
  PROVE  Exact'
<1> SUFFICES ASSUME NEW u \in Urls
             PROVE  /\ accepted'[u] <= count'[u]
                    /\ \A s \in Slots :
                         At(s, "limit")' /\ req'[s].url = u
                           => accepted'[u] <= req'[s].seen
  BY DEF Exact
<1> USE DEF Typed, AuthTypeOK, LimitTypeOK
<1> DEFINE Here == /\ accepted'[u] <= count'[u]
                   /\ \A s \in Slots :
                        At(s, "limit")' /\ req'[s].url = u
                          => accepted'[u] <= req'[s].seen
<1>1. ASSUME NEW s \in Slots, NEW v \in Urls, ReadCount(s, v) PROVE Here
  BY <1>1 DEF ReadCount, Exact, At, limitVars
<1>2. ASSUME NEW s \in Slots, Accept(s) PROVE Here
  <2>1. \A t \in Slots : ~At(t, "limit")'
    BY <1>2, WaitsElsewhere DEF Handle
  <2>2. req[s].url \in Urls /\ req[s].seen \in 0 .. Limit
    BY <1>2, ReqFields DEF Accept
  <2>3. accepted'[u] <= count'[u]
    BY <1>2, <2>2, LimitAssumption DEF Accept, Count, Exact
  <2> QED
    BY <2>1, <2>3
<1>3. ASSUME Tick PROVE Here
  <2>1. ASSUME NEW s \in Slots, At(s, "limit") PROVE req[s].seen \in Nat
    <3>1. req[s].seen \in 0 .. Limit
      BY <2>1, ReqFields
    <3> QED
      BY <3>1, LimitAssumption
  <2> QED
    BY <1>3, <2>1 DEF Tick, LimitTick, Exact, At
<1>4. ASSUME UNCHANGED limitVars,
             \A s \in Slots : At(s, "limit")' => req'[s] = req[s]
      PROVE  Here
  BY <1>4 DEF limitVars, Exact, At
<1>5. ASSUME NEW s \in Slots,
             \/ Refuse(s) \/ FindByEmail(s) \/ MailPassword(s) \/ Authenticate(s)
             \/ ChangeProfile(s) \/ Fail(s)
             \/ \E c \in Codes : StorePassword(s, c)
             \/ \E b \in Addresses, c \in Codes :
                  LoginUser(s, b, c) \/ Authorize(s, b, c)
      PROVE  Here
  <2>1. \A t \in Slots : ~At(t, "limit")'
    BY <1>5, WaitsElsewhere DEF Handle
  <2>2. UNCHANGED limitVars
    BY <1>5 DEF Refuse, FindByEmail, MailPassword, Authenticate, ChangeProfile,
                StorePassword, Fail, LoginUser, Authorize, Use
  <2> QED
    BY <1>4, <2>1, <2>2
<1>6. ASSUME Crash PROVE Here
  BY <1>6, <1>4 DEF Crash, At, NoReq
<1>7. ASSUME UNCHANGED <<limitVars, req>> PROVE Here
  BY <1>4, <1>7
<1> QED
  BY <1>1, <1>2, <1>3, <1>5, <1>6, <1>7
     DEF Next, Handle, Register, Queue, Reuse, vars, authVars

(* The limit of a url is exact when requests take turns, as                *)
(* request.e2e-spec.ts:88 sends them (limit-requests.guard.ts:16-25).      *)
THEOREM EachUrlIsExactInTurns ==
  Cardinality(Slots) = 1 /\ Spec => [](\A u \in Urls : accepted[u] <= Limit)
<1> SUFFICES ASSUME Cardinality(Slots) = 1
             PROVE  Spec => [](\A u \in Urls : accepted[u] <= Limit)
  OBVIOUS
<1>1. PICK one : Slots = {one}
  BY SlotsAssumption, FS_Singleton
<1>2. Init => Exact
  BY DEF Init, LimitInit, Exact, At, NoReq
<1>3. Typed /\ Exact /\ [Next]_vars => Exact'
  BY <1>1, ExactStep
<1>4. Typed /\ Exact => \A u \in Urls : accepted[u] <= Limit
  BY LimitAssumption DEF Typed, LimitTypeOK, Exact
<1> QED
  BY <1>2, <1>3, <1>4, TypedInit, TypedStep, PTL DEF Spec


-----------------------------------------------------------------------------
(* How large the bound is. *)

(* A profile that reaches n at its last number is told by the others. *)
LEMMA FullProfiles ==
  ASSUME NEW n \in Nat, NEW k \in Nat \ {0}
  PROVE  Cardinality({h \in Profiles(n, k) : h[k - 1] = n})
           = Cardinality(Profiles(n, k - 1))
<1> DEFINE Full == {h \in Profiles(n, k) : h[k - 1] = n}
           D == 0 .. k - 1
           C == 0 .. (k - 1) - 1
           More(g) == [x \in D |-> IF x = k - 1 THEN n ELSE g[x]]
           f == [g \in Profiles(n, k - 1) |-> More(g)]
<1>1. /\ C = D \ {k - 1} /\ k - 1 \in D
      /\ \A x \in D : x \in Int /\ x <= k - 1
      /\ \A x \in D : k - 1 <= x => x = k - 1
  OBVIOUS
<1>2. ASSUME NEW g \in Profiles(n, k - 1) PROVE More(g) \in Full
  <2>1. g \in [C -> 0 .. n] /\ \A x, y \in C : x <= y => g[x] <= g[y]
    BY DEF Profiles
  <2>2. More(g) \in [D -> 0 .. n]
    BY <1>1, <2>1
  <2>3. ASSUME NEW x \in D, NEW y \in D, x <= y
        PROVE  More(g)[x] <= More(g)[y]
    BY <1>1, <2>1, <2>3
  <2> QED
    BY <1>1, <2>2, <2>3 DEF Profiles
<1>3. ASSUME NEW g \in Profiles(n, k - 1), NEW h \in Profiles(n, k - 1),
             More(g) = More(h)
      PROVE  g = h
  <2>1. g \in [C -> 0 .. n] /\ h \in [C -> 0 .. n]
    BY DEF Profiles
  <2>2. ASSUME NEW x \in C PROVE g[x] = h[x]
    <3>1. More(g)[x] = g[x] /\ More(h)[x] = h[x]
      BY <1>1
    <3> QED
      BY <1>3, <3>1
  <2> QED
    BY <2>1, <2>2
<1>4. ASSUME NEW h \in Full
      PROVE  \E g \in Profiles(n, k - 1) : More(g) = h
  <2>1. /\ h \in [D -> 0 .. n] /\ h[k - 1] = n
        /\ \A x, y \in D : x <= y => h[x] <= h[y]
    BY DEF Profiles
  <2> DEFINE g == [x \in C |-> h[x]]
  <2>2. g \in Profiles(n, k - 1)
    <3>1. g \in [C -> 0 .. n]
      BY <1>1, <2>1
    <3>2. \A x, y \in C : x <= y => g[x] <= g[y]
      BY <1>1, <2>1
    <3> QED
      BY <3>1, <3>2 DEF Profiles
  <2>3. \A x \in D : More(g)[x] = h[x]
    BY <1>1, <2>1
  <2>4. More(g) = h
    BY <2>1, <2>3
  <2> QED
    BY <2>2, <2>4
<1>5. f \in Bijection(Profiles(n, k - 1), Full)
  <2> HIDE DEF Full, More
  <2>1. f \in [Profiles(n, k - 1) -> Full]
    BY <1>2
  <2>2. f \in Injection(Profiles(n, k - 1), Full)
    BY <1>3, <2>1 DEF Injection, IsInjective
  <2>3. f \in Surjection(Profiles(n, k - 1), Full)
    BY <1>4, <2>1 DEF Surjection
  <2> QED
    BY <2>2, <2>3 DEF Bijection
<1>6. IsFiniteSet(Profiles(n, k - 1))
  BY ProfilesAreFinite
<1> QED
  BY <1>5, <1>6, FS_Bijection DEF ExistsBijection

(* The others have one request less to count with. *)
LEMMA OtherProfiles ==
  ASSUME NEW n \in Nat \ {0}, NEW k \in Nat \ {0}
  PROVE  {h \in Profiles(n, k) : h[k - 1] # n} = Profiles(n - 1, k)
<1> DEFINE D == 0 .. k - 1
<1>1. k - 1 \in D /\ \A x \in D : x <= k - 1
  OBVIOUS
<1>2. ASSUME NEW h \in Profiles(n, k), h[k - 1] # n
      PROVE  h \in Profiles(n - 1, k)
  <2>1. /\ h \in [D -> 0 .. n]
        /\ \A x, y \in D : x <= y => h[x] <= h[y]
    BY DEF Profiles
  <2>2. ASSUME NEW x \in D PROVE h[x] \in 0 .. n - 1
    <3>1. h[x] <= h[k - 1] /\ h[x] \in 0 .. n /\ h[k - 1] \in 0 .. n
      BY <1>1, <2>1
    <3> QED
      BY <1>2, <3>1
  <2> QED
    BY <2>1, <2>2 DEF Profiles
<1>3. ASSUME NEW h \in Profiles(n - 1, k)
      PROVE  h \in Profiles(n, k) /\ h[k - 1] # n
  <2>1. /\ h \in [D -> 0 .. n - 1]
        /\ \A x, y \in D : x <= y => h[x] <= h[y]
    BY DEF Profiles
  <2>2. h \in [D -> 0 .. n]
    BY <2>1
  <2>3. h[k - 1] \in 0 .. n - 1
    BY <1>1, <2>1
  <2> QED
    BY <2>1, <2>2, <2>3 DEF Profiles
<1> QED
  BY <1>2, <1>3

(* The bound follows Pascal's rule, which with its borders makes it one    *)
(* less than the binomial coefficient of n + k over k: with n requests at  *)
(* a time a limit of k bounds the lifetime to that many, and not to the    *)
(* k + n - 1 that n requests reading at once would let through             *)
(* (limit-requests.guard.ts:18-25).                                        *)
THEOREM BurstIsPascals ==
  \A n, k \in Nat :
    Burst(n, k) = IF n = 0 \/ k = 0
                  THEN 0
                  ELSE Burst(n - 1, k) + Burst(n, k - 1) + 1
<1> SUFFICES ASSUME NEW n \in Nat, NEW k \in Nat
             PROVE  Burst(n, k) = IF n = 0 \/ k = 0
                                  THEN 0
                                  ELSE Burst(n - 1, k) + Burst(n, k - 1) + 1
  OBVIOUS
<1>1. CASE n = 0 \/ k = 0
  <2> DEFINE only == [x \in 0 .. k - 1 |-> 0]
  <2>1. only \in Profiles(n, k)
    BY DEF Profiles
  <2>2. ASSUME NEW h \in Profiles(n, k) PROVE h = only
    <3>1. h \in [0 .. k - 1 -> 0 .. n]
      BY DEF Profiles
    <3>2. ASSUME NEW x \in 0 .. k - 1 PROVE h[x] = 0
      BY <1>1, <3>1
    <3> QED
      BY <3>1, <3>2
  <2>3. Profiles(n, k) = {only}
    BY <2>1, <2>2
  <2>4. Cardinality(Profiles(n, k)) = 1
    BY <2>3, FS_Singleton
  <2> QED
    BY <1>1, <2>4 DEF Burst
<1>2. CASE n # 0 /\ k # 0
  <2> DEFINE Full == {h \in Profiles(n, k) : h[k - 1] = n}
             Others == {h \in Profiles(n, k) : h[k - 1] # n}
  <2>1. n - 1 \in Nat /\ k - 1 \in Nat
    BY <1>2
  <2>2. /\ IsFiniteSet(Full) /\ Cardinality(Full) \in Nat
        /\ IsFiniteSet(Others) /\ Cardinality(Others) \in Nat
    <3>1. IsFiniteSet(Profiles(n, k))
      BY ProfilesAreFinite
    <3>2. Full \in SUBSET Profiles(n, k) /\ Others \in SUBSET Profiles(n, k)
      OBVIOUS
    <3> HIDE DEF Full, Others
    <3>3. IsFiniteSet(Full) /\ IsFiniteSet(Others)
      BY <3>1, <3>2, FS_Subset
    <3> QED
      BY <3>3, FS_CardinalityType
  <2>3. Profiles(n, k) = Full \cup Others /\ Full \cap Others = {}
    OBVIOUS
  <2>4. Cardinality(Profiles(n, k)) = Cardinality(Full) + Cardinality(Others)
    <3>1. Cardinality(Full \cup Others)
            = Cardinality(Full) + Cardinality(Others) - Cardinality(Full \cap Others)
      BY <2>2, FS_Union
    <3>2. Cardinality(Full \cap Others) = 0
      BY <2>3, FS_EmptySet
    <3> HIDE DEF Full, Others
    <3> QED
      BY <2>2, <2>3, <3>1, <3>2
  <2>5. Cardinality(Full) = Cardinality(Profiles(n, k - 1))
    BY <1>2, FullProfiles
  <2>6. Others = Profiles(n - 1, k)
    BY <1>2, OtherProfiles
  <2>7. Cardinality(Profiles(n, k))
          = Cardinality(Profiles(n - 1, k)) + Cardinality(Profiles(n, k - 1))
    <3> HIDE DEF Full, Others
    <3> QED
      BY <2>2, <2>4, <2>5, <2>6
  <2>8. /\ Cardinality(Profiles(n - 1, k)) \in Nat
        /\ Cardinality(Profiles(n, k - 1)) \in Nat
    BY <2>1, ProfilesAreFinite, FS_CardinalityType
  <2> QED
    BY <1>2, <2>7, <2>8 DEF Burst
<1> QED
  BY <1>1, <1>2
=============================================================================
