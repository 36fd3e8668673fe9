------------------------------- MODULE Login -------------------------------
(***************************************************************************)
(* Logging in with a one-time password: GET /auth/:email behind the        *)
(* limiter, POST /auth, and the profile changes that ask for the password  *)
(* again (AuthorizeGuard, AuthenticationGuard).  Composed of the limiter's *)
(* number, the mail queue and the passwords AuthService keeps in Redis.    *)
(* Each action is one awaited call.                                        *)
(*                                                                         *)
(* The limiter knows a request by its url, everything after it by the      *)
(* address in the url: /auth/a and /auth/a?again are counted apart and     *)
(* mail passwords to the same address.  Requests for different addresses   *)
(* share nothing but the queue.  Two passwords drawn alike are left out:   *)
(* Codes names the draws, and a name is free again when nothing holds it.  *)
(***************************************************************************)
EXTENDS RequestLimit, MailQueue

CONSTANTS
  Addresses,  \* e-mail addresses
  AddressOf,  \* the address a url of GET /auth/:email names
  Slots,      \* the requests handled at one time
  None        \* no password, no address, no url

ASSUME AddressAssumption == AddressOf \in [Urls -> Addresses]
ASSUME NoneAssumption == None \notin Mails \cup Addresses \cup Urls
ASSUME SlotsAssumption == IsFiniteSet(Slots)

Codes == Mails  \* a mail is known by the password in it

VARIABLES
  account,  \* the user at an address; "hidden" is removed
  code,     \* the password stored for an address
  life,     \* the ticks it has left
  req,      \* the request in each slot
  missed,   \* history: addresses whose counted request got no password stored
  lost      \* history: passwords whose mail was not sent, or not known to be

authVars == <<account, code, life, req>>
vars == <<limitVars, queueVars, authVars, missed, lost>>

NoReq ==
  [at |-> "idle", url |-> None, address |-> None, seen |-> 0, code |-> None]

TypeOK ==
  /\ LimitTypeOK
  /\ QueueTypeOK
  /\ account \in [Addresses -> {"none", "shown", "hidden"}]
  /\ code \in [Addresses -> Codes \cup {None}]
  /\ life \in [Addresses -> 0..FiveMinutes]
  /\ \A a \in Addresses : code[a] = None <=> life[a] = 0
  /\ req \in [Slots -> {NoReq}
        \cup [at : {"limit"}, url : Urls, address : {None},
              seen : 0..Limit, code : {None}]
        \cup [at : {"user", "pass"}, url : {None}, address : Addresses,
              seen : {0}, code : {None}]
        \cup [at : {"mail", "login", "guard", "change"}, url : {None},
              address : Addresses, seen : {0}, code : Codes]]
  /\ missed \subseteq Addresses
  /\ lost \subseteq Codes

Init ==
  /\ LimitInit
  /\ QueueInit
  /\ account \in [Addresses -> {"none", "shown"}]
  /\ code = [a \in Addresses |-> None]
  /\ life = [a \in Addresses |-> 0]
  /\ req = [s \in Slots |-> NoReq]
  /\ missed = {}
  /\ lost = {}

At(s, step) == req[s].at = step

Go(s, step) == req' = [req EXCEPT ![s].at = step]

End(s) == req' = [req EXCEPT ![s] = NoReq]

-----------------------------------------------------------------------------
(* GET /auth/:email *)

(* The guard reads the number. *)
ReadCount(s, u) ==
  /\ At(s, "idle")
  /\ req' = [req EXCEPT ![s] = [at |-> "limit", url |-> u, address |-> None,
                                seen |-> count[u], code |-> None]]
  /\ UNCHANGED <<limitVars, queueVars, account, code, life, missed, lost>>

(* Slip: a refused request is counted, too. *)
RefuseCounted(s) ==
  /\ At(s, "limit")
  /\ TooMany(req[s].seen)
  /\ End(s)
  /\ window' = [window EXCEPT ![req[s].url] = FiveMinutes]
  /\ UNCHANGED <<count, accepted, queueVars, account, code, life, missed, lost>>

Refuse(s) ==
  /\ At(s, "limit")
  /\ TooMany(req[s].seen)
  /\ End(s)
  /\ UNCHANGED <<limitVars, queueVars, account, code, life, missed, lost>>

Accept(s) ==
  /\ At(s, "limit")
  /\ ~TooMany(req[s].seen)
  /\ Count(req[s].url, req[s].seen)
  /\ req' = [req EXCEPT ![s].at = "user", ![s].url = None,
                        ![s].address = AddressOf[req[s].url], ![s].seen = 0]
  /\ UNCHANGED <<queueVars, account, code, life, missed, lost>>

(* findByEmail.  Nothing is ever stored under the name it asks Redis for,  *)
(* so it always asks the database.                                         *)
FindByEmail(s) ==
  LET a == req[s].address IN
    /\ At(s, "user")
    /\ IF account[a] = "shown" THEN Go(s, "pass") /\ UNCHANGED missed
                               ELSE End(s) /\ missed' = missed \cup {a}
    /\ UNCHANGED <<limitVars, queueVars, account, code, life, lost>>

Free(c) ==
  /\ job[c] = "none"
  /\ \A a \in Addresses : code[a] # c
  /\ \A s \in Slots : req[s].code # c

(* Slip: the password lives a tick less than the number. *)
StorePasswordShort(s, c) ==
  LET a == req[s].address IN
    /\ At(s, "pass")
    /\ Free(c)
    /\ code' = [code EXCEPT ![a] = IF FiveMinutes = 1 THEN None ELSE c]
    /\ life' = [life EXCEPT ![a] = FiveMinutes - 1]
    /\ req' = [req EXCEPT ![s].at = "mail", ![s].code = c]
    /\ missed' = missed \ {a}
    /\ lost' = lost \ {c}
    /\ UNCHANGED <<limitVars, queueVars, account>>

(* A new password takes the place of the one before it. *)
StorePassword(s, c) ==
  LET a == req[s].address IN
    /\ At(s, "pass")
    /\ Free(c)
    /\ code' = [code EXCEPT ![a] = c]
    /\ life' = [life EXCEPT ![a] = FiveMinutes]
    /\ req' = [req EXCEPT ![s].at = "mail", ![s].code = c]
    /\ missed' = missed \ {a}
    /\ lost' = lost \ {c}
    /\ UNCHANGED <<limitVars, queueVars, account>>

MailPassword(s) ==
  /\ At(s, "mail")
  /\ SendMail(req[s].code)
  /\ End(s)
  /\ UNCHANGED <<limitVars, account, code, life, missed, lost>>

-----------------------------------------------------------------------------
(* Who uses the password *)

(* The password comes out of a mail.  Any other changes nothing. *)
Use(s, step, a, c) ==
  /\ At(s, "idle")
  /\ inbox[c] > 0
  /\ req' = [req EXCEPT ![s] = [at |-> step, url |-> None, address |-> a,
                                seen |-> 0, code |-> c]]
  /\ UNCHANGED <<limitVars, queueVars, account, code, life, missed, lost>>

(* login finds a shown user. *)
LoginUser(s, a, c) == account[a] = "shown" /\ Use(s, "login", a, c)

(* The user of the token: found by the id, a removed one, too. *)
Decoded(a) == account[a] # "none"

Authorize(s, a, c) == Decoded(a) /\ Use(s, "guard", a, c)

(* The password is compared and stays: after the login the same one is the *)
(* `password` header of a profile change.                                  *)
Authenticate(s) ==
  LET a == req[s].address IN
    /\ At(s, "login") \/ At(s, "guard")
    /\ IF At(s, "guard") /\ code[a] = req[s].code THEN Go(s, "change") ELSE End(s)
    /\ UNCHANGED <<limitVars, queueVars, account, code, life, missed, lost>>

(* updateUser leaves the address or not, removeUser hides its user. *)
ChangeProfile(s) ==
  LET a == req[s].address IN
    /\ At(s, "change")
    /\ \/ account[a] = "shown" /\ account' \in
            {[account EXCEPT ![a] = to] : to \in {"none", "shown", "hidden"}}
       \/ account[a] # "shown" /\ UNCHANGED account
    /\ End(s)
    /\ UNCHANGED <<limitVars, queueVars, code, life, missed, lost>>

(* createUser, or an updateUser that comes to this address *)
Register(a) ==
  /\ account[a] = "none"
  /\ account' = [account EXCEPT ![a] = "shown"]
  /\ UNCHANGED <<limitVars, queueVars, code, life, req, missed, lost>>

-----------------------------------------------------------------------------
(* Time, the queue and failures *)

Tick ==
  /\ LimitTick
  /\ life' = [a \in Addresses |-> IF life[a] > 0 THEN life[a] - 1 ELSE 0]
  /\ code' = [a \in Addresses |-> IF life'[a] > 0 THEN code[a] ELSE None]
  /\ UNCHANGED <<queueVars, account, req, missed, lost>>

Queue(m) ==
  /\ Consume(m)
  /\ lost' = IF m \in sending \ sending' /\ inbox' = inbox THEN lost \cup {m} ELSE lost
  /\ UNCHANGED <<limitVars, authVars, missed>>

Reuse(m) ==
  /\ Finished(m)
  /\ \A a \in Addresses : code[a] # m
  /\ Forget(m)
  /\ UNCHANGED <<limitVars, authVars, missed, lost>>

MissedBy(S) ==
  missed \cup {req[s].address : s \in {t \in S : req[t].at \in {"user", "pass"}}}

LostBy(S) == lost \cup {req[s].code : s \in {t \in S : At(t, "mail")}}

(* A call to Redis or the database rejects. *)
Fail(s) ==
  /\ ~At(s, "idle")
  /\ End(s)
  /\ missed' = MissedBy({s})
  /\ lost' = LostBy({s})
  /\ UNCHANGED <<limitVars, queueVars, account, code, life>>

(* The process dies and is started again. *)
Crash ==
  /\ QueueCrash
  /\ req' = [s \in Slots |-> NoReq]
  /\ missed' = MissedBy(Slots)
  /\ lost' = LostBy(Slots) \cup sending
  /\ UNCHANGED <<limitVars, account, code, life>>

Handle(s) ==
  \/ Refuse(s) \/ Accept(s) \/ FindByEmail(s) \/ MailPassword(s)
  \/ Authenticate(s) \/ ChangeProfile(s)
  \/ \E c \in Codes : StorePassword(s, c)

Next ==
  \/ \E s \in Slots, u \in Urls : ReadCount(s, u)
  \/ \E s \in Slots, a \in Addresses, c \in Codes :
       LoginUser(s, a, c) \/ Authorize(s, a, c)
  \/ \E s \in Slots : Handle(s) \/ Fail(s)
  \/ \E a \in Addresses : Register(a)
  \/ \E m \in Mails : Queue(m) \/ Reuse(m)
  \/ Tick \/ Crash

Spec == Init /\ [][Next]_vars

-----------------------------------------------------------------------------
MostAccepted == Burst(Cardinality(Slots), Limit)

(* However many requests for a url overlap, the limiter lets no more       *)
(* through than Burst until its number is gone: Limit when they take       *)
(* turns, as request.e2e-spec.ts:88 sends them, and many more when not.    *)
(* This bounds a url, not an address: the same address under another query *)
(* string has a number of its own (limit-requests.guard.ts:16-25).         *)
AcceptedBounded == \A u \in Urls : accepted[u] <= MostAccepted

(* Whoever is refused under a url holds, or is about to be mailed, a       *)
(* password that lives as long as the refusals last; unless the last       *)
(* request that counted for the address, under whatever url, was for an    *)
(* unknown user or failed.  So the limiter locks nobody out                *)
(* (limit-requests.guard.ts:25, auth.service.ts:43).                       *)
Behind(a) == \E s \in Slots : req[s].at \in {"user", "pass"} /\ req[s].address = a

LimitedHasPassword ==
  \A u \in Urls :
    LET a == AddressOf[u] IN
      window[u] > 0 => life[a] >= window[u] \/ Behind(a) \/ a \in missed

(* A password that is stored is in a mail: about to be queued, on its way, *)
(* delivered, or lost by a failure.  None is left behind when passwords    *)
(* replace each other (auth.service.ts:43-53, queue.consumer.ts:15).       *)
PasswordIsMailed ==
  \A a \in Addresses :
    LET c == code[a] IN
      c # None =>
        \/ \E s \in Slots : At(s, "mail") /\ req[s].code = c
        \/ job[c] \in {"delayed", "stalled"}
        \/ c \in sending \cup lost
        \/ inbox[c] > 0

(* A mail is delivered once for each time its job is given out: twice only *)
(* if the process died with the job in hand, never a third time, although  *)
(* the job says nothing of the sending (queue.consumer.ts:14-16).          *)
TwiceOnlyAfterCrash == \A m \in Mails : inbox[m] <= 1 + stalls[m]

(* Only a request that is let through starts the five minutes anew, so a   *)
(* refused url is let in again however often it is tried meanwhile         *)
(* ("please try again in 5mins", limit-requests.guard.ts:22).              *)
RefusalsEnd ==
  [][\A u \in Urls :
       window'[u] > window[u] => accepted'[u] > accepted[u]]_vars
=============================================================================
