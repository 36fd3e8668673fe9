------------------------- MODULE EmailVerification -------------------------
(***************************************************************************)
(* The address of a user: chosen by createUser and updateUser, which store *)
(* it at once and mail a link to it, and confirmed by verifyUser, which    *)
(* stores the address of the link.  A link is a name in Redis that lives   *)
(* for a day.  The unique index of the users collection refuses an address *)
(* another user has, a removed user included.  And setAdmin, which makes   *)
(* the first user before a server answers.  One action is one awaited      *)
(* call; reads of a user that nothing can change in between are one.       *)
(***************************************************************************)
EXTENDS Naturals, FiniteSets

CONSTANTS
  Users,      \* ids of the users that register
  Addresses,  \* e-mail addresses
  Codes,      \* bound: the links that are made
  Slots,      \* requests handled, and servers started, at one time
  None        \* no user, address or code

ASSUME VerificationAssumption ==
  /\ None \notin Users \cup Addresses \cup Codes
  /\ IsFiniteSet(Slots)

VARIABLES
  address,   \* the `email` of each user, None before registration
  verified,  \* users with `verified`
  hidden,    \* removed users
  link,      \* what each code stands for
  req,       \* the request in each slot
  admins,    \* how many users setAdmin has made
  up,        \* a server answers
  uses,      \* history: how often each link has confirmed its address
  proven,    \* history: the addresses users have confirmed
  refused,   \* history: links whose address could not be stored
  gone       \* history: addresses whose latest link lapsed, was refused, or
             \* was lost with the request that was to send it

history == <<uses, proven, refused, gone>>
vars == <<address, verified, hidden, link, req, admins, up, history>>

Pairs == Users \X Addresses

NoLink == [state |-> "unused", pair |-> <<None, None>>]
NoReq == [at |-> "idle", pair |-> <<None, None>>, code |-> None]

TypeOK ==
  /\ address \in [Users -> Addresses \cup {None}]
  /\ verified \subseteq Users
  /\ hidden \subseteq Users
  /\ link \in [Codes -> {NoLink}
                \cup [state : {"live", "spent", "lapsed"}, pair : Pairs]]
  /\ req \in [Slots -> {NoReq, [NoReq EXCEPT !.at = "admin"]}
        \cup [at : {"write", "look", "link"}, pair : Pairs, code : {None}]
        \cup [at : {"mail", "spend", "confirm"}, pair : Pairs, code : Codes]]
  /\ admins \in Nat
  /\ up \in BOOLEAN
  /\ uses \in [Codes -> Nat]
  /\ proven \subseteq Pairs
  /\ refused \subseteq Codes
  /\ gone \subseteq Pairs

Init ==
  /\ address = [u \in Users |-> None]
  /\ verified = {}
  /\ hidden = {}
  /\ link = [c \in Codes |-> NoLink]
  /\ req = [s \in Slots |-> NoReq]
  /\ admins = 0
  /\ up = FALSE
  /\ uses = [c \in Codes |-> 0]
  /\ proven = {}
  /\ refused = {}
  /\ gone = {}

At(s, step) == req[s].at = step
End(s) == req' = [req EXCEPT ![s] = NoReq]
Go(s, step) == req' = [req EXCEPT ![s].at = step]
Start(s, step, pair, c) ==
  /\ At(s, "idle")
  /\ req' = [req EXCEPT ![s] = [at |-> step, pair |-> pair, code |-> c]]

(* The unique index. *)
InUse(p) == \E u \in Users : u # p[1] /\ address[u] = p[2]

(* An address is stored for a user.  An index error ends the request with  *)
(* 409 (mongo-error.filter.ts).                                            *)
Store(p) == address' = [address EXCEPT ![p[1]] = p[2]]

-----------------------------------------------------------------------------
(* UsersService.onModuleInit.  The filter names a field the schema does    *)
(* not have and is dropped: any user will do.                              *)

NoUser == admins = 0 /\ \A u \in Users : address[u] = None

Boot(s) ==
  /\ IF NoUser THEN Start(s, "admin", <<None, None>>, None) /\ UNCHANGED up
               ELSE At(s, "idle") /\ UNCHANGED req /\ up' = TRUE
  /\ UNCHANGED <<address, verified, hidden, link, admins, history>>

(* Slip: nothing keeps two default users apart. *)
CreateAdminTwice(s) ==
  /\ At(s, "admin")
  /\ admins' = admins + 1
  /\ up' = TRUE
  /\ End(s)
  /\ UNCHANGED <<address, verified, hidden, link, history>>

(* Two first servers make the same user.  The index refuses the second,    *)
(* and that server does not start.                                         *)
CreateAdmin(s) ==
  /\ At(s, "admin")
  /\ IF admins = 0 THEN admins' = 1 /\ up' = TRUE ELSE UNCHANGED <<admins, up>>
  /\ End(s)
  /\ UNCHANGED <<address, verified, hidden, link, history>>

-----------------------------------------------------------------------------
(* createUser, updateUser, sendVerification *)

CreateUser(s, p) ==
  /\ up
  /\ address[p[1]] = None
  /\ ~InUse(p)
  /\ Store(p)
  /\ Start(s, "look", p, None)
  /\ UNCHANGED <<verified, hidden, link, admins, up, history>>

UpdateUser(s, p) ==
  /\ up
  /\ address[p[1]] # None
  /\ p[1] \notin hidden
  /\ Start(s, "write", p, None)
  /\ UNCHANGED <<address, verified, hidden, link, admins, up, history>>

(* Slip: the link goes to the address the user had. *)
UpdateWriteOld(s) ==
  LET p == req[s].pair IN
    /\ At(s, "write")
    /\ IF InUse(p) THEN End(s) /\ UNCHANGED address
       ELSE Store(p) /\ req' = [req EXCEPT ![s].at = "look",
                                  ![s].pair = <<p[1], address[p[1]]>>]
    /\ UNCHANGED <<verified, hidden, link, admins, up, history>>

(* `verified` is left alone. *)
UpdateWrite(s) ==
  LET p == req[s].pair IN
    /\ At(s, "write")
    /\ IF InUse(p) THEN End(s) /\ UNCHANGED address
                   ELSE Store(p) /\ Go(s, "look")
    /\ UNCHANGED <<verified, hidden, link, admins, up, history>>

(* Slip: the mail is queued before its link is stored. *)
LookMails(s) ==
  /\ At(s, "look")
  /\ Go(s, "mail")
  /\ UNCHANGED <<address, verified, hidden, link, admins, up, history>>

(* sendVerification finds the user again, who may have been removed. *)
Look(s) ==
  LET p == req[s].pair IN
    /\ At(s, "look")
    /\ IF p[1] \in hidden THEN End(s) /\ gone' = gone \cup {p}
                          ELSE Go(s, "link") /\ UNCHANGED gone
    /\ UNCHANGED <<address, verified, hidden, link, admins, up, uses, proven,
                 refused>>

StoreLink(s, c) ==
  /\ At(s, "link")
  /\ link[c].state = "unused"
  /\ link' = [link EXCEPT ![c] = [state |-> "live", pair |-> req[s].pair]]
  /\ req' = [req EXCEPT ![s].at = "mail", ![s].code = c]
  /\ gone' = gone \ {req[s].pair}
  /\ UNCHANGED <<address, verified, hidden, admins, up, uses, proven, refused>>

(* Bull takes the mail: the handler answers. *)
MailLink(s) ==
  /\ At(s, "mail")
  /\ End(s)
  /\ UNCHANGED <<address, verified, hidden, link, admins, up, history>>

RemoveUser(u) ==
  /\ up
  /\ address[u] # None
  /\ hidden' = hidden \cup {u}
  /\ UNCHANGED <<address, verified, link, req, admins, up, history>>

-----------------------------------------------------------------------------
(* AuthService.verifyUser *)

VerifyUser(s, c) ==
  /\ up
  /\ link[c].state = "live"
  /\ Start(s, "spend", link[c].pair, c)
  /\ UNCHANGED <<address, verified, hidden, link, admins, up, history>>

(* Slip: the name is left in Redis. *)
SpendKept(s) ==
  /\ At(s, "spend")
  /\ Go(s, "confirm")
  /\ UNCHANGED <<address, verified, hidden, link, admins, up, history>>

(* The name is deleted first.  The user is there: none is ever deleted,    *)
(* and a removed one is found.                                             *)
Spend(s) ==
  /\ At(s, "spend")
  /\ link' = [link EXCEPT ![req[s].code].state =
                IF @ = "live" THEN "spent" ELSE @]
  /\ Go(s, "confirm")
  /\ UNCHANGED <<address, verified, hidden, admins, up, history>>

(* Slip: an address in use is not an error. *)
ConfirmQuiet(s) ==
  LET p == req[s].pair IN
    /\ At(s, "confirm")
    /\ End(s)
    /\ IF InUse(p) THEN UNCHANGED <<address, verified, history>>
       ELSE /\ Store(p)
            /\ verified' = verified \cup {p[1]}
            /\ proven' = proven \cup {p}
            /\ uses' = [uses EXCEPT ![req[s].code] = @ + 1]
            /\ UNCHANGED <<refused, gone>>
    /\ UNCHANGED <<hidden, link, admins, up>>

Confirm(s) ==
  LET p == req[s].pair IN
    /\ At(s, "confirm")
    /\ End(s)
    /\ IF InUse(p)
       THEN /\ refused' = refused \cup {req[s].code}
            /\ gone' = gone \cup {p}
            /\ UNCHANGED <<address, verified, uses, proven>>
       ELSE /\ Store(p)
            /\ verified' = verified \cup {p[1]}
            /\ proven' = proven \cup {p}
            /\ uses' = [uses EXCEPT ![req[s].code] = @ + 1]
            /\ UNCHANGED <<refused, gone>>
    /\ UNCHANGED <<hidden, link, admins, up>>

-----------------------------------------------------------------------------
(* Time and failures *)

(* The day is over. *)
Lapse(c) ==
  /\ link[c].state = "live"
  /\ link' = [link EXCEPT ![c].state = "lapsed"]
  /\ gone' = gone \cup {link[c].pair}
  /\ UNCHANGED <<address, verified, hidden, req, admins, up, uses, proven, refused>>

(* A call to Redis or the database rejects, or the process dies.  What the *)
(* request has stored stays.                                               *)
Fail(s) ==
  /\ ~At(s, "idle")
  /\ End(s)
  /\ gone' = IF req[s].at \in {"look", "link", "mail", "confirm"}
             THEN gone \cup {req[s].pair} ELSE gone
  /\ refused' = IF At(s, "confirm") THEN refused \cup {req[s].code} ELSE refused
  /\ UNCHANGED <<address, verified, hidden, link, admins, up, uses, proven>>

Next ==
  \/ \E s \in Slots :
       \/ Boot(s) \/ CreateAdmin(s)
       \/ UpdateWrite(s) \/ Look(s) \/ MailLink(s)
       \/ Spend(s) \/ Confirm(s) \/ Fail(s)
  \/ \E s \in Slots, p \in Pairs : CreateUser(s, p) \/ UpdateUser(s, p)
  \/ \E s \in Slots, c \in Codes : StoreLink(s, c) \/ VerifyUser(s, c)
  \/ \E u \in Users : RemoveUser(u)
  \/ \E c \in Codes : Lapse(c)

Spec == Init /\ [][Next]_vars

-----------------------------------------------------------------------------
(* A user whose address is not confirmed has a link to confirm it, or a    *)
(* request is about to store one or to confirm it; unless its last link    *)
(* lapsed, was refused, or was lost in a failure after the address was     *)
(* stored (users.service.ts:68-71, :103-107).  So no order of profile      *)
(* changes, each with its own link, leaves a user with an address no link  *)
(* was made for.                                                           *)
Sending(p) ==
  \E s \in Slots : req[s].at \in {"look", "link", "confirm"} /\ req[s].pair = p

UnprovenHasLink ==
  \A u \in Users :
    LET p == <<u, address[u]>> IN
      address[u] # None =>
        \/ p \in proven \cup gone
        \/ \E c \in Codes : link[c] = [state |-> "live", pair |-> p]
        \/ Sending(p)

(* A link that is spent has confirmed its address, or the request that     *)
(* spent it is about to, or was refused: the link goes before the user is  *)
(* written (auth.service.ts:87-92).                                        *)
SpentLinkConfirms ==
  \A c \in Codes :
    link[c].state = "spent" =>
      \/ link[c].pair \in proven
      \/ c \in refused
      \/ \E s \in Slots : At(s, "confirm") /\ req[s].code = c

(* A link opened many times confirms its address at most as often as       *)
(* requests for it overlap, however often and in whatever order it is      *)
(* opened before it lapses (auth.service.ts:84-87).                        *)
LinkUsesBounded == \A c \in Codes : uses[c] <= Cardinality(Slots)

(* Whenever a server answers and whenever there is a user, there is        *)
(* exactly one default admin, although servers that start together both    *)
(* find none (users.service.ts:35-52).                                     *)
AdminFirst ==
  up \/ (\E u \in Users : address[u] # None) => admins = 1
=============================================================================
