---------------------- MODULE EmailVerification_proofs ----------------------
(***************************************************************************)
(* What becomes of addresses, links and the default admin, for any users,  *)
(* addresses and links and any number of requests handled at one time.     *)
(***************************************************************************)
EXTENDS EmailVerification, FiniteSetTheorems, TLAPS

Links == {NoLink} \cup [state : {"live", "spent", "lapsed"}, pair : Pairs]

Reqs ==
  {NoReq, [NoReq EXCEPT !.at = "admin"]}
    \cup [at : {"write", "look", "link"}, pair : Pairs, code : {None}]
    \cup [at : {"mail", "spend", "confirm"}, pair : Pairs, code : Codes]

(* A request with a link is about the address of the link. *)
Linked ==
  \A s \in Slots :
    req[s].at \in {"mail", "spend", "confirm"} =>
      link[req[s].code].state # "unused" /\ link[req[s].code].pair = req[s].pair

LEMMA TypeOKReqs ==
  TypeOK => link \in [Codes -> Links] /\ req \in [Slots -> Reqs]
  BY DEF TypeOK, Links, Reqs

(* A request that waits at a step has what it needs there. *)
LEMMA ReqFields ==
  ASSUME TypeOK, NEW s \in Slots
  PROVE  /\ req[s].at \in {"write", "look", "link"} =>
              req[s] \in [at : {"write", "look", "link"}, pair : Pairs, code : {None}]
         /\ req[s].at \in {"mail", "spend", "confirm"} =>
              req[s] \in [at : {"mail", "spend", "confirm"}, pair : Pairs, code : Codes]
<1>1. req[s] \in Reqs
  BY TypeOKReqs
<1> QED
  BY <1>1 DEF Reqs, NoReq

LEMMA InitTyped == Init => TypeOK /\ Linked
<1> SUFFICES ASSUME Init PROVE TypeOK /\ Linked
  OBVIOUS
<1>1. req \in [Slots -> Reqs] /\ Linked
  BY DEF Init, Reqs, Linked, NoReq
<1>2. TypeOK
  BY <1>1 DEF Init, TypeOK, Reqs
<1> QED
  BY <1>1, <1>2

(* A request takes one of these steps.  Each writes one request and stays  *)
(* within the types.                                                       *)
LEMMA TypedStep == TypeOK /\ Linked /\ [Next]_vars => TypeOK' /\ Linked'
<1> SUFFICES ASSUME TypeOK, Linked, [Next]_vars PROVE TypeOK' /\ Linked'
  OBVIOUS
<1>0. /\ NoReq \in Reqs /\ [NoReq EXCEPT !.at = "admin"] \in Reqs
      /\ NoReq.at = "idle"
  BY DEF Reqs, NoReq
<1>a. ASSUME NEW r, r \in Reqs, NEW s \in Slots, req' = [req EXCEPT ![s] = r],
             r.at \in {"mail", "spend", "confirm"} =>
               link'[r.code].state # "unused" /\ link'[r.code].pair = r.pair,
             \A c \in Codes : link[c].state # "unused" =>
               link'[c].state # "unused" /\ link'[c].pair = link[c].pair
      PROVE  req' \in [Slots -> Reqs] /\ Linked'
  BY <1>a, TypeOKReqs, ReqFields DEF Linked
<1>1. ASSUME NEW s \in Slots, Boot(s) PROVE TypeOK' /\ Linked'
  <2>1. CASE UNCHANGED req
    BY <1>1, <2>1 DEF Boot, Start, TypeOK, Linked, history
  <2>2. CASE Start(s, "admin", <<None, None>>, None)
    <3>1. req' = [req EXCEPT ![s] = [NoReq EXCEPT !.at = "admin"]]
      BY <2>2 DEF Start, NoReq
    <3>2. req' \in [Slots -> Reqs] /\ Linked'
      BY <1>0, <1>1, <1>a, <3>1 DEF Boot, NoReq
    <3> QED
      BY <1>1, <3>2 DEF Boot, TypeOK, Reqs, history
  <2> QED
    BY <1>1, <2>1, <2>2 DEF Boot
<1>2. ASSUME NEW s \in Slots, CreateAdmin(s) PROVE TypeOK' /\ Linked'
  <2>1. req' \in [Slots -> Reqs] /\ Linked'
    BY <1>0, <1>2, <1>a DEF CreateAdmin, End
  <2>2. (admins' = 1 /\ up' = TRUE) \/ (admins' = admins /\ up' = up)
    BY <1>2 DEF CreateAdmin
  <2>3. admins' \in Nat
    BY <2>2 DEF TypeOK
  <2>4. up' \in BOOLEAN
    BY <2>2 DEF TypeOK
  <2> QED
    BY <1>2, <2>1, <2>3, <2>4 DEF CreateAdmin, TypeOK, Reqs, history
<1>3. ASSUME NEW s \in Slots, NEW p \in Pairs, CreateUser(s, p) \/ UpdateUser(s, p)
      PROVE  TypeOK' /\ Linked'
  <2>1. PICK step \in {"look", "write"} : Start(s, step, p, None)
    BY <1>3 DEF CreateUser, UpdateUser
  <2>2. [at |-> step, pair |-> p, code |-> None] \in Reqs
    BY DEF Reqs
  <2>3. req' \in [Slots -> Reqs] /\ Linked'
    BY <1>3, <1>a, <2>1, <2>2 DEF CreateUser, UpdateUser, Start
  <2> QED
    BY <1>3, <2>3 DEF CreateUser, UpdateUser, Store, TypeOK, Reqs, Pairs, history
<1>4. ASSUME NEW s \in Slots, UpdateWrite(s) PROVE TypeOK' /\ Linked'
  <2>1. req[s] \in [at : {"write", "look", "link"}, pair : Pairs, code : {None}]
    BY <1>4, ReqFields DEF UpdateWrite, At
  <2>2. req' = [req EXCEPT ![s] = req'[s]] /\ req'[s] \in Reqs
        /\ req'[s].at \notin {"mail", "spend", "confirm"}
    BY <1>0, <1>4, <2>1, TypeOKReqs DEF UpdateWrite, End, Go, Reqs
  <2>3. req' \in [Slots -> Reqs] /\ Linked'
    BY <1>4, <1>a, <2>2 DEF UpdateWrite
  <2> QED
    BY <1>4, <2>1, <2>3 DEF UpdateWrite, Store, TypeOK, Reqs, Pairs, history
<1>5. ASSUME NEW s \in Slots, Look(s) PROVE TypeOK' /\ Linked'
  <2>1. req[s] \in [at : {"write", "look", "link"}, pair : Pairs, code : {None}]
    BY <1>5, ReqFields DEF Look, At
  <2>2. req' = [req EXCEPT ![s] = req'[s]] /\ req'[s] \in Reqs
        /\ req'[s].at \notin {"mail", "spend", "confirm"}
    BY <1>0, <1>5, <2>1, TypeOKReqs DEF Look, End, Go, Reqs
  <2>3. req' \in [Slots -> Reqs] /\ Linked'
    BY <1>5, <1>a, <2>2 DEF Look
  <2> QED
    BY <1>5, <2>1, <2>3 DEF Look, TypeOK, Reqs
<1>6. ASSUME NEW s \in Slots, NEW c \in Codes, StoreLink(s, c)
      PROVE  TypeOK' /\ Linked'
  <2>1. req[s] \in [at : {"write", "look", "link"}, pair : Pairs, code : {None}]
    BY <1>6, ReqFields DEF StoreLink, At
  <2>2. /\ req' = [req EXCEPT ![s] = req'[s]] /\ req'[s] \in Reqs
        /\ req'[s].code = c /\ req'[s].pair = req[s].pair
    BY <1>6, <2>1, TypeOKReqs DEF StoreLink, Reqs
  <2>3. /\ link'[c].state = "live" /\ link'[c].pair = req[s].pair
        /\ \A d \in Codes \ {c} : link'[d] = link[d]
        /\ link[c].state = "unused"
    BY <1>6, TypeOKReqs DEF StoreLink
  <2>4. req' \in [Slots -> Reqs] /\ Linked'
    BY <1>a, <2>2, <2>3
  <2> QED
    BY <1>6, <2>1, <2>4 DEF StoreLink, TypeOK, Reqs
<1>7. ASSUME NEW s \in Slots, MailLink(s) PROVE TypeOK' /\ Linked'
  <2>1. req' \in [Slots -> Reqs] /\ Linked'
    BY <1>0, <1>7, <1>a DEF MailLink, End
  <2> QED
    BY <1>7, <2>1 DEF MailLink, TypeOK, Reqs, history
<1>8. ASSUME NEW u \in Users, RemoveUser(u) PROVE TypeOK' /\ Linked'
  BY <1>8 DEF RemoveUser, TypeOK, Linked, history
<1>9. ASSUME NEW s \in Slots, NEW c \in Codes, VerifyUser(s, c)
      PROVE  TypeOK' /\ Linked'
  <2>1. [at |-> "spend", pair |-> link[c].pair, code |-> c] \in Reqs
    BY <1>9, TypeOKReqs DEF VerifyUser, Reqs, Links, NoLink
  <2>2. req' \in [Slots -> Reqs] /\ Linked'
    BY <1>9, <1>a, <2>1 DEF VerifyUser, Start
  <2> QED
    BY <1>9, <2>2 DEF VerifyUser, TypeOK, Reqs, history
<1>10. ASSUME NEW s \in Slots, Spend(s) PROVE TypeOK' /\ Linked'
  <2>1. req[s] \in [at : {"mail", "spend", "confirm"}, pair : Pairs, code : Codes]
    BY <1>10, ReqFields DEF Spend, At
  <2>2. /\ req' = [req EXCEPT ![s] = req'[s]] /\ req'[s] \in Reqs
        /\ req'[s].code = req[s].code /\ req'[s].pair = req[s].pair
    BY <1>10, <2>1, TypeOKReqs DEF Spend, Go, Reqs
  <2>3. \A c \in Codes :
          link'[c] = IF c = req[s].code /\ link[c].state = "live"
                     THEN [state |-> "spent", pair |-> link[c].pair] ELSE link[c]
    BY <1>10, <2>1, TypeOKReqs DEF Spend, Links, NoLink
  <2>4. link' \in [Codes -> Links]
    <3>1. ASSUME NEW c \in Codes PROVE link'[c] \in Links
      <4>1. link[c] \in Links
        BY TypeOKReqs
      <4>2. link[c].state = "live" => link[c].pair \in Pairs
        BY <4>1 DEF Links, NoLink
      <4>3. CASE c = req[s].code /\ link[c].state = "live"
        <5>1. [state |-> "spent", pair |-> link[c].pair] \in Links
          BY <4>2, <4>3 DEF Links
        <5> QED
          BY <2>3, <4>3, <5>1
      <4> QED
        BY <2>3, <4>1, <4>3
    <3> QED
      BY <1>10, <3>1, TypeOKReqs DEF Spend
  <2>5. req' \in [Slots -> Reqs] /\ Linked'
    BY <1>10, <1>a, <2>1, <2>2, <2>3 DEF Linked, Spend, At
  <2> QED
    BY <1>10, <2>4, <2>5 DEF Spend, TypeOK, Reqs, Links, history
<1>11. ASSUME NEW s \in Slots, Confirm(s) PROVE TypeOK' /\ Linked'
  <2>1. req[s] \in [at : {"mail", "spend", "confirm"}, pair : Pairs, code : Codes]
    BY <1>11, ReqFields DEF Confirm, At
  <2>2. req' \in [Slots -> Reqs] /\ Linked'
    BY <1>0, <1>11, <1>a DEF Confirm, End
  <2> QED
    BY <1>11, <2>1, <2>2 DEF Confirm, Store, TypeOK, Reqs, Pairs
<1>12. ASSUME NEW c \in Codes, Lapse(c) PROVE TypeOK' /\ Linked'
  <2>1. /\ link[c] \in [state : {"live", "spent", "lapsed"}, pair : Pairs]
        /\ [link[c] EXCEPT !.state = "lapsed"] \in Links
        /\ [link[c] EXCEPT !.state = "lapsed"].pair = link[c].pair
    BY <1>12, TypeOKReqs DEF Lapse, Links, NoLink
  <2>2. link' = [link EXCEPT ![c] = [link[c] EXCEPT !.state = "lapsed"]]
    BY <1>12 DEF Lapse
  <2>3. link' \in [Codes -> Links] /\ Linked'
    BY <1>12, <2>1, <2>2, TypeOKReqs, ReqFields DEF Lapse, Linked
  <2> QED
    BY <1>12, <2>1, <2>3 DEF Lapse, TypeOK, Links
<1>13. ASSUME NEW s \in Slots, Fail(s) PROVE TypeOK' /\ Linked'
  <2>1. req' \in [Slots -> Reqs] /\ Linked'
    BY <1>0, <1>13, <1>a DEF Fail, End
  <2>2. gone' \subseteq Pairs /\ refused' \subseteq Codes
    BY <1>13, ReqFields DEF Fail, TypeOK, At
  <2> QED
    BY <1>13, <2>1, <2>2 DEF Fail, TypeOK, Reqs
<1>14. CASE UNCHANGED vars
  BY <1>14 DEF vars, history, TypeOK, Linked
<1> QED
  BY <1>1, <1>2, <1>3, <1>4, <1>5, <1>6, <1>7, <1>8, <1>9, <1>10, <1>11, <1>12,
     <1>13, <1>14 DEF Next

Typed == TypeOK /\ Linked

(* Every variable keeps to its values. *)
THEOREM TypeCorrect == Spec => []TypeOK
  BY InitTyped, TypedStep, PTL DEF Spec

-----------------------------------------------------------------------------
(* An address that was stored, or is in a link, stays covered: confirmed,  *)
(* given up, in a live link, or in a request that is about to make one of  *)
(* these true.                                                             *)

Live(c, p) == link[c].state = "live" /\ link[c].pair = p

Covered(p) == p \in proven \cup gone \/ (\E c \in Codes : Live(c, p)) \/ Sending(p)

AllCovered ==
  /\ \A u \in Users : address[u] # None => Covered(<<u, address[u]>>)
  /\ \A c \in Codes : link[c].state # "unused" => Covered(link[c].pair)

LEMMA CoveredIsLinked == TypeOK /\ AllCovered => UnprovenHasLink
<1> SUFFICES ASSUME TypeOK, NEW c \in Codes, NEW p, Live(c, p)
             PROVE  link[c] = [state |-> "live", pair |-> p]
  BY DEF AllCovered, Covered, UnprovenHasLink
<1>1. link[c] \in [state : {"live", "spent", "lapsed"}, pair : Pairs]
  BY TypeOKReqs DEF Live, Links, NoLink
<1> QED
  BY <1>1 DEF Live

LEMMA CoveredStays ==
  ASSUME Typed, [Next]_vars, NEW p \in Pairs, Covered(p)
  PROVE  Covered(p)'
<1> USE DEF Typed
<1>a. ASSUME NEW s \in Slots, \A t \in Slots \ {s} : req'[t] = req[t],
             UNCHANGED link, proven \subseteq proven', gone \subseteq gone',
             req[s].at \in {"look", "link", "confirm"} /\ req[s].pair = p => Covered(p)'
      PROVE  Covered(p)'
  BY <1>a DEF Covered, Sending, Live
<1>1. ASSUME NEW s \in Slots,
             \/ Boot(s) \/ CreateAdmin(s) \/ UpdateWrite(s) \/ MailLink(s)
             \/ \E q \in Pairs : CreateUser(s, q) \/ UpdateUser(s, q)
             \/ \E c \in Codes : VerifyUser(s, c)
      PROVE  Covered(p)'
  <2>1. req[s].at \notin {"look", "link", "confirm"}
    BY <1>1 DEF Boot, CreateAdmin, UpdateWrite, MailLink, CreateUser, UpdateUser,
                VerifyUser, Start, At
  <2>2. \A t \in Slots \ {s} : req'[t] = req[t]
    BY <1>1, TypeOKReqs
       DEF Boot, CreateAdmin, UpdateWrite, MailLink, CreateUser, UpdateUser, VerifyUser,
           Start, End, Go
  <2>3. UNCHANGED <<link, proven, gone>>
    BY <1>1 DEF Boot, CreateAdmin, UpdateWrite, MailLink, CreateUser, UpdateUser,
                VerifyUser, history
  <2> QED
    BY <1>a, <2>1, <2>2, <2>3
<1>2. ASSUME NEW s \in Slots, Look(s) PROVE Covered(p)'
  <2>1. req[s] \in [at : {"write", "look", "link"}, pair : Pairs, code : {None}]
    BY <1>2, ReqFields DEF Look, At
  <2>2. req[s].pair = p => Covered(p)'
    BY <1>2, <2>1, TypeOKReqs DEF Look, Go, Covered, Sending
  <2>3. \A t \in Slots \ {s} : req'[t] = req[t]
    BY <1>2, TypeOKReqs DEF Look, End, Go
  <2>4. UNCHANGED <<link, proven>> /\ gone \subseteq gone'
    BY <1>2 DEF Look
  <2> QED
    BY <1>a, <2>2, <2>3, <2>4
<1>3. ASSUME NEW s \in Slots, NEW c \in Codes, StoreLink(s, c) PROVE Covered(p)'
  <2>1. link'[c].state = "live" /\ link'[c].pair = req[s].pair
    BY <1>3, TypeOKReqs DEF StoreLink
  <2>2. CASE p = req[s].pair
    BY <2>1, <2>2 DEF Covered, Live
  <2>3. CASE p # req[s].pair
    <3>1. \A d \in Codes : Live(d, p) => Live(d, p)'
      BY <1>3, TypeOKReqs DEF StoreLink, Live
    <3>2. \A t \in Slots \ {s} : req'[t] = req[t]
      BY <1>3, TypeOKReqs DEF StoreLink
    <3>3. Sending(p) => Sending(p)'
      BY <2>3, <3>2 DEF Sending
    <3> QED
      BY <1>3, <2>3, <3>1, <3>3 DEF StoreLink, Covered
  <2> QED
    BY <2>2, <2>3
<1>4. ASSUME NEW s \in Slots, Spend(s) PROVE Covered(p)'
  <2>1. req[s] \in [at : {"mail", "spend", "confirm"}, pair : Pairs, code : Codes]
    BY <1>4, ReqFields DEF Spend, At
  <2>2. /\ req'[s].at = "confirm" /\ req'[s].pair = req[s].pair
        /\ \A t \in Slots \ {s} : req'[t] = req[t]
    BY <1>4, <2>1, TypeOKReqs DEF Spend, Go
  <2>3. CASE p = req[s].pair
    BY <2>2, <2>3 DEF Covered, Sending
  <2>4. CASE p # req[s].pair
    <3>1. link[req[s].code].pair = req[s].pair
      BY <1>4 DEF Spend, Linked, At
    <3>2. \A d \in Codes : Live(d, p) => Live(d, p)'
      BY <1>4, <2>4, <3>1 DEF Spend, Live
    <3>3. Sending(p) => Sending(p)'
      BY <2>2, <2>4 DEF Sending
    <3> QED
      BY <1>4, <3>2, <3>3 DEF Spend, Covered, history
  <2> QED
    BY <2>3, <2>4
<1>5. ASSUME NEW s \in Slots, Confirm(s) PROVE Covered(p)'
  <2>1. /\ \A t \in Slots \ {s} : req'[t] = req[t]
        /\ UNCHANGED link /\ proven \subseteq proven' /\ gone \subseteq gone'
        /\ req[s].pair \in proven' \cup gone'
    BY <1>5 DEF Confirm, End
  <2> QED
    BY <1>a, <2>1 DEF Covered
<1>6. ASSUME NEW s \in Slots, Fail(s) PROVE Covered(p)'
  <2>1. /\ \A t \in Slots \ {s} : req'[t] = req[t]
        /\ UNCHANGED <<link, proven>> /\ gone \subseteq gone'
        /\ req[s].at \in {"look", "link", "confirm"} => req[s].pair \in gone'
    BY <1>6 DEF Fail, End
  <2> QED
    BY <1>a, <2>1 DEF Covered
<1>7. ASSUME NEW c \in Codes, Lapse(c) PROVE Covered(p)'
  <2>1. \A d \in Codes : Live(d, p) => Live(d, p)' \/ p \in gone'
    BY <1>7 DEF Lapse, Live
  <2> QED
    BY <1>7, <2>1 DEF Lapse, Covered, Sending
<1>8. ASSUME UNCHANGED <<link, req, proven, gone>> PROVE Covered(p)'
  BY <1>8 DEF Covered, Sending, Live
<1> QED
  BY <1>1, <1>2, <1>3, <1>4, <1>5, <1>6, <1>7, <1>8
     DEF Next, RemoveUser, vars, history

LEMMA PairParts == \A p \in Pairs : p = <<p[1], p[2]>> /\ p[1] \in Users /\ p[2] \in Addresses
  BY DEF Pairs

(* An address comes with a request that is to make a link, or is proven. *)
LEMMA AddressCovered ==
  ASSUME Typed, AllCovered, [Next]_vars,
         NEW u \in Users, NEW q, q = <<u, address'[u]>>, address'[u] # None
  PROVE  Covered(q)'
<1> USE DEF Typed
<1>1. CASE address'[u] = address[u]
  <2>1. q \in Pairs /\ Covered(q)
    BY <1>1 DEF AllCovered, TypeOK, Pairs
  <2> QED
    BY <2>1, CoveredStays
<1>2. ASSUME NEW s \in Slots, NEW p \in Pairs, CreateUser(s, p),
             address'[u] # address[u]
      PROVE  Covered(q)'
  <2>1. q = p
    BY <1>2, PairParts DEF CreateUser, Store, TypeOK
  <2>2. req'[s].at = "look" /\ req'[s].pair = p
    BY <1>2, TypeOKReqs DEF CreateUser, Start
  <2> QED
    BY <2>1, <2>2 DEF Covered, Sending
<1>3. ASSUME NEW s \in Slots, UpdateWrite(s), address'[u] # address[u]
      PROVE  Covered(q)'
  <2>1. req[s] \in [at : {"write", "look", "link"}, pair : Pairs, code : {None}]
    BY <1>3, ReqFields DEF UpdateWrite, At
  <2>2. q = req[s].pair
    BY <1>3, <2>1, PairParts DEF UpdateWrite, Store, TypeOK
  <2>3. req'[s].at = "look" /\ req'[s].pair = req[s].pair
    BY <1>3, <2>1, TypeOKReqs DEF UpdateWrite, Go
  <2> QED
    BY <2>2, <2>3 DEF Covered, Sending
<1>4. ASSUME NEW s \in Slots, Confirm(s), address'[u] # address[u]
      PROVE  Covered(q)'
  <2>1. req[s] \in [at : {"mail", "spend", "confirm"}, pair : Pairs, code : Codes]
    BY <1>4, ReqFields DEF Confirm, At
  <2>2. q = req[s].pair
    BY <1>4, <2>1, PairParts DEF Confirm, Store, TypeOK
  <2> QED
    BY <1>4, <2>2 DEF Confirm, Covered
<1>5. \/ UNCHANGED address
      \/ \E s \in Slots : UpdateWrite(s) \/ Confirm(s)
      \/ \E s \in Slots, p \in Pairs : CreateUser(s, p)
  BY DEF Next, Boot, CreateAdmin, UpdateUser, Look, StoreLink, MailLink, RemoveUser,
         VerifyUser, Spend, Lapse, Fail, vars
<1> QED
  BY <1>1, <1>2, <1>3, <1>4, <1>5

LEMMA LinkCovered ==
  ASSUME Typed, AllCovered, [Next]_vars,
         NEW c \in Codes, NEW q, q = link'[c].pair, link'[c].state # "unused"
  PROVE  Covered(q)'
<1> USE DEF Typed
<1>1. ASSUME NEW s \in Slots, NEW d \in Codes, StoreLink(s, d), c = d
      PROVE  Covered(q)'
  <2>1. link'[c].state = "live"
    BY <1>1, TypeOKReqs DEF StoreLink
  <2> QED
    BY <2>1 DEF Covered, Live
<1>2. CASE q = link[c].pair /\ link[c].state # "unused"
  <2>1. q \in Pairs
    BY <1>2, TypeOKReqs DEF Links, NoLink
  <2> QED
    BY <1>2, <2>1, CoveredStays DEF AllCovered
<1>3. \/ \E s \in Slots, d \in Codes : StoreLink(s, d)
      \/ \E s \in Slots : Spend(s)
      \/ \E d \in Codes : Lapse(d)
      \/ UNCHANGED link
  BY DEF Next, Boot, CreateAdmin, CreateUser, UpdateUser, UpdateWrite, Look, MailLink,
         RemoveUser, VerifyUser, Confirm, Fail, vars
<1>4. ASSUME NEW s \in Slots, NEW d \in Codes, StoreLink(s, d), c # d
      PROVE  link'[c] = link[c]
  BY <1>4, TypeOKReqs DEF StoreLink
<1>5. ASSUME NEW s \in Slots, Spend(s)
      PROVE  link'[c].pair = link[c].pair /\ link[c].state # "unused"
  BY <1>5, TypeOKReqs DEF Spend
<1>6. ASSUME NEW d \in Codes, Lapse(d)
      PROVE  link'[c].pair = link[c].pair /\ link[c].state # "unused"
  BY <1>6, TypeOKReqs DEF Lapse
<1> QED
  BY <1>1, <1>2, <1>3, <1>4, <1>5, <1>6

(* No order of profile changes leaves a user with an address no link was   *)
(* made for (users.service.ts:68-71, :103-107).                            *)
THEOREM LinkForUnproven == Spec => []UnprovenHasLink
<1>1. Init => AllCovered
  BY DEF Init, AllCovered, NoLink
<1>2. Typed /\ AllCovered /\ [Next]_vars => AllCovered'
  BY AddressCovered, LinkCovered DEF AllCovered
<1>3. Typed /\ AllCovered => UnprovenHasLink
  BY CoveredIsLinked DEF Typed
<1> QED
  BY <1>1, <1>2, <1>3, InitTyped, TypedStep, PTL DEF Spec, Typed

-----------------------------------------------------------------------------
(* A link that is spent has confirmed its address, or is about to, or was  *)
(* refused (auth.service.ts:87-92).                                        *)
LEMMA SpentStep == Typed /\ SpentLinkConfirms /\ [Next]_vars => SpentLinkConfirms'
<1> SUFFICES ASSUME Typed, SpentLinkConfirms, [Next]_vars,
                    NEW c \in Codes, link'[c].state = "spent"
             PROVE  \/ link'[c].pair \in proven'
                    \/ c \in refused'
                    \/ \E s \in Slots : req'[s].at = "confirm" /\ req'[s].code = c
  BY DEF SpentLinkConfirms, At
<1> USE DEF Typed
<1> DEFINE Done == \/ link'[c].pair \in proven'
                   \/ c \in refused'
                   \/ \E s \in Slots : req'[s].at = "confirm" /\ req'[s].code = c
<1>a. ASSUME NEW s \in Slots, link'[c] = link[c], proven \subseteq proven',
             refused \subseteq refused', \A t \in Slots \ {s} : req'[t] = req[t],
             req[s].at = "confirm" /\ req[s].code = c => Done
      PROVE  Done
  BY <1>a DEF SpentLinkConfirms, At
<1>1. ASSUME NEW s \in Slots, Spend(s) PROVE Done
  <2>1. req[s] \in [at : {"mail", "spend", "confirm"}, pair : Pairs, code : Codes]
    BY <1>1, ReqFields DEF Spend, At
  <2>2. req'[s].at = "confirm" /\ req'[s].code = req[s].code
    BY <1>1, <2>1, TypeOKReqs DEF Spend, Go
  <2>3. CASE c = req[s].code
    BY <2>2, <2>3
  <2>4. CASE c # req[s].code
    <3>1. link'[c] = link[c] /\ \A t \in Slots \ {s} : req'[t] = req[t]
      BY <1>1, <2>4, TypeOKReqs DEF Spend, Go
    <3> QED
      BY <1>1, <1>a, <2>4, <3>1 DEF Spend, history
  <2> QED
    BY <2>3, <2>4
<1>2. ASSUME NEW s \in Slots, Confirm(s) PROVE Done
  <2>1. \A t \in Slots \ {s} : req'[t] = req[t]
    BY <1>2, TypeOKReqs DEF Confirm, End
  <2>2. req[s].code = c => link[c].pair = req[s].pair
    BY <1>2 DEF Confirm, At, Linked
  <2>3. req[s].pair \in proven' \/ req[s].code \in refused'
    BY <1>2 DEF Confirm
  <2>4. UNCHANGED link /\ proven \subseteq proven' /\ refused \subseteq refused'
    BY <1>2 DEF Confirm
  <2> QED
    BY <1>a, <2>1, <2>2, <2>3, <2>4
<1>3. ASSUME NEW s \in Slots, Fail(s) PROVE Done
  <2>1. \A t \in Slots \ {s} : req'[t] = req[t]
    BY <1>3, TypeOKReqs DEF Fail, End
  <2>2. req[s].at = "confirm" => req[s].code \in refused'
    BY <1>3 DEF Fail, At
  <2>3. UNCHANGED <<link, proven>> /\ refused \subseteq refused'
    BY <1>3 DEF Fail
  <2> QED
    BY <1>a, <2>1, <2>2, <2>3
<1>4. ASSUME NEW s \in Slots,
             \/ Boot(s) \/ CreateAdmin(s) \/ UpdateWrite(s) \/ Look(s) \/ MailLink(s)
             \/ \E p \in Pairs : CreateUser(s, p) \/ UpdateUser(s, p)
             \/ \E d \in Codes : StoreLink(s, d) \/ VerifyUser(s, d)
      PROVE  Done
  <2>1. \A t \in Slots \ {s} : req'[t] = req[t]
    BY <1>4, TypeOKReqs
       DEF Boot, CreateAdmin, UpdateWrite, Look, MailLink, CreateUser, UpdateUser,
           StoreLink, VerifyUser, Start, End, Go
  <2>2. req[s].at # "confirm"
    BY <1>4 DEF Boot, CreateAdmin, UpdateWrite, Look, MailLink, CreateUser, UpdateUser,
                StoreLink, VerifyUser, Start, At
  <2>3. UNCHANGED <<proven, refused>>
    BY <1>4 DEF Boot, CreateAdmin, UpdateWrite, Look, MailLink, CreateUser, UpdateUser,
                StoreLink, VerifyUser, history
  <2>4. link'[c] = link[c]
    BY <1>4, TypeOKReqs
       DEF Boot, CreateAdmin, UpdateWrite, Look, MailLink, CreateUser, UpdateUser,
           StoreLink, VerifyUser
  <2> QED
    BY <1>a, <2>1, <2>2, <2>3, <2>4
<1>5. ASSUME NEW d \in Codes, Lapse(d) PROVE Done
  <2>1. link'[c] = link[c] /\ UNCHANGED <<req, proven, refused>>
    BY <1>5, TypeOKReqs DEF Lapse
  <2> QED
    BY <2>1 DEF SpentLinkConfirms, At
<1>6. ASSUME UNCHANGED <<link, req, proven, refused>> PROVE Done
  BY <1>6 DEF SpentLinkConfirms, At
<1> QED
  BY <1>1, <1>2, <1>3, <1>4, <1>5, <1>6 DEF Next, RemoveUser, vars, history

(* So a link is never spent for nothing without a refusal                  *)
(* (auth.service.ts:87-92).                                                *)
THEOREM SpentMeansConfirmed == Spec => []SpentLinkConfirms
<1>1. Init => SpentLinkConfirms
  BY DEF Init, SpentLinkConfirms, NoLink
<1> QED
  BY <1>1, InitTyped, TypedStep, SpentStep, PTL DEF Spec, Typed

-----------------------------------------------------------------------------
(* Requests of users are answered by a server that is up, and a server is  *)
(* up, and stays so, once there is a default admin.                        *)
OneAdmin ==
  /\ admins \in {0, 1}
  /\ AdminFirst
  /\ \A s \in Slots : req[s].at \notin {"idle", "admin"} => up

LEMMA OneAdminStep == Typed /\ OneAdmin /\ [Next]_vars => OneAdmin'
<1> SUFFICES ASSUME Typed, OneAdmin, [Next]_vars PROVE OneAdmin'
  OBVIOUS
<1> USE DEF Typed
<1>a. ASSUME NEW s \in Slots, \A t \in Slots \ {s} : req'[t] = req[t],
             admins' \in {0, 1}, up => up',
             req'[s].at \notin {"idle", "admin"} => up',
             up' \/ (\E u \in Users : address'[u] # None) => admins' = 1
      PROVE  OneAdmin'
  BY <1>a DEF OneAdmin, AdminFirst
<1>1. ASSUME NEW s \in Slots, Boot(s) PROVE OneAdmin'
  <2>1. (\A t \in Slots \ {s} : req'[t] = req[t]) /\ UNCHANGED <<admins, address>>
    BY <1>1, TypeOKReqs DEF Boot, Start
  <2>2. CASE NoUser
    <3>1. req'[s].at = "admin" /\ UNCHANGED up
      BY <1>1, <2>2, TypeOKReqs DEF Boot, Start
    <3> QED
      BY <1>a, <2>1, <3>1 DEF OneAdmin, AdminFirst
  <2>3. CASE ~NoUser
    <3>1. req'[s].at = "idle" /\ up'
      BY <1>1, <2>3 DEF Boot, At
    <3>2. admins = 1
      BY <2>3 DEF NoUser, OneAdmin, AdminFirst
    <3> QED
      BY <1>a, <2>1, <3>1, <3>2
  <2> QED
    BY <2>2, <2>3
<1>2. ASSUME NEW s \in Slots, CreateAdmin(s) PROVE OneAdmin'
  <2>1. /\ \A t \in Slots \ {s} : req'[t] = req[t]
        /\ req'[s].at = "idle"
    BY <1>2, TypeOKReqs DEF CreateAdmin, End, NoReq
  <2>2. admins' = 1 /\ (up => up')
    BY <1>2 DEF CreateAdmin, OneAdmin
  <2> QED
    BY <1>a, <2>1, <2>2
<1>3. ASSUME NEW s \in Slots, up,
             \/ UpdateWrite(s) \/ Look(s) \/ MailLink(s) \/ Spend(s) \/ Confirm(s)
             \/ \E p \in Pairs : CreateUser(s, p) \/ UpdateUser(s, p)
             \/ \E c \in Codes : StoreLink(s, c) \/ VerifyUser(s, c)
      PROVE  OneAdmin'
  <2>1. UNCHANGED <<admins, up>>
    BY <1>3 DEF UpdateWrite, Look, MailLink, Spend, Confirm, CreateUser, UpdateUser,
                StoreLink, VerifyUser
  <2> QED
    BY <1>3, <2>1 DEF OneAdmin, AdminFirst
<1>4. ASSUME NEW s \in Slots, Fail(s) PROVE OneAdmin'
  <2>1. /\ \A t \in Slots \ {s} : req'[t] = req[t]
        /\ req'[s].at = "idle"
    BY <1>4, TypeOKReqs DEF Fail, End, NoReq
  <2>2. UNCHANGED <<admins, up, address>>
    BY <1>4 DEF Fail
  <2> QED
    BY <1>a, <2>1, <2>2 DEF OneAdmin, AdminFirst
<1>5. ASSUME NEW s \in Slots,
             \/ UpdateWrite(s) \/ Look(s) \/ MailLink(s) \/ Spend(s) \/ Confirm(s)
             \/ \E p \in Pairs : CreateUser(s, p) \/ UpdateUser(s, p)
             \/ \E c \in Codes : StoreLink(s, c) \/ VerifyUser(s, c)
      PROVE  up
  BY <1>5 DEF UpdateWrite, Look, MailLink, Spend, Confirm, CreateUser, UpdateUser,
              StoreLink, VerifyUser, At, OneAdmin
<1>6. ASSUME UNCHANGED <<admins, up, req, address>> PROVE OneAdmin'
  BY <1>6 DEF OneAdmin, AdminFirst
<1> QED
  BY <1>1, <1>2, <1>3, <1>4, <1>5, <1>6 DEF Next, RemoveUser, Lapse, vars

(* Servers that start together make one default admin, and none answers    *)
(* without it (users.service.ts:35-52).                                    *)
THEOREM OneDefaultAdmin == Spec => []AdminFirst
<1>1. Init => OneAdmin
  BY DEF Init, OneAdmin, AdminFirst, NoReq
<1>2. OneAdmin => AdminFirst
  BY DEF OneAdmin
<1> QED
  BY <1>1, <1>2, InitTyped, TypedStep, OneAdminStep, PTL DEF Spec, Typed

-----------------------------------------------------------------------------
(* A link confirms nothing before it is spent or has lapsed; from then on  *)
(* it is opened no more, and each request that holds it confirms at most   *)
(* once.                                                                   *)
Holders(c) == {s \in Slots : req[s].at \in {"spend", "confirm"} /\ req[s].code = c}

Bounded(c) ==
  /\ uses[c] + Cardinality(Holders(c)) <= Cardinality(Slots)
  /\ link[c].state \in {"unused", "live"} =>
       /\ uses[c] = 0
       /\ \A s \in Slots : req[s].at = "confirm" => req[s].code # c

LEMMA HoldersFit ==
  ASSUME NEW T \in SUBSET Slots
  PROVE  /\ IsFiniteSet(T)
         /\ Cardinality(T) \in Nat /\ Cardinality(T) <= Cardinality(Slots)
         /\ Cardinality(Slots) \in Nat
  BY FS_Subset, FS_CardinalityType, VerificationAssumption

(* A step that begins no request with a link that has been live, and that  *)
(* confirms nothing, keeps the bound.                                      *)
LEMMA BoundedStays ==
  ASSUME Typed, NEW c \in Codes, Bounded(c), uses'[c] = uses[c],
         link'[c].state \in {"unused", "live"} =>
           /\ link[c].state \in {"unused", "live"}
           /\ \A s \in Slots : req'[s].at = "confirm" => req'[s].code # c,
         \/ Holders(c)' \subseteq Holders(c)
         \/ link[c].state = "live"
  PROVE  Bounded(c)'
<1>1. uses[c] \in Nat
  BY DEF Typed, TypeOK
<1>2. Holders(c) \in SUBSET Slots /\ Holders(c)' \in SUBSET Slots
  BY DEF Holders
<1> DEFINE H == Holders(c)
           G == Holders(c)'
<1>3. CASE G \subseteq H
  <2>1. IsFiniteSet(H) /\ Cardinality(H) \in Nat
    BY <1>2, HoldersFit
  <2>2. Cardinality(G) \in Nat /\ Cardinality(G) <= Cardinality(H)
    BY <1>3, <2>1, <1>2, FS_Subset, FS_CardinalityType
  <2>3. Cardinality(Slots) \in Nat
    BY HoldersFit
  <2>4. uses[c] + Cardinality(H) <= Cardinality(Slots)
    BY DEF Bounded
  <2>5. uses[c] + Cardinality(G) <= Cardinality(Slots)
    <3> HIDE DEF H, G
    <3> QED
      BY <1>1, <2>1, <2>2, <2>3, <2>4
  <2> QED
    BY <2>5 DEF Bounded
<1>4. CASE link[c].state = "live"
  <2>1. uses[c] = 0
    BY <1>4 DEF Bounded
  <2>2. Cardinality(G) \in Nat /\ Cardinality(G) <= Cardinality(Slots)
    BY <1>2, HoldersFit
  <2>3. 0 + Cardinality(G) <= Cardinality(Slots)
    <3> HIDE DEF G
    <3> QED
      BY <2>2
  <2> QED
    BY <2>1, <2>3 DEF Bounded
<1> QED
  BY <1>3, <1>4

LEMMA BoundedStep ==
  ASSUME Typed, [Next]_vars, NEW c \in Codes, Bounded(c)
  PROVE  Bounded(c)'
<1> USE DEF Typed
<1>a. ASSUME NEW s \in Slots, \A t \in Slots \ {s} : req'[t] = req[t],
             UNCHANGED uses, UNCHANGED link,
             req'[s].at # "confirm",
             \/ ~(req'[s].at \in {"spend", "confirm"} /\ req'[s].code = c)
             \/ link[c].state = "live"
      PROVE  Bounded(c)'
  <2>1. Holders(c)' \subseteq Holders(c) \/ link[c].state = "live"
    BY <1>a DEF Holders
  <2>2. link'[c].state \in {"unused", "live"} =>
           /\ link[c].state \in {"unused", "live"}
           /\ \A t \in Slots : req'[t].at = "confirm" => req'[t].code # c
    BY <1>a DEF Bounded
  <2> QED
    BY <1>a, <2>1, <2>2, BoundedStays
<1>1. ASSUME NEW s \in Slots,
             \/ Boot(s) \/ CreateAdmin(s) \/ UpdateWrite(s) \/ Look(s) \/ MailLink(s)
             \/ Fail(s)
             \/ \E p \in Pairs : CreateUser(s, p) \/ UpdateUser(s, p)
      PROVE  Bounded(c)'
  <2>1. \A t \in Slots \ {s} : req'[t] = req[t]
    BY <1>1, TypeOKReqs
       DEF Boot, CreateAdmin, UpdateWrite, Look, MailLink, Fail, CreateUser, UpdateUser,
           Start, End, Go
  <2>2. UNCHANGED uses /\ UNCHANGED link
    BY <1>1 DEF Boot, CreateAdmin, UpdateWrite, Look, MailLink, Fail, CreateUser,
                UpdateUser, history
  <2>3. req'[s].at \notin {"spend", "confirm"}
    <3>1. CASE \/ UpdateWrite(s) \/ Look(s)
      <4>1. req[s] \in [at : {"write", "look", "link"}, pair : Pairs, code : {None}]
        BY <3>1, ReqFields DEF UpdateWrite, Look, At
      <4> QED
        BY <3>1, <4>1, TypeOKReqs DEF UpdateWrite, Look, End, Go, NoReq
    <3>2. CASE Boot(s)
      BY <3>2, TypeOKReqs DEF Boot, Start, At
    <3>3. CASE CreateAdmin(s) \/ MailLink(s) \/ Fail(s)
      BY <3>3, TypeOKReqs DEF CreateAdmin, MailLink, Fail, End, NoReq
    <3>4. CASE \E p \in Pairs : CreateUser(s, p) \/ UpdateUser(s, p)
      BY <3>4, TypeOKReqs DEF CreateUser, UpdateUser, Start
    <3> QED
      BY <1>1, <3>1, <3>2, <3>3, <3>4
  <2> QED
    BY <1>a, <2>1, <2>2, <2>3
<1>2. ASSUME NEW s \in Slots, NEW d \in Codes, VerifyUser(s, d) PROVE Bounded(c)'
  <2>1. /\ \A t \in Slots \ {s} : req'[t] = req[t]
        /\ req'[s].at = "spend" /\ req'[s].code = d
        /\ UNCHANGED uses /\ UNCHANGED link
        /\ link[d].state = "live"
    BY <1>2, TypeOKReqs DEF VerifyUser, Start, history
  <2> QED
    BY <1>a, <2>1
<1>3. ASSUME NEW s \in Slots, NEW d \in Codes, StoreLink(s, d) PROVE Bounded(c)'
  <2>1. req[s] \in [at : {"write", "look", "link"}, pair : Pairs, code : {None}]
    BY <1>3, ReqFields DEF StoreLink, At
  <2>2. /\ \A t \in Slots \ {s} : req'[t] = req[t]
        /\ req'[s].at = "mail"
    BY <1>3, <2>1, TypeOKReqs DEF StoreLink
  <2>3. UNCHANGED uses
    BY <1>3 DEF StoreLink
  <2>4. Holders(c)' \subseteq Holders(c)
    BY <2>2 DEF Holders
  <2>5. link'[c].state \in {"unused", "live"} => link[c].state \in {"unused", "live"}
    BY <1>3, TypeOKReqs DEF StoreLink
  <2>6. link'[c].state \in {"unused", "live"} =>
          \A t \in Slots : req'[t].at = "confirm" => req'[t].code # c
    BY <2>2, <2>5 DEF Bounded
  <2> QED
    BY <2>3, <2>4, <2>5, <2>6, BoundedStays
<1>4. ASSUME NEW s \in Slots, Spend(s) PROVE Bounded(c)'
  <2>1. req[s] \in [at : {"mail", "spend", "confirm"}, pair : Pairs, code : Codes]
    BY <1>4, ReqFields DEF Spend, At
  <2>2. /\ \A t \in Slots \ {s} : req'[t] = req[t]
        /\ req'[s].at = "confirm" /\ req'[s].code = req[s].code /\ req[s].at = "spend"
    BY <1>4, <2>1, TypeOKReqs DEF Spend, Go, At
  <2>3. UNCHANGED uses
    BY <1>4 DEF Spend, history
  <2>4. Holders(c)' \subseteq Holders(c)
    BY <2>2 DEF Holders
  <2>5. link'[c].state \in {"unused", "live"} =>
          link[c].state \in {"unused", "live"} /\ c # req[s].code
    <3>1. CASE c # req[s].code
      BY <1>4, <3>1, TypeOKReqs DEF Spend
    <3>2. CASE c = req[s].code
      <4>1. link[c] \in [state : {"live", "spent", "lapsed"}, pair : Pairs]
        <5>1. link[c] \in Links /\ link[c].state # "unused"
          BY <1>4, <3>2, TypeOKReqs DEF Spend, Linked, At
        <5> QED
          BY <5>1 DEF Links, NoLink
      <4>2. link'[c].state = IF link[c].state = "live" THEN "spent" ELSE link[c].state
        BY <1>4, <3>2, <4>1, TypeOKReqs DEF Spend
      <4> QED
        BY <4>1, <4>2
    <3> QED
      BY <3>1, <3>2
  <2>6. link'[c].state \in {"unused", "live"} =>
          \A t \in Slots : req'[t].at = "confirm" => req'[t].code # c
    BY <2>2, <2>5 DEF Bounded
  <2> QED
    BY <2>3, <2>4, <2>5, <2>6, BoundedStays
<1>5. ASSUME NEW s \in Slots, Confirm(s) PROVE Bounded(c)'
  <2>1. /\ \A t \in Slots \ {s} : req'[t] = req[t]
        /\ req'[s].at = "idle" /\ req[s].at = "confirm"
        /\ UNCHANGED link
    BY <1>5, TypeOKReqs DEF Confirm, End, NoReq, At
  <2>2. Holders(c)' \subseteq Holders(c)
    BY <2>1 DEF Holders
  <2>3. CASE uses'[c] = uses[c]
    BY <2>1, <2>2, <2>3, BoundedStays DEF Bounded
  <2>4. CASE uses'[c] # uses[c]
    <3>1. req[s].code = c /\ uses'[c] = uses[c] + 1
      BY <1>5, <2>4 DEF Confirm, TypeOK
    <3>2. link[c].state \notin {"unused", "live"}
      BY <2>1, <3>1 DEF Bounded
    <3>3. Holders(c)' = Holders(c) \ {s} /\ s \in Holders(c)
      BY <2>1, <3>1 DEF Holders
    <3> DEFINE H == Holders(c)
               G == Holders(c)'
    <3>4. IsFiniteSet(H) /\ Cardinality(H) \in Nat /\ Cardinality(Slots) \in Nat
      BY HoldersFit DEF Holders
    <3>5. Cardinality(G) = Cardinality(H) - 1
      BY <3>3, <3>4, FS_RemoveElement
    <3>6. uses[c] \in Nat /\ uses[c] + Cardinality(H) <= Cardinality(Slots)
      BY DEF Bounded, TypeOK
    <3>7. uses'[c] + Cardinality(G) <= Cardinality(Slots)
      <4> HIDE DEF G, H
      <4> QED
        BY <3>1, <3>4, <3>5, <3>6
    <3> QED
      BY <2>1, <3>2, <3>7 DEF Bounded
  <2> QED
    BY <2>3, <2>4
<1>6. ASSUME NEW d \in Codes, Lapse(d) PROVE Bounded(c)'
  <2>1. /\ UNCHANGED <<req, uses>>
        /\ link'[c].state \in {"unused", "live"} => link'[c].state = link[c].state
    BY <1>6, TypeOKReqs DEF Lapse
  <2>2. Holders(c)' \subseteq Holders(c)
    BY <2>1 DEF Holders
  <2> QED
    BY <2>1, <2>2, BoundedStays DEF Bounded
<1>7. ASSUME UNCHANGED <<req, uses, link>> PROVE Bounded(c)'
  BY <1>7 DEF Bounded, Holders
<1> QED
  BY <1>1, <1>2, <1>3, <1>4, <1>5, <1>6, <1>7 DEF Next, RemoveUser, vars, history

(* A link opened many times confirms its address at most as often as       *)
(* requests for it overlap (auth.service.ts:84-87).                        *)
THEOREM UsesBounded == Spec => []LinkUsesBounded
<1> DEFINE AllBounded == \A c \in Codes : Bounded(c)
<1>1. Init => AllBounded
  <2> SUFFICES ASSUME Init, NEW c \in Codes PROVE Bounded(c)
    OBVIOUS
  <2>1. Holders(c) = {} /\ uses[c] = 0
    BY DEF Init, Holders, NoReq
  <2>2. Cardinality(Holders(c)) = 0 /\ Cardinality(Slots) \in Nat
    BY <2>1, FS_EmptySet, HoldersFit
  <2> QED
    BY <2>1, <2>2 DEF Init, Bounded, NoReq
<1>2. Typed /\ AllBounded /\ [Next]_vars => AllBounded'
  BY BoundedStep
<1>3. Typed /\ AllBounded => LinkUsesBounded
  <2> SUFFICES ASSUME Typed, NEW c \in Codes, Bounded(c)
               PROVE  uses[c] <= Cardinality(Slots)
    BY DEF LinkUsesBounded
  <2> DEFINE H == Holders(c)
  <2>1. uses[c] \in Nat /\ uses[c] + Cardinality(H) <= Cardinality(Slots)
    BY DEF Typed, TypeOK, Bounded
  <2>2. Cardinality(H) \in Nat /\ Cardinality(Slots) \in Nat
    BY HoldersFit DEF Holders
  <2> HIDE DEF H
  <2> QED
    BY <2>1, <2>2
<1> QED
  BY <1>1, <1>2, <1>3, InitTyped, TypedStep, PTL DEF Spec, Typed
=============================================================================
