------------------------ MODULE ResponseCache_proofs ------------------------
(***************************************************************************)
(* Every old answer in the cache has a reason, for any users, properties,  *)
(* urls and requests at a time, failures included.  The property is        *)
(* inductive once the types are known: whoever makes an entry old becomes  *)
(* its reason, and no reason goes away before the entry does or another    *)
(* reason takes over.                                                      *)
(***************************************************************************)
EXTENDS ResponseCache, TLAPS

LEMMA TypeInit == Init => TypeOK
  BY DEF Init, TypeOK

LEMMA TypeStep == TypeOK /\ [Next]_vars => TypeOK'
<1> SUFFICES ASSUME TypeOK, [Next]_vars PROVE TypeOK'
  OBVIOUS
<1> USE CacheAssumption, AskedAssumption DEF TypeOK
<1>1. CASE UNCHANGED vars
  BY <1>1 DEF vars
<1>2. ASSUME NEW g \in Gets, NEW k \in Keys, Lookup(g, k) PROVE TypeOK'
  BY <1>2 DEF Lookup
<1>3. ASSUME NEW g \in Gets, Read(g) PROVE TypeOK'
  <2>1. /\ get[g].key \in Keys
        /\ get[g] = [at |-> "read", key |-> get[g].key, answer |-> "none"]
    BY <1>3 DEF Read, NoGet
  <2>2. \/ get'[g] = NoGet
        \/ get'[g] = [at |-> "store", key |-> get[g].key,
                      answer |-> "current"]
    BY <1>3, <2>1 DEF Read
  <2>3. get' = [get EXCEPT ![g] = get'[g]]
    BY <1>3 DEF Read
  <2> QED
    BY <1>3, <2>1, <2>2, <2>3 DEF Read
<1>4. ASSUME NEW g \in Gets, Store(g) PROVE TypeOK'
  BY <1>4 DEF Store, NoGet
<1>5. ASSUME NEW g \in Gets, FailGet(g) PROVE TypeOK'
  BY <1>5 DEF FailGet
<1>6. ASSUME NEW k \in Keys, Expire(k) PROVE TypeOK'
  BY <1>6 DEF Expire, Drop
<1>7. ASSUME NEW d \in Docs, Outdate(d)
      PROVE  /\ cache' \in [Keys -> {"none", "current", "old"}]
             /\ get' \in [Gets -> {NoGet}
                  \cup [at : {"read"}, key : Keys, answer : {"none"}]
                  \cup [at : {"store"}, key : Keys,
                        answer : {"current", "old"}]]
  BY <1>7 DEF Outdate, NoGet
<1>8. ASSUME PlainWrite PROVE TypeOK'
  <2>1. PICK d \in Docs, state \in {"shown", "hidden", "absent"} :
             WriteOver(d, state)
    BY <1>8 DEF PlainWrite, CreateUser, VerifyUser, CreateProperty,
                UpdatePropertyImages, Docs
  <2> QED
    BY <2>1, <1>7 DEF WriteOver, Over
<1>9. ASSUME NEW w \in Puts, NEW d \in Docs, NEW url \in Urls \cup {None},
             NEW hide \in BOOLEAN, Start(w, d, url, hide)
      PROVE  TypeOK'
  BY <1>9 DEF Start
<1>10. ASSUME NEW w \in Puts, Write(w) PROVE TypeOK'
  <2> DEFINE d == put[w].doc
             Put == [at : {"write", "answer", "clear"}, doc : Docs,
                     url : Urls \cup {None}, hide : BOOLEAN,
                     search : SUBSET Family, found : SUBSET Keys]
  <2>1. put[w] \in Put /\ d \in Docs
    BY <1>10 DEF Write, NoPut
  <2>2. /\ Searches(d) \in SUBSET Family
        /\ Own(d, put[w].url) \in SUBSET Keys
        /\ Elsewhere(d, put[w].url) \in SUBSET Keys
    BY DEF Searches, Own, Elsewhere, Family
  <2>3. put' = [put EXCEPT ![w] = put'[w]] /\ put'[w] \in Put
    <3> HIDE DEF d
    <3> QED
      BY <1>10, <2>1, <2>2 DEF Write, d
  <2>4. put' \in [Puts -> {NoPut} \cup Put]
    BY <2>3
  <2>5. doc' \in [Docs -> {"absent", "shown", "hidden"}]
    BY <1>10, <2>1 DEF Write
  <2> QED
    BY <1>10, <1>7, <2>1, <2>2, <2>4, <2>5 DEF Write
<1>11. ASSUME NEW w \in Puts, Answer(w) PROVE TypeOK'
  <2>1. put[w] \in [at : {"write", "answer", "clear"}, doc : Docs,
                    url : Urls \cup {None}, hide : BOOLEAN,
                    search : SUBSET Family, found : SUBSET Keys]
    BY <1>11 DEF Answer, NoPut
  <2> QED
    BY <1>11, <2>1 DEF Answer
<1>12. ASSUME NEW w \in Puts, NEW f \in Family, FindKeys(w, f) PROVE TypeOK'
  <2>1. put[w] \in [at : {"write", "answer", "clear"}, doc : Docs,
                    url : Urls \cup {None}, hide : BOOLEAN,
                    search : SUBSET Family, found : SUBSET Keys]
    BY <1>12 DEF FindKeys, NoPut
  <2>2. put'[w] \in [at : {"write", "answer", "clear"}, doc : Docs,
                     url : Urls \cup {None}, hide : BOOLEAN,
                     search : SUBSET Family, found : SUBSET Keys]
    BY <1>12, <2>1 DEF FindKeys
  <2>3. put' = [put EXCEPT ![w] = put'[w]]
    BY <1>12 DEF FindKeys
  <2> QED
    BY <1>12, <2>2, <2>3 DEF FindKeys
<1>13. ASSUME NEW w \in Puts, NEW k \in Keys, DelKey(w, k) PROVE TypeOK'
  BY <1>13 DEF DelKey, Drop, NoPut
<1>14. ASSUME NEW w \in Puts, Cleared(w) PROVE TypeOK'
  BY <1>14 DEF Cleared
<1>15. ASSUME NEW w \in Puts, FailPut(w) PROVE TypeOK'
  BY <1>15 DEF FailPut, Reach, NoPut
<1> QED
  BY <1>1, <1>2, <1>3, <1>4, <1>5, <1>6, <1>8, <1>9, <1>10, <1>11, <1>12,
     <1>13, <1>14, <1>15
     DEF Next, GetStep, PutStep, UpdateProfile, RemoveProfile,
         UpdateProperty, RemoveProperty, Docs

(* What a write makes old is what its clearing reaches, or a property's    *)
(* under another url.                                                      *)
LEMMA ReachCovers ==
  ASSUME NEW d \in Docs, NEW k \in Over(d), NEW url
  PROVE  \/ k \in Own(d, url)
         \/ k.family \in Searches(d)
         \/ k \in Elsewhere(d, url)
  BY CacheAssumption DEF Over, Own, Elsewhere, Searches, Keys, Docs

LEMMA ReasonStep == TypeOK /\ OldHasReason /\ [Next]_vars => OldHasReason'
<1> SUFFICES ASSUME TypeOK, OldHasReason, [Next]_vars,
                    NEW k \in Keys, cache'[k] = "old"
             PROVE  k \in excused' \/ \E w \in Puts : k \in Reach(w)'
  BY DEF OldHasReason
<1> DEFINE Reason == k \in excused' \/ \E w \in Puts : k \in Reach(w)'
<1> USE CacheAssumption, AskedAssumption
    DEF TypeOK, OldHasReason, Reach
<1>1. CASE UNCHANGED vars
  BY <1>1 DEF vars
<1>2. ASSUME NEW g \in Gets, NEW l \in Keys, Lookup(g, l) PROVE Reason
  BY <1>2 DEF Lookup
<1>3. ASSUME NEW g \in Gets, Read(g) PROVE Reason
  BY <1>3 DEF Read
<1>4. ASSUME NEW g \in Gets, Store(g) PROVE Reason
  BY <1>4 DEF Store, NoGet
<1>5. ASSUME NEW g \in Gets, FailGet(g) PROVE Reason
  BY <1>5 DEF FailGet
<1>6. ASSUME NEW l \in Keys, Expire(l) PROVE Reason
  BY <1>6 DEF Expire, Drop
<1>8. ASSUME PlainWrite PROVE Reason
  <2>1. PICK d \in Docs, state \in {"shown", "hidden", "absent"} :
             WriteOver(d, state)
    BY <1>8 DEF PlainWrite, CreateUser, VerifyUser, CreateProperty,
                UpdatePropertyImages, Docs
  <2> QED
    BY <2>1 DEF WriteOver, Outdate
<1>9. ASSUME NEW w \in Puts, NEW d \in Docs, NEW url \in Urls \cup {None},
             NEW hide \in BOOLEAN, Start(w, d, url, hide)
      PROVE  Reason
  BY <1>9 DEF Start
<1>10. ASSUME NEW w \in Puts, Write(w) PROVE Reason
  <2>1. put[w].doc \in Docs
    BY <1>10 DEF Write, NoPut
  <2>2. CASE k \in Over(put[w].doc)
    <3>1. cache[k] # "none"
      BY <1>10, <2>2 DEF Write, Outdate
    <3>2. CASE k \in Elsewhere(put[w].doc, put[w].url)
      BY <1>10, <3>1, <3>2 DEF Write
    <3>3. CASE \/ k \in Own(put[w].doc, put[w].url)
               \/ k.family \in Searches(put[w].doc)
      BY <1>10, <2>1, <3>3 DEF Write, NoPut
    <3> QED
      BY <2>1, <2>2, <3>2, <3>3, ReachCovers
  <2>3. CASE k \notin Over(put[w].doc)
    BY <1>10, <2>3 DEF Write, Outdate
  <2> QED
    BY <2>2, <2>3
<1>11. ASSUME NEW w \in Puts, Answer(w) PROVE Reason
  BY <1>11 DEF Answer, NoPut
<1>12. ASSUME NEW w \in Puts, NEW f \in Family, FindKeys(w, f) PROVE Reason
  BY <1>12 DEF FindKeys, NoPut
<1>13. ASSUME NEW w \in Puts, NEW l \in Keys, DelKey(w, l) PROVE Reason
  BY <1>13 DEF DelKey, Drop, NoPut
<1>14. ASSUME NEW w \in Puts, Cleared(w) PROVE Reason
  BY <1>14 DEF Cleared
<1>15. ASSUME NEW w \in Puts, FailPut(w) PROVE Reason
  BY <1>15 DEF FailPut
<1> QED
  BY <1>1, <1>2, <1>3, <1>4, <1>5, <1>6, <1>8, <1>9, <1>10, <1>11, <1>12,
     <1>13, <1>14, <1>15
     DEF Next, GetStep, PutStep, UpdateProfile, RemoveProfile,
         UpdateProperty, RemoveProperty, Docs

(* The entries, the requests and the documents keep their types. *)
THEOREM CacheTypeCorrect == Spec => []TypeOK
  BY TypeInit, TypeStep, PTL DEF Spec

(* An answer that is out of date is about to be deleted, was passed over   *)
(* by a write that failed, that clears nothing or that came under another  *)
(* url of the property, or was stored by a GET that a write overtook       *)
(* (redis-cache-clear.interceptor.ts:22, properties.service.ts:84-87).     *)
THEOREM OldAnswersExplained == Spec => []OldHasReason
<1>1. Init => OldHasReason
  BY DEF Init, OldHasReason
<1> QED
  BY <1>1, CacheTypeCorrect, ReasonStep, PTL DEF Spec

-----------------------------------------------------------------------------
(* Nothing old under this name, in Redis or on the way to it. *)
UpToDate(k) ==
  /\ cache[k] # "old"
  /\ \A g \in Gets : get[g].key = k => get[g].answer # "old"

(* Only a write ends that: no order of slow GETs, clearings that end late  *)
(* or break off, and lapsing entries brings an old answer back.            *)
StaysUpToDate == [][\A k \in Keys : UpToDate(k) /\ ~Writes => UpToDate(k)']_vars

LEMMA UpToDateStep ==
  ASSUME TypeOK, [Next]_vars, ~Writes, NEW k \in Keys, UpToDate(k)
  PROVE  UpToDate(k)'
<1> USE CacheAssumption, AskedAssumption DEF TypeOK, UpToDate
<1>1. CASE UNCHANGED vars
  BY <1>1 DEF vars
<1>2. ASSUME NEW g \in Gets, NEW l \in Keys, Lookup(g, l) PROVE UpToDate(k)'
  BY <1>2 DEF Lookup
<1>3. ASSUME NEW g \in Gets, Read(g) PROVE UpToDate(k)'
  BY <1>3 DEF Read, NoGet
<1>4. ASSUME NEW g \in Gets, Store(g) PROVE UpToDate(k)'
  BY <1>4 DEF Store, NoGet
<1>5. ASSUME NEW g \in Gets, FailGet(g) PROVE UpToDate(k)'
  BY <1>5 DEF FailGet, NoGet
<1>6. ASSUME NEW l \in Keys, Expire(l) PROVE UpToDate(k)'
  BY <1>6 DEF Expire, Drop
<1>7. ASSUME NEW w \in Puts, NEW d \in Docs, NEW url \in Urls \cup {None},
             NEW hide \in BOOLEAN, Start(w, d, url, hide)
      PROVE  UpToDate(k)'
  BY <1>7 DEF Start
<1>8. ASSUME NEW w \in Puts, Answer(w) \/ Cleared(w) \/ FailPut(w)
      PROVE  UpToDate(k)'
  BY <1>8 DEF Answer, Cleared, FailPut
<1>9. ASSUME NEW w \in Puts, NEW f \in Family, FindKeys(w, f)
      PROVE  UpToDate(k)'
  BY <1>9 DEF FindKeys
<1>10. ASSUME NEW w \in Puts, NEW l \in Keys, DelKey(w, l)
       PROVE  UpToDate(k)'
  BY <1>10 DEF DelKey, Drop
<1> QED
  BY <1>1, <1>2, <1>3, <1>4, <1>5, <1>6, <1>7, <1>8, <1>9, <1>10
     DEF Next, Writes, GetStep, PutStep, UpdateProfile, RemoveProfile,
         UpdateProperty, RemoveProperty, Docs

(* What SettlesCurrent rests on: when nothing is written, what is up to    *)
(* date stays so; what is old only has to be stored, at most once more for *)
(* each GET under way, and to lapse (redis-cache.interceptor.ts,           *)
(* redis-cache.module.ts: ttl).                                            *)
THEOREM OnlyWritesOutdate == Spec => StaysUpToDate
<1>1. TypeOK /\ [Next]_vars
        => \A k \in Keys : UpToDate(k) /\ ~Writes => UpToDate(k)'
  BY UpToDateStep
<1> QED
  BY <1>1, CacheTypeCorrect, PTL DEF Spec, StaysUpToDate
=============================================================================
