--------------------------- MODULE ResponseCache ---------------------------
(***************************************************************************)
(* The answers of the GET handlers of users and properties, kept in Redis  *)
(* by RedisCacheInterceptor, and the handlers that write what the answers  *)
(* were made from.  Each action is one call to MongoDB or Redis.           *)
(*                                                                         *)
(* Of an answer only this matters here: whether it is what the database    *)
(* would answer now ("current") or was made before a write to one of its   *)
(* documents ("old").  An entry is named after the url as it was written,  *)
(* query string included, so one document has as many entries as urls.     *)
(* Users and listings are cleared by a pattern that takes in all of them   *)
(* (a profile is found under /profile and under /users/:id, a listing page *)
(* by page); one entry stands for those.  The entries of a property are    *)
(* deleted by name and are told apart.                                     *)
(***************************************************************************)
EXTENDS FiniteSets

CONSTANTS
  Users,       \* ids of the users collection
  Properties,  \* ids of the properties collection
  Urls,        \* ways to write the url of a property: plain, with a query
  Gets,        \* slots of the GET requests being handled at one time
  Puts,        \* slots of the writing requests
  Asked,       \* bound: the entries GET requests ask for
  None         \* no document, no entry

ASSUME CacheAssumption ==
  /\ Users \cap Properties = {}
  /\ None \notin Users \cup Properties \cup Urls

Docs == Users \cup Properties

Family == {"GET_USER", "LIST_USERS", "GET_PROPERTY", "LIST_PROPERTIES"}

(* The names of the entries: `${CacheKey}-${path}`, where express puts the *)
(* query string into the path.                                             *)
Keys ==
  [family : {"GET_USER"}, doc : Users, url : {None}]
  \cup [family : {"GET_PROPERTY"}, doc : Properties, url : Urls]
  \cup [family : {"LIST_USERS", "LIST_PROPERTIES"}, doc : {None}, url : {None}]

(* The entries that are made from document d. *)
Over(d) ==
  {k \in Keys :
     \/ k.doc = d
     \/ k.family = "LIST_USERS" /\ d \in Users
     \/ k.family = "LIST_PROPERTIES" /\ d \in Properties}

ASSUME AskedAssumption == Asked \subseteq Keys

VARIABLES
  doc,     \* a document is "absent", "shown" or "hidden"
  cache,   \* the entries in Redis
  get,     \* the GET request in each slot
  put,     \* the writing request in each slot
  excused  \* history: entries stored too late, or passed over by a write

vars == <<doc, cache, get, put, excused>>

NoGet == [at |-> "idle", key |-> None, answer |-> "none"]
NoPut == [at |-> "idle", doc |-> None, url |-> None, hide |-> FALSE,
          search |-> {}, found |-> {}]

TypeOK ==
  /\ doc \in [Docs -> {"absent", "shown", "hidden"}]
  /\ cache \in [Keys -> {"none", "current", "old"}]
  /\ get \in [Gets -> {NoGet}
                \cup [at : {"read"}, key : Keys, answer : {"none"}]
                \cup [at : {"store"}, key : Keys, answer : {"current", "old"}]]
  /\ put \in [Puts -> {NoPut}
                \cup [at : {"write", "answer", "clear"}, doc : Docs,
                      url : Urls \cup {None}, hide : BOOLEAN,
                      search : SUBSET Family, found : SUBSET Keys]]
  /\ excused \subseteq Keys

Init ==
  /\ doc = [d \in Docs |-> "absent"]
  /\ cache = [k \in Keys |-> "none"]
  /\ get = [g \in Gets |-> NoGet]
  /\ put = [p \in Puts |-> NoPut]
  /\ excused = {}

-----------------------------------------------------------------------------
(* The entries of S leave Redis. *)
Drop(S) ==
  /\ cache' = [k \in Keys |-> IF k \in S THEN "none" ELSE cache[k]]
  /\ excused' = excused \ S

(* Document d is written: what was answered or read from it is old. *)
Outdate(d) ==
  /\ cache' = [k \in Keys |-> IF k \in Over(d) /\ cache[k] # "none"
                              THEN "old" ELSE cache[k]]
  /\ get' = [g \in Gets |->
               IF get[g].at = "store" /\ get[g].key \in Over(d)
               THEN [get[g] EXCEPT !.answer = "old"] ELSE get[g]]

-----------------------------------------------------------------------------
(* A GET handler and its interceptor.  A hit changes nothing. *)

Lookup(g, k) ==
  /\ get[g].at = "idle"
  /\ cache[k] = "none"
  /\ get' = [get EXCEPT ![g] = [at |-> "read", key |-> k, answer |-> "none"]]
  /\ UNCHANGED <<doc, cache, put, excused>>

(* findById hides a removed user, getProperty does not hide a property.    *)
(* What is not found is answered 404 and not stored.                       *)
NotFound(k) ==
  \/ k.family = "GET_USER" /\ doc[k.doc] # "shown"
  \/ k.family = "GET_PROPERTY" /\ doc[k.doc] = "absent"

(* Slip: not found is stored like an answer. *)
ReadAny(g) ==
  /\ get[g].at = "read"
  /\ get' = [get EXCEPT ![g] =
               IF NotFound(@.key) THEN [@ EXCEPT !.at = "store"]
               ELSE [@ EXCEPT !.at = "store", !.answer = "current"]]
  /\ UNCHANGED <<doc, cache, put, excused>>

Read(g) ==
  /\ get[g].at = "read"
  /\ get' = [get EXCEPT ![g] =
               IF NotFound(@.key) THEN NoGet
               ELSE [@ EXCEPT !.at = "store", !.answer = "current"]]
  /\ UNCHANGED <<doc, cache, put, excused>>

(* The answer is sent, then stored over whatever is there. *)
Store(g) ==
  LET k == get[g].key IN
    /\ get[g].at = "store"
    /\ cache' = [cache EXCEPT ![k] = get[g].answer]
    /\ excused' = IF get[g].answer = "old" THEN excused \cup {k}
                                           ELSE excused \ {k}
    /\ get' = [get EXCEPT ![g] = NoGet]
    /\ UNCHANGED <<doc, put>>

(* Slip: listings are stored without a lifetime. *)
ExpireSingle(k) ==
  /\ cache[k] # "none"
  /\ k.doc # None
  /\ Drop({k})
  /\ UNCHANGED <<doc, get, put>>

(* CACHE_TTL runs out, or Redis evicts the entry. *)
Expire(k) ==
  /\ cache[k] # "none"
  /\ Drop({k})
  /\ UNCHANGED <<doc, get, put>>

(* A call rejects or the process dies. *)
FailGet(g) ==
  /\ get[g].at # "idle"
  /\ get' = [get EXCEPT ![g] = NoGet]
  /\ UNCHANGED <<doc, cache, put, excused>>

-----------------------------------------------------------------------------
(* Writes that clear nothing. *)

WriteOver(d, state) ==
  /\ doc' = [doc EXCEPT ![d] = state]
  /\ Outdate(d)
  /\ excused' = excused \cup {k \in Over(d) : cache[k] # "none"}
  /\ UNCHANGED put

CreateUser(u) == doc[u] = "absent" /\ WriteOver(u, "shown")

VerifyUser(u) == doc[u] # "absent" /\ WriteOver(u, doc[u])

CreateProperty(p) == doc[p] = "absent" /\ WriteOver(p, "shown")

UpdatePropertyImages(p) == doc[p] # "absent" /\ WriteOver(p, doc[p])

-----------------------------------------------------------------------------
(* Writes that clear what they make old. *)

Start(w, d, url, hide) ==
  /\ put[w].at = "idle"
  /\ put' = [put EXCEPT ![w] = [at |-> "write", doc |-> d, url |-> url,
                                hide |-> hide, search |-> {}, found |-> {}]]
  /\ UNCHANGED <<doc, cache, get, excused>>

(* updateUser and removeUser behind PATCH and DELETE /profile *)
UpdateProfile(w, u) == doc[u] = "shown" /\ Start(w, u, None, FALSE)
RemoveProfile(w, u) == doc[u] = "shown" /\ Start(w, u, None, TRUE)

UpdateProperty(w, p, url) == doc[p] # "absent" /\ Start(w, p, url, FALSE)
RemoveProperty(w, p, url) == doc[p] # "absent" /\ Start(w, p, url, TRUE)

(* Slip: the listings are forgotten. *)
SearchesSingle(d) == IF d \in Users THEN {"GET_USER"} ELSE {}

(* The patterns to search Redis for.  A property's own entry is not        *)
(* searched for: updateProperty knows its name.                            *)
Searches(d) ==
  IF d \in Users THEN {"LIST_USERS", "GET_USER"} ELSE {"LIST_PROPERTIES"}

(* Slip: the property's own entry is forgotten. *)
OwnNone(d, url) == {}

(* `GET_PROPERTY-${request.url}`: the entry under the url of this request. *)
Own(d, url) ==
  {k \in Keys : k.family = "GET_PROPERTY" /\ k.doc = d /\ k.url = url}

(* What a write of property d passes over: its entries under other urls. *)
Elsewhere(d, url) ==
  {k \in Keys : k.family = "GET_PROPERTY" /\ k.doc = d /\ k.url # url}

(* The document is stored.  updateUser goes on to the mail and the image,  *)
(* updateProperty to the clearing.                                         *)
Write(w) ==
  LET d == put[w].doc IN
    /\ put[w].at = "write"
    /\ doc' = [doc EXCEPT ![d] = IF put[w].hide THEN "hidden" ELSE @]
    /\ Outdate(d)
    /\ put' = [put EXCEPT ![w].at = IF d \in Users THEN "answer" ELSE "clear",
                          ![w].search = Searches(d),
                          ![w].found = Own(d, put[w].url)]
    /\ excused' = excused \cup
                    {k \in Elsewhere(d, put[w].url) : cache[k] # "none"}

(* The handler of a user returns; only now the interceptor starts to clear *)
(* and nobody waits for it.                                                *)
Answer(w) ==
  /\ put[w].at = "answer"
  /\ put' = [put EXCEPT ![w].at = "clear"]
  /\ UNCHANGED <<doc, cache, get, excused>>

(* KEYS: the names that match the pattern now.  The interceptor searches   *)
(* for its patterns side by side, updateProperty only after the deletion   *)
(* of the property's own entry.                                            *)
FindKeys(w, f) ==
  /\ put[w].at = "clear"
  /\ f \in put[w].search
  /\ put[w].doc \in Properties => put[w].found = {}
  /\ put' = [put EXCEPT
               ![w].search = @ \ {f},
               ![w].found = @ \cup {k \in Keys : k.family = f
                                                 /\ cache[k] # "none"}]
  /\ UNCHANGED <<doc, cache, get, excused>>

(* DEL of one name *)
DelKey(w, k) ==
  /\ put[w].at = "clear"
  /\ k \in put[w].found
  /\ Drop({k})
  /\ put' = [put EXCEPT ![w].found = @ \ {k}]
  /\ UNCHANGED <<doc, get>>

Cleared(w) ==
  /\ put[w].at = "clear"
  /\ put[w].search = {}
  /\ put[w].found = {}
  /\ put' = [put EXCEPT ![w] = NoPut]
  /\ UNCHANGED <<doc, cache, get, excused>>

(* The entries a request that has written is still going to delete. *)
Reach(w) ==
  IF put[w].at \in {"answer", "clear"}
  THEN put[w].found \cup {k \in Keys : k.family \in put[w].search}
  ELSE {}

(* A call rejects (the write, a mail, an image that is no base64, Redis)   *)
(* or the process dies.  Nothing is cleared any more.                      *)
FailPut(w) ==
  /\ put[w].at # "idle"
  /\ put' = [put EXCEPT ![w] = NoPut]
  /\ excused' = excused \cup {k \in Reach(w) : cache[k] = "old"}
  /\ UNCHANGED <<doc, cache, get>>

-----------------------------------------------------------------------------
(* A GET route with a cache key. *)
GetStep(g) ==
  \/ \E k \in Asked : Lookup(g, k)
  \/ Read(g) \/ Store(g) \/ FailGet(g)

(* A PATCH or DELETE route. *)
PutStep(w) ==
  \/ \E u \in Users : UpdateProfile(w, u) \/ RemoveProfile(w, u)
  \/ \E p \in Properties, url \in Urls :
       UpdateProperty(w, p, url) \/ RemoveProperty(w, p, url)
  \/ Write(w) \/ Answer(w) \/ Cleared(w) \/ FailPut(w)
  \/ \E f \in Family : FindKeys(w, f)
  \/ \E k \in Keys : DelKey(w, k)

(* The POST routes, the link of a verification, the upload of images. *)
PlainWrite ==
  \/ \E u \in Users : CreateUser(u) \/ VerifyUser(u)
  \/ \E p \in Properties : CreateProperty(p) \/ UpdatePropertyImages(p)

Next ==
  \/ \E g \in Gets : GetStep(g)
  \/ \E w \in Puts : PutStep(w)
  \/ \E k \in Keys : Expire(k)
  \/ PlainWrite

(* Every entry is stored with a lifetime. *)
Fairness == \A k \in Keys : WF_vars(Expire(k))

Spec == Init /\ [][Next]_vars /\ Fairness

-----------------------------------------------------------------------------
(* An old answer in the cache has a reason: the write that made it old is  *)
(* about to delete it, or has failed, or is one that deletes nothing, or   *)
(* the answer came from a GET that the write overtook, or it is a          *)
(* property's under a url other than that of the request that wrote.  So   *)
(* once an updateProfile that met no slow GET has cleared, nothing old of  *)
(* the user is left; of a property the listings are current and the entry  *)
(* under the url of the request is, while its entries under other urls     *)
(* stay old until they lapse.  Other writes and clearings under way change *)
(* nothing of it (redis-cache-clear.interceptor.ts:22,                     *)
(* properties.service.ts:84-87).                                           *)
OldHasReason ==
  \A k \in Keys :
    cache[k] = "old" => k \in excused \/ \E w \in Puts : k \in Reach(w)

(* Old answers do not outlive the writes for good, however the writes and  *)
(* clearings ended: once nothing is written any more every entry is or     *)
(* becomes current and stays so (redis-cache.module.ts: ttl).              *)
Writes == PlainWrite \/ \E w \in Puts : Write(w)

Quiescent == <>[][~Writes]_vars

SettlesCurrent == Quiescent => \A k \in Keys : <>[](cache[k] # "old")
=============================================================================
