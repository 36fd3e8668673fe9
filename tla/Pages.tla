-------------------------------- MODULE Pages --------------------------------
(***************************************************************************)
(* A listing read page by page while documents come and go: listUsers,     *)
(* listProperties, listRents, listTransactions and listNotifications, each *)
(* a query sorted by createdAt, cut with `limit` and `offset`.  A reader   *)
(* asks for page after page until one is not full.  Between two pages      *)
(* other requests change the collection, and but for rents an answer may   *)
(* come out of the response cache.                                         *)
(***************************************************************************)
EXTENDS Naturals, FiniteSets, SequencesExt

CONSTANTS
  Docs,      \* documents the listing's filter may select
  limit,     \* documents on a page
  MaxTime,   \* bound: the clock
  None       \* no answer, no date

ASSUME PagesAssumption ==
  /\ IsFiniteSet(Docs)
  /\ limit \in Nat \ {0}
  /\ MaxTime \in Nat \ {0}
  /\ \A answer \in SUBSET Docs : answer # None

VARIABLES
  kind,     \* the collection listed; two and two are listed alike
  sort,     \* "asc" or "desc"
  maxDate,  \* the latest createdAt asked for, None for the time of the query
  now,      \* the clock
  created,  \* createdAt, 0 for a document not made yet
  list,     \* the documents the filter selects
  cache,    \* the answer stored for each page
  at,       \* the reader is "idle", "reading" or "over"
  offset,   \* the page it asks for next
  seen,     \* history: documents it has had
  again,    \* history: it has had a document more than once
  start,    \* history: documents selected when it began
  joined,   \* history: a document was selected since
  late,     \* history: ... which had been made some time before
  parted,   \* history: a document ceased to be selected since
  stale     \* history: an answer was not what the database would have said

query == <<kind, sort, maxDate>>
history == <<seen, again, start, joined, late, parted, stale>>
vars == <<query, now, created, list, cache, at, offset, history>>

(* Users and properties are hidden, and edited so that they match the      *)
(* query no longer; the rest stays.  Transactions and notifications can be *)
(* asked for up to a date.  listRents has no cache key.                    *)
CanPart == kind = "users, properties"
CanDate == kind = "transactions, notifications"
Cached == kind # "rents"

Offsets == 0..(Cardinality(Docs) \div limit)

TypeOK ==
  /\ kind \in {"users, properties", "rents", "transactions, notifications"}
  /\ sort \in {"asc", "desc"}
  /\ maxDate \in 1..MaxTime \cup {None}
  /\ now \in 1..MaxTime
  /\ created \in [Docs -> 0..now]
  /\ list \subseteq {d \in Docs : created[d] > 0}
  /\ cache \in [Offsets -> (SUBSET Docs) \cup {None}]
  /\ \A p \in Offsets : cache[p] # None => Cardinality(cache[p]) <= limit
  /\ at \in {"idle", "reading", "over"}
  /\ offset \in Offsets \cup {Cardinality(Docs) \div limit + 1}
  /\ seen \subseteq Docs /\ start \subseteq Docs
  /\ {again, joined, late, parted, stale} \subseteq BOOLEAN

Init ==
  /\ kind \in {"users, properties", "rents", "transactions, notifications"}
  /\ sort \in {"asc", "desc"}
  /\ maxDate \in {None} \cup (IF CanDate THEN 1..MaxTime ELSE {})
  /\ now = 1
  /\ created = [d \in Docs |-> 0]
  /\ list = {}
  /\ cache = [p \in Offsets |-> None]
  /\ at = "idle"
  /\ offset = 0
  /\ seen = {} /\ start = {}
  /\ again = FALSE /\ joined = FALSE /\ late = FALSE /\ parted = FALSE
  /\ stale = FALSE

-----------------------------------------------------------------------------
(* find, sort, limit, skip *)

(* Slip: the date asked for is that of the query. *)
AskedNow(d) == d \in list /\ created[d] <= now

Asked(d) == d \in list /\ (maxDate = None \/ created[d] <= maxDate)

(* The orders the database may return the documents in: those made at the  *)
(* same time come in any.                                                  *)
Sorted ==
  {o \in SetToSeqs({d \in list : Asked(d)}) :
     \A i, j \in DOMAIN o :
       i < j => IF sort = "asc" THEN created[o[i]] <= created[o[j]]
                                ELSE created[o[i]] >= created[o[j]]}

(* Slip: the offset is a number of documents. *)
CutByDocument(o, p) == {o[i] : i \in {j \in DOMAIN o : p < j /\ j <= p + limit}}

(* Slip: the first page is number 1. *)
CutFromOne(o, p) ==
  {o[i] : i \in {j \in DOMAIN o : p * limit < j + limit /\ j <= p * limit}}

(* Slip: one too many. *)
CutLong(o, p) ==
  {o[i] : i \in {j \in DOMAIN o : p * limit < j /\ j <= (p + 1) * limit + 1}}

Cut(o, p) ==
  {o[i] : i \in {j \in DOMAIN o : p * limit < j /\ j <= (p + 1) * limit}}

Pages(p) == {Cut(o, p) : o \in Sorted}

(* The answer to a request for a page: the one stored, or the database's,  *)
(* which is then stored.                                                   *)
Answered(p, docs) ==
  \/ docs = cache[p] /\ UNCHANGED cache
  \/ /\ cache[p] = None
     /\ docs \in Pages(p)
     /\ cache' = IF Cached THEN [cache EXCEPT ![p] = docs] ELSE cache

-----------------------------------------------------------------------------
(* The reader.  A date it asks for is past. *)

Begin ==
  /\ at = "idle"
  /\ maxDate # None => maxDate < now
  /\ at' = "reading"
  /\ start' = {d \in list : Asked(d)}
  /\ UNCHANGED <<query, now, created, list, cache, offset, seen, again, joined,
                 late, parted, stale>>

Read(docs) ==
  /\ at = "reading"
  /\ Answered(offset, docs)
  /\ offset' = offset + 1
  /\ at' = IF Cardinality(docs) < limit THEN "over" ELSE "reading"
  /\ seen' = seen \cup docs
  /\ again' = (again \/ seen \cap docs # {})
  /\ stale' = (stale \/ docs \notin Pages(offset))
  /\ UNCHANGED <<query, now, created, list, start, joined, late, parted>>

(* Its history is dropped, and another may begin. *)
Rest ==
  /\ at = "over"
  /\ at' = "idle"
  /\ offset' = 0
  /\ seen' = {} /\ start' = {}
  /\ again' = FALSE /\ joined' = FALSE /\ late' = FALSE /\ parted' = FALSE
  /\ stale' = FALSE
  /\ UNCHANGED <<query, now, created, list, cache>>

-----------------------------------------------------------------------------
(* The others *)

OtherReads(p, docs) ==
  /\ Cached
  /\ cache[p] = None
  /\ Answered(p, docs)
  /\ UNCHANGED <<query, now, created, list, at, offset, history>>

(* The stored answer lapses or is cleared. *)
Lapse(p) ==
  /\ cache[p] # None
  /\ cache' = [cache EXCEPT ![p] = None]
  /\ UNCHANGED <<query, now, created, list, at, offset, history>>

(* createUser and its like: createdAt is set before the document goes to   *)
(* the database.                                                           *)
Make(d) ==
  /\ created[d] = 0
  /\ created' = [created EXCEPT ![d] = now]
  /\ UNCHANGED <<query, now, list, cache, at, offset, history>>

(* The document is in the database, or changed so that it matches.         *)
Join(d) ==
  /\ created[d] > 0
  /\ d \notin list
  /\ list' = list \cup {d}
  /\ joined' = (joined \/ at = "reading")
  /\ late' = (late \/ (at = "reading" /\ created[d] < now))
  /\ UNCHANGED <<query, now, created, cache, at, offset, seen, again, start,
                 parted, stale>>

(* It is hidden, or changed so that it matches no longer. *)
Part(d) ==
  /\ CanPart
  /\ d \in list
  /\ list' = list \ {d}
  /\ parted' = (parted \/ at = "reading")
  /\ UNCHANGED <<query, now, created, cache, at, offset, seen, again, start,
                 joined, late, stale>>

Tick ==
  /\ now < MaxTime
  /\ now' = now + 1
  /\ UNCHANGED <<query, created, list, cache, at, offset, history>>

Others ==
  \/ \E p \in Offsets, docs \in SUBSET Docs : OtherReads(p, docs)
  \/ \E p \in Offsets : Lapse(p)
  \/ \E d \in Docs : Make(d) \/ Join(d) \/ Part(d)
  \/ Tick

(* What others do once the reader is over changes nothing it has had. *)
Next ==
  \/ Begin \/ Rest
  \/ \E docs \in SUBSET Docs : Read(docs)
  \/ at # "over" /\ Others

Spec == Init /\ [][Next]_vars

-----------------------------------------------------------------------------
(* Pages fit together only as far as no two documents have the same        *)
(* createdAt, which sort leaves in any order, and no answer is old.        *)
Ordered == \A d, e \in Docs : created[d] = created[e] => d = e \/ created[d] = 0

(* A reader who reaches the end has had every document that was there when *)
(* it began, whatever was created meanwhile and in either order; unless a  *)
(* document was hidden or edited away, and the others moved up a page      *)
(* (properties.service.ts:57-59, users.service.ts:89-91).                  *)
NothingMissed ==
  at = "over" /\ Ordered /\ ~parted /\ ~stale => start \subseteq seen

(* No document is on two pages: in ascending order as long as what joins   *)
(* the listing is new, in descending order (the default) as long as        *)
(* nothing joins (rents.service.ts:74-76).                                 *)
NothingTwice ==
  Ordered /\ ~stale /\ ~late /\ (sort = "desc" => ~joined) => ~again

(* The pages of transactions and notifications up to a past date are what  *)
(* there was when the reader began, each once and no more, although new    *)
(* ones are created and in either order; unless one was still on its way   *)
(* to the database (transactions.service.ts:50-70,                         *)
(* notifications.service.ts:35-47).                                        *)
PastIsExact ==
  maxDate # None /\ at = "over" /\ Ordered /\ ~stale /\ ~late
    => seen = start /\ ~again
=============================================================================
