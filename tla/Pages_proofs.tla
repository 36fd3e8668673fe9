---------------------------- MODULE Pages_proofs ----------------------------
(***************************************************************************)
(* Reading page after page, for any number of documents and any size of a  *)
(* page, while others create, hide and edit documents and answers come out *)
(* of the cache.                                                           *)
(*                                                                         *)
(* A page is cut out of a sequence the database chooses.  Where no two     *)
(* documents have the same date there is one such sequence, and a document *)
(* is on the page that the number of documents ahead of it says.  So the   *)
(* invariants are about that number: a reader who misses nothing has had   *)
(* every document with too few ahead of it for the pages to come, and one  *)
(* who gets nothing twice has had none with more.                          *)
(***************************************************************************)
EXTENDS Pages, FiniteSetTheorems, TLAPS

Selected == {d \in list : Asked(d)}

(* The documents listed ahead of d. *)
Ahead(d) ==
  {e \in Selected : IF sort = "asc" THEN created[e] < created[d]
                                    ELSE created[e] > created[d]}

Fresh ==
  /\ offset = 0
  /\ seen = {}
  /\ ~again /\ ~joined /\ ~late /\ ~parted /\ ~stale

QueryTyped ==
  /\ kind \in {"users, properties", "rents", "transactions, notifications"}
  /\ sort \in {"asc", "desc"}
  /\ maxDate \in 1..MaxTime \cup {None}

DocsTyped ==
  /\ now \in 1..MaxTime
  /\ created \in [Docs -> 0..now]
  /\ list \subseteq {d \in Docs : created[d] > 0}

(* No page beyond the last is stored, *)
CacheTyped ==
  /\ cache \in [Offsets -> (SUBSET Docs) \cup {None}]
  /\ \A p \in Offsets :
       cache[p] # None =>
         /\ Cardinality(cache[p]) <= limit
         /\ Cardinality(cache[p]) = limit => (p + 1) * limit <= Cardinality(Docs)

(* or asked for. *)
ReaderTyped ==
  /\ at \in {"idle", "reading", "over"}
  /\ offset \in Offsets \cup {Cardinality(Docs) \div limit + 1}
  /\ at = "reading" => offset \in Offsets
  /\ seen \subseteq Docs
  /\ start \subseteq Docs

Flags == {again, joined, late, parted, stale} \subseteq BOOLEAN

Typed ==
  /\ QueryTyped /\ DocsTyped /\ CacheTyped /\ ReaderTyped /\ Flags
  /\ at = "idle" => Fresh
  /\ ~stale => \A d \in seen : created[d] > 0

(* What the reader still has to get is on the pages to come. *)
ToCome ==
  Ordered /\ ~parted /\ ~stale =>
    /\ at = "reading" =>
         /\ start \subseteq Selected
         /\ \A d \in start :
              d \in seen \/ offset * limit <= Cardinality(Ahead(d))
    /\ at = "over" => start \subseteq seen

(* What it has had is on none of them: nothing comes in ahead. *)
Steady == ~late /\ (sort = "desc" => ~joined \/ maxDate # None)

Done ==
  Ordered /\ ~stale /\ Steady =>
    /\ ~again
    /\ at = "reading" =>
         \A d \in seen : Cardinality(Ahead(d)) < offset * limit

(* Up to a past date nothing comes or goes but what is late. *)
Settled ==
  maxDate # None =>
    /\ ~CanPart /\ ~parted
    /\ at = "reading" => maxDate < now
    /\ at = "reading" /\ ~late => Selected = start
    /\ at # "idle" /\ ~late /\ ~stale => seen \subseteq start

-----------------------------------------------------------------------------
(* What find, sort, limit and skip return. *)

LEMMA SelectedFinite ==
  ASSUME TypeOK
  PROVE  /\ Selected \in SUBSET Docs
         /\ IsFiniteSet(Selected)
         /\ Cardinality(Selected) \in Nat
         /\ Cardinality(Docs) \in Nat
         /\ Cardinality(Selected) <= Cardinality(Docs)
<1>1. Selected \in SUBSET Docs
  BY DEF Selected, TypeOK
<1> QED
  BY <1>1, PagesAssumption, FS_Subset, FS_CardinalityType

LEMMA SelectedDated ==
  ASSUME TypeOK
  PROVE  /\ now \in Nat
         /\ \A d \in Docs : created[d] \in Nat /\ created[d] <= now
         /\ \A d \in list : d \in Docs /\ created[d] > 0
         /\ \A d \in Selected : d \in Docs /\ created[d] \in Nat /\ created[d] > 0
<1>1. /\ now \in 1 .. MaxTime
      /\ created \in [Docs -> 0 .. now]
      /\ list \subseteq {d \in Docs : created[d] > 0}
  BY DEF TypeOK
<1>2. now \in Nat
  BY <1>1, PagesAssumption
<1> QED
  BY <1>1, <1>2 DEF Selected

LEMMA AheadFinite ==
  ASSUME TypeOK, NEW d
  PROVE  IsFiniteSet(Ahead(d)) /\ Cardinality(Ahead(d)) \in Nat
  BY SelectedFinite, FS_Subset, FS_CardinalityType DEF Ahead

LEMMA SortedBijects ==
  ASSUME TypeOK, NEW o \in Sorted
  PROVE  LET n == Cardinality(Selected) IN
           /\ o \in [1 .. n -> Selected]
           /\ \A i, j \in 1 .. n : o[i] = o[j] => i = j
           /\ \A d \in Selected : \E i \in 1 .. n : d = o[i]
<1> DEFINE n == Cardinality(Selected)
<1>1. /\ o \in [1 .. n -> Selected]
      /\ \A i, j \in 1 .. n : i # j => o[i] # o[j]
  BY DEF Sorted, SetToSeqs, Selected
<1>2. o \in Injection(1 .. n, Selected)
  BY <1>1 DEF Injection, IsInjective
<1>3. Cardinality(1 .. n) = n
  BY SelectedFinite, FS_Interval
<1>4. o \in Surjection(1 .. n, Selected)
  BY <1>2, <1>3, SelectedFinite, FS_Injection
<1> QED
  BY <1>1, <1>4 DEF Surjection

(* A page is as long as the documents that are left allow. *)
LEMMA CutLength ==
  ASSUME TypeOK, NEW o \in Sorted, NEW p \in Nat
  PROVE  /\ Cut(o, p) \in SUBSET Selected
         /\ Cardinality(Cut(o, p)) \in Nat
         /\ Cardinality(Cut(o, p)) <= limit
         /\ Cardinality(Cut(o, p)) = limit
              <=> (p + 1) * limit <= Cardinality(Selected)
<1> DEFINE n == Cardinality(Selected)
           lo == p * limit
           hi == IF n < lo + limit THEN n ELSE lo + limit
           I == (lo + 1) .. hi
           f == [i \in I |-> o[i]]
<1>1. n \in Nat /\ limit \in Nat /\ limit > 0
  BY SelectedFinite, PagesAssumption
<1>2. lo \in Nat /\ (p + 1) * limit = lo + limit
  BY <1>1
<1>3. /\ o \in [1 .. n -> Selected]
      /\ \A i, j \in 1 .. n : o[i] = o[j] => i = j
  BY SortedBijects
<1> HIDE DEF n, lo
<1>4. I = {j \in 1 .. n : lo < j /\ j <= lo + limit}
  BY <1>1, <1>2
<1>5. Cut(o, p) = {o[i] : i \in I}
  BY <1>2, <1>3, <1>4 DEF Cut, lo
<1>6. f \in Bijection(I, Cut(o, p))
  <2>1. f \in Injection(I, Cut(o, p))
    BY <1>3, <1>4, <1>5 DEF Injection, IsInjective
  <2>2. f \in Surjection(I, Cut(o, p))
    BY <1>5 DEF Surjection
  <2> QED
    BY <2>1, <2>2 DEF Bijection
<1>7. /\ IsFiniteSet(I)
      /\ Cardinality(I) = IF lo + 1 > hi THEN 0 ELSE hi - (lo + 1) + 1
  BY <1>1, <1>2, FS_Interval
<1>8. Cardinality(Cut(o, p)) = Cardinality(I)
  BY <1>6, <1>7, FS_Bijection DEF ExistsBijection
<1>9. Cut(o, p) \in SUBSET Selected
  BY <1>3, <1>4, <1>5
<1> QED
  BY <1>1, <1>2, <1>7, <1>8, <1>9 DEF n

(* Where the dates tell the documents apart, the number of documents ahead *)
(* of one is its place.                                                    *)
LEMMA Place ==
  ASSUME TypeOK, Ordered, NEW o \in Sorted, NEW i \in 1 .. Cardinality(Selected)
  PROVE  Cardinality(Ahead(o[i])) = i - 1
<1> DEFINE n == Cardinality(Selected)
           I == 1 .. i - 1
           f == [j \in I |-> o[j]]
<1>1. n \in Nat
  BY SelectedFinite
<1>2. /\ o \in [1 .. n -> Selected]
      /\ \A j, k \in 1 .. n : o[j] = o[k] => j = k
      /\ \A d \in Selected : \E j \in 1 .. n : d = o[j]
  BY SortedBijects
<1>3. \A j, k \in 1 .. n :
        j < k => IF sort = "asc" THEN created[o[j]] <= created[o[k]]
                                 ELSE created[o[j]] >= created[o[k]]
  BY <1>2 DEF Sorted
<1>4. \A d \in Selected : d \in Docs /\ created[d] \in Nat /\ created[d] > 0
  BY SelectedDated
<1> HIDE DEF n
<1>5. \A j, k \in 1 .. n : j # k => created[o[j]] # created[o[k]]
  <2> SUFFICES ASSUME NEW j \in 1 .. n, NEW k \in 1 .. n, j # k
               PROVE  created[o[j]] # created[o[k]]
    OBVIOUS
  <2>1. o[j] # o[k] /\ o[j] \in Selected /\ o[k] \in Selected
    BY <1>2
  <2> QED
    BY <1>4, <2>1 DEF Ordered
<1>6. \A j, k \in 1 .. n :
        /\ created[o[j]] \in Nat
        /\ j < k <=> IF sort = "asc" THEN created[o[j]] < created[o[k]]
                                     ELSE created[o[j]] > created[o[k]]
  <2> SUFFICES ASSUME NEW j \in 1 .. n, NEW k \in 1 .. n
               PROVE  /\ created[o[j]] \in Nat
                      /\ j < k <=>
                           IF sort = "asc" THEN created[o[j]] < created[o[k]]
                                           ELSE created[o[j]] > created[o[k]]
    OBVIOUS
  <2>1. created[o[j]] \in Nat /\ created[o[k]] \in Nat
    BY <1>2, <1>4
  <2>2. CASE j < k
    BY <1>3, <1>5, <2>1, <2>2
  <2>3. CASE k <= j
    BY <1>3, <1>5, <2>1, <2>3
  <2> QED
    BY <2>1, <2>2, <2>3
<1>7. I = {j \in 1 .. n : j < i}
  BY <1>1 DEF n
<1>8. Ahead(o[i]) = {o[j] : j \in I}
  BY <1>2, <1>6, <1>7 DEF Ahead, n
<1>9. f \in Bijection(I, Ahead(o[i]))
  <2>1. f \in Injection(I, Ahead(o[i]))
    BY <1>2, <1>7, <1>8 DEF Injection, IsInjective
  <2>2. f \in Surjection(I, Ahead(o[i]))
    BY <1>8 DEF Surjection
  <2> QED
    BY <2>1, <2>2 DEF Bijection
<1>10. IsFiniteSet(I) /\ Cardinality(I) = i - 1
  <2>1. i \in Nat /\ i >= 1
    BY <1>1 DEF n
  <2>2. 1 \in Int /\ i - 1 \in Int
    BY <2>1
  <2> QED
    BY <2>1, <2>2, FS_Interval
<1> QED
  BY <1>9, <1>10, FS_Bijection DEF ExistsBijection

LEMMA PageByPlace ==
  ASSUME TypeOK, Ordered, NEW p \in Nat, NEW docs \in Pages(p)
  PROVE  /\ docs = {d \in Selected : /\ p * limit <= Cardinality(Ahead(d))
                                     /\ Cardinality(Ahead(d)) < (p + 1) * limit}
         /\ Cardinality(docs) < limit =>
              \A d \in Selected : Cardinality(Ahead(d)) < (p + 1) * limit
<1> DEFINE n == Cardinality(Selected)
<1>1. PICK o \in Sorted : docs = Cut(o, p)
  BY DEF Pages
<1>2. n \in Nat /\ limit \in Nat /\ p * limit \in Nat /\ (p + 1) * limit \in Nat
  BY SelectedFinite, PagesAssumption
<1>3. /\ o \in [1 .. n -> Selected]
      /\ \A d \in Selected : \E i \in 1 .. n : d = o[i]
  BY SortedBijects
<1>4. \A i \in 1 .. n : Cardinality(Ahead(o[i])) = i - 1
  BY Place
<1>5. Cut(o, p) = {o[i] : i \in {j \in 1 .. n : p * limit < j /\ j <= (p + 1) * limit}}
  BY <1>3 DEF Cut
<1>6. Cardinality(docs) < limit => n < (p + 1) * limit
  BY <1>1, <1>2, CutLength
<1> HIDE DEF n
<1> DEFINE lo == p * limit
           hi == (p + 1) * limit
<1>7. \A d \in Selected : Cardinality(Ahead(d)) \in Nat /\ Cardinality(Ahead(d)) < n
  BY <1>2, <1>3, <1>4
<1>8. lo \in Nat /\ hi \in Nat
  BY <1>2
<1>9. Cut(o, p) = {o[i] : i \in {j \in 1 .. n : lo < j /\ j <= hi}}
  BY <1>5
<1>10. Cardinality(docs) < limit => n < hi
  BY <1>6
<1> HIDE DEF lo, hi
<1>11. docs = {d \in Selected : lo <= Cardinality(Ahead(d)) /\ Cardinality(Ahead(d)) < hi}
  <2>1. ASSUME NEW d \in docs
        PROVE  d \in Selected /\ lo <= Cardinality(Ahead(d)) /\ Cardinality(Ahead(d)) < hi
    BY <1>1, <1>2, <1>3, <1>4, <1>8, <1>9
  <2>2. ASSUME NEW d \in Selected, lo <= Cardinality(Ahead(d)), Cardinality(Ahead(d)) < hi
        PROVE  d \in docs
    <3>1. PICK i \in 1 .. n : d = o[i]
      BY <1>3
    <3> QED
      BY <1>1, <1>2, <1>4, <1>8, <1>9, <2>2, <3>1
  <2> QED
    BY <2>1, <2>2
<1> QED
  BY <1>2, <1>7, <1>8, <1>10, <1>11 DEF lo, hi

-----------------------------------------------------------------------------
(* The types. *)

LEMMA TypedIsTypeOK == Typed => TypeOK
  BY DEF Typed, QueryTyped, DocsTyped, CacheTyped, ReaderTyped, Flags, TypeOK

LEMMA OffsetsAreNumbers ==
  /\ Offsets \subseteq Nat
  /\ 0 \in Offsets
  /\ \A p \in Nat : (p + 1) * limit <= Cardinality(Docs) => p + 1 \in Offsets
<1> DEFINE n == Cardinality(Docs)
           q == n \div limit
<1>1. n \in Nat /\ limit \in Nat /\ limit > 0
  BY PagesAssumption, FS_CardinalityType
<1> HIDE DEF n
<1>2. q \in Nat /\ n < (q + 1) * limit
  BY <1>1
<1> HIDE DEF q
<1>3. ASSUME NEW p \in Nat, (p + 1) * limit <= n
      PROVE  p + 1 <= q
  <2>1. SUFFICES ASSUME q + 1 <= p + 1 PROVE FALSE
    BY <1>2
  <2>2. (q + 1) * limit <= (p + 1) * limit
    BY <1>1, <1>2, <2>1
  <2>3. (q + 1) * limit \in Nat /\ (p + 1) * limit \in Nat
    BY <1>1, <1>2
  <2> QED
    BY <1>1, <1>2, <1>3, <2>2, <2>3
<1>4. Offsets = 0 .. q
  BY DEF Offsets, q, n
<1> QED
  BY <1>2, <1>3, <1>4 DEF n

LEMMA AnswerTyped ==
  ASSUME Typed, NEW p \in Offsets, NEW docs \in SUBSET Docs,
         Answered(p, docs)
  PROVE  /\ Cardinality(docs) \in Nat
         /\ Cardinality(docs) <= limit
         /\ Cardinality(docs) = limit => (p + 1) * limit <= Cardinality(Docs)
         /\ CacheTyped'
<1>1. Cardinality(docs) \in Nat
  BY PagesAssumption, FS_Subset, FS_CardinalityType
<1>2. CASE docs = cache[p] /\ UNCHANGED cache
  <2>1. docs # None
    BY PagesAssumption
  <2> QED
    BY <1>1, <1>2, <2>1 DEF Typed, CacheTyped, Offsets
<1>3. CASE /\ docs \in Pages(p)
           /\ cache' = IF Cached THEN [cache EXCEPT ![p] = docs] ELSE cache
  <2>1. PICK o \in Sorted : docs = Cut(o, p)
    BY <1>3 DEF Pages
  <2>2. p \in Nat
    BY OffsetsAreNumbers
  <2>3. /\ Cardinality(docs) <= limit
        /\ Cardinality(docs) = limit => (p + 1) * limit <= Cardinality(Selected)
    BY <2>1, <2>2, CutLength, TypedIsTypeOK
  <2>4. Cardinality(docs) = limit => (p + 1) * limit <= Cardinality(Docs)
    <3>1. (p + 1) * limit \in Nat
      BY <2>2, PagesAssumption
    <3> QED
      BY <2>3, <3>1, SelectedFinite, TypedIsTypeOK
  <2> QED
    BY <1>1, <1>3, <2>3, <2>4 DEF Typed, CacheTyped, Offsets
<1> QED
  BY <1>2, <1>3 DEF Answered

LEMMA TypedInit == Init => Typed
<1> SUFFICES ASSUME Init PROVE Typed
  OBVIOUS
<1>1. QueryTyped
  BY DEF Init, QueryTyped
<1>2. DocsTyped
  <2>1. now = 1 /\ created = [d \in Docs |-> 0] /\ list = {}
    BY DEF Init
  <2> QED
    BY <2>1, PagesAssumption DEF DocsTyped
<1>3. CacheTyped /\ ReaderTyped
  BY OffsetsAreNumbers DEF Init, CacheTyped, ReaderTyped
<1>4. Flags /\ Fresh
  BY DEF Init, Flags, Fresh
<1> QED
  BY <1>1, <1>2, <1>3, <1>4 DEF Init, Typed

(* Documents that are made, join and part keep to their dates. *)
LEMMA DocsSteps ==
  ASSUME Typed, [Next]_vars
  PROVE  /\ DocsTyped'
         /\ \A d \in Docs : created[d] > 0 => created'[d] = created[d]
         /\ UNCHANGED query
<1> USE PagesAssumption DEF Typed, DocsTyped
<1> DEFINE Kept == /\ DocsTyped'
                   /\ \A d \in Docs : created[d] > 0 => created'[d] = created[d]
<1>1. ASSUME NEW d \in Docs, Make(d) PROVE Kept
  BY <1>1 DEF Make
<1>2. ASSUME NEW d \in Docs, Join(d) PROVE Kept
  BY <1>2 DEF Join
<1>3. ASSUME NEW d \in Docs, Part(d) PROVE Kept
  BY <1>3 DEF Part
<1>4. ASSUME Tick PROVE Kept
  BY <1>4 DEF Tick
<1>5. ASSUME UNCHANGED <<now, created, list>> PROVE Kept
  BY <1>5
<1>6. Kept
  BY <1>1, <1>2, <1>3, <1>4, <1>5
     DEF Next, Others, Begin, Read, Rest, OtherReads, Lapse, vars
<1>7. UNCHANGED query
  BY DEF Next, Others, Begin, Read, Rest, OtherReads, Lapse, Make, Join, Part, Tick,
         vars
<1> QED
  BY <1>6, <1>7

LEMMA CacheSteps ==
  ASSUME Typed, [Next]_vars
  PROVE  CacheTyped'
<1>1. ASSUME NEW docs \in SUBSET Docs, Read(docs) PROVE CacheTyped'
  <2>1. offset \in Offsets /\ Answered(offset, docs)
    BY <1>1 DEF Read, Typed, ReaderTyped
  <2> QED
    BY <2>1, AnswerTyped
<1>2. ASSUME NEW p \in Offsets, NEW docs \in SUBSET Docs, OtherReads(p, docs)
      PROVE  CacheTyped'
  <2>1. Answered(p, docs)
    BY <1>2 DEF OtherReads
  <2> QED
    BY <2>1, AnswerTyped
<1>3. ASSUME NEW p \in Offsets, Lapse(p) PROVE CacheTyped'
  BY <1>3 DEF Lapse, Typed, CacheTyped, Offsets
<1>4. ASSUME UNCHANGED cache PROVE CacheTyped'
  BY <1>4 DEF Typed, CacheTyped, Offsets
<1> QED
  BY <1>1, <1>2, <1>3, <1>4
     DEF Next, Others, Begin, Rest, Make, Join, Part, Tick, vars

LEMMA TypedStep == Typed /\ [Next]_vars => Typed'
<1> SUFFICES ASSUME Typed, [Next]_vars PROVE Typed'
  OBVIOUS
<1>1. QueryTyped' /\ DocsTyped' /\ CacheTyped'
  BY DocsSteps, CacheSteps DEF Typed, QueryTyped, query
<1> DEFINE Reader == /\ ReaderTyped' /\ Flags'
                     /\ at' = "idle" => Fresh'
                     /\ ~stale' => \A d \in seen' : created'[d] > 0
<1>2. ASSUME Begin PROVE Reader
  BY <1>2, OffsetsAreNumbers
     DEF Begin, Typed, DocsTyped, ReaderTyped, Flags, Fresh, Offsets
<1>3. ASSUME NEW docs \in SUBSET Docs, Read(docs) PROVE Reader
  <2>1. /\ offset \in Offsets /\ offset \in Nat
        /\ Answered(offset, docs)
    BY <1>3, OffsetsAreNumbers DEF Read, Typed, ReaderTyped
  <2>2. /\ Cardinality(docs) \in Nat
        /\ Cardinality(docs) <= limit
        /\ Cardinality(docs) = limit => offset + 1 \in Offsets
    BY <2>1, AnswerTyped, OffsetsAreNumbers
  <2>3. offset + 1 \in Offsets \cup {Cardinality(Docs) \div limit + 1}
    BY <2>1, PagesAssumption, FS_CardinalityType DEF Offsets
  <2>4. ReaderTyped'
    BY <1>3, <2>2, <2>3, PagesAssumption DEF Read, Typed, ReaderTyped, Offsets
  <2>5. Flags' /\ at' # "idle"
    BY <1>3 DEF Read, Typed, Flags
  <2>6. ASSUME ~stale', NEW d \in seen' PROVE created'[d] > 0
    <3>1. ~stale /\ docs \in Pages(offset)
      BY <1>3, <2>6 DEF Read
    <3>2. docs \subseteq Selected
      BY <2>1, <3>1, CutLength, TypedIsTypeOK DEF Pages
    <3> QED
      BY <1>3, <2>6, <3>1, <3>2, SelectedDated, TypedIsTypeOK DEF Read, Typed
  <2> QED
    BY <2>4, <2>5, <2>6
<1>4. ASSUME Rest PROVE Reader
  BY <1>4, OffsetsAreNumbers
     DEF Rest, Typed, ReaderTyped, Flags, Fresh, Offsets
<1>5. ASSUME NEW d \in Docs, Join(d) \/ Part(d) PROVE Reader
  <2>1. ReaderTyped'
    BY <1>5 DEF Join, Part, history, Typed, ReaderTyped, Offsets
  <2>2. Flags'
    BY <1>5 DEF Join, Part, history, Typed, Flags
  <2>3. at' = "idle" => Fresh'
    BY <1>5 DEF Join, Part, history, Typed, Fresh
  <2> QED
    BY <1>5, <2>1, <2>2, <2>3 DEF Join, Part, history, Typed
<1>6. ASSUME UNCHANGED <<at, offset, history>> PROVE Reader
  <2>1. \A d \in seen : created[d] > 0 => created'[d] > 0
    BY DocsSteps DEF Typed, ReaderTyped
  <2> QED
    BY <1>6, <2>1 DEF history, Typed, ReaderTyped, Flags, Fresh, Offsets
<1>7. Reader
  BY <1>2, <1>3, <1>4, <1>5, <1>6
     DEF Next, Others, OtherReads, Lapse, Make, Tick, vars
<1> QED
  BY <1>1, <1>7 DEF Typed

(* Every variable keeps to its values; no page beyond the last is asked    *)
(* for.                                                                    *)
THEOREM TypeCorrect == Spec => []TypeOK
  BY TypedInit, TypedStep, TypedIsTypeOK, PTL DEF Spec

-----------------------------------------------------------------------------
(* What a step does to the number of documents ahead of one. *)

(* Dates are never given twice over, nor taken back. *)
LEMMA OrderedBefore == Typed /\ [Next]_vars /\ Ordered' => Ordered
<1> SUFFICES ASSUME Typed, [Next]_vars, Ordered',
                    NEW d \in Docs, NEW e \in Docs, created[d] = created[e]
             PROVE  d = e \/ created[d] = 0
  BY DEF Ordered
<1>1. created[d] \in Nat /\ created[e] \in Nat
  BY SelectedDated, TypedIsTypeOK
<1>2. CASE created[d] > 0
  <2>1. created'[d] = created[d] /\ created'[e] = created[e]
    BY <1>2, DocsSteps
  <2> QED
    BY <1>1, <1>2, <2>1 DEF Ordered
<1> QED
  BY <1>1, <1>2

LEMMA AheadTyped ==
  ASSUME Typed, [Next]_vars, NEW d
  PROVE  /\ Ahead(d) \in SUBSET Docs
         /\ Ahead(d)' \in SUBSET Docs
         /\ Cardinality(Ahead(d)) \in Nat
         /\ Cardinality(Ahead(d)') \in Nat
<1>1. list \subseteq Docs /\ list' \subseteq Docs
  BY DocsSteps DEF Typed, DocsTyped
<1>2. Ahead(d) \in SUBSET Docs /\ Ahead(d)' \in SUBSET Docs
  BY <1>1 DEF Ahead, Selected
<1> QED
  BY <1>2, PagesAssumption, FS_Subset, FS_CardinalityType

(* What joins puts none behind that was ahead, *)
LEMMA AheadGrows ==
  ASSUME Typed, [Next]_vars, list \subseteq list'
  PROVE  /\ Selected \subseteq Selected'
         /\ \A d \in Docs :
              created[d] > 0 => Cardinality(Ahead(d)) <= Cardinality(Ahead(d)')
<1>1. /\ UNCHANGED <<sort, maxDate>>
      /\ \A d \in Docs : created[d] > 0 => created'[d] = created[d]
      /\ list \subseteq {d \in Docs : created[d] > 0}
  BY DocsSteps DEF query, Typed, DocsTyped
<1>2. Selected \subseteq Selected'
  BY <1>1 DEF Selected, Asked
<1>3. ASSUME NEW d \in Docs, created[d] > 0
      PROVE  Cardinality(Ahead(d)) <= Cardinality(Ahead(d)')
  <2>1. Ahead(d) \subseteq Ahead(d)'
    BY <1>1, <1>2, <1>3 DEF Ahead, Selected
  <2>2. IsFiniteSet(Ahead(d)')
    BY AheadTyped, PagesAssumption, FS_Subset
  <2> QED
    BY <2>1, <2>2, FS_Subset
<1> QED
  BY <1>2, <1>3

(* and where nothing is selected anew, none comes ahead. *)
LEMMA AheadShrinks ==
  ASSUME Typed, [Next]_vars, NEW d \in Docs, created[d] > 0,
         \A e \in list' \ list :
           ~Asked(e)' \/ (sort = "asc" /\ created'[e] >= created[d])
  PROVE  Cardinality(Ahead(d)') <= Cardinality(Ahead(d))
<1>1. /\ UNCHANGED <<sort, maxDate>>
      /\ \A e \in Docs : created[e] > 0 => created'[e] = created[e]
      /\ list \subseteq {e \in Docs : created[e] > 0}
      /\ list' \subseteq Docs
  BY DocsSteps DEF query, Typed, DocsTyped
<1>2. created[d] \in Nat /\ \A e \in Docs : created'[e] \in Nat
  BY DocsSteps, SelectedDated, TypedIsTypeOK, PagesAssumption DEF DocsTyped
<1>3. Ahead(d)' \subseteq Ahead(d)
  <2> SUFFICES ASSUME NEW e \in Ahead(d)' PROVE e \in Ahead(d)
    OBVIOUS
  <2>1. /\ e \in list' /\ e \in Docs /\ Asked(e)'
        /\ IF sort = "asc" THEN created'[e] < created[d]
                           ELSE created'[e] > created[d]
    BY <1>1 DEF Ahead, Selected
  <2>2. e \in list
    BY <1>2, <2>1
  <2> QED
    BY <1>1, <2>1, <2>2 DEF Ahead, Selected, Asked
<1>4. IsFiniteSet(Ahead(d))
  BY AheadTyped, PagesAssumption, FS_Subset
<1> QED
  BY <1>3, <1>4, FS_Subset

(* A document that joins a reading has been made just now, or is late. *)
LEMMA JoinIsNew ==
  ASSUME Typed, Settled, NEW e \in Docs, Join(e), at = "reading", ~late'
  PROVE  /\ created'[e] = now /\ created[e] = now
         /\ maxDate # None => ~Asked(e)'
<1>1. created[e] = now /\ created' = created /\ maxDate' = maxDate
  <2>1. ~(created[e] < now) /\ created' = created /\ maxDate' = maxDate
    BY DEF Join, query
  <2>2. created[e] \in Nat /\ created[e] <= now /\ now \in Nat
    BY SelectedDated, TypedIsTypeOK
  <2> QED
    BY <2>1, <2>2
<1>2. ASSUME maxDate # None PROVE ~Asked(e)'
  <2>1. maxDate \in Nat /\ maxDate < now /\ now \in Nat
    <3>1. maxDate \in 1 .. MaxTime /\ now \in 1 .. MaxTime
      BY <1>2 DEF Typed, QueryTyped, DocsTyped
    <3>2. maxDate < now
      BY <1>2 DEF Settled
    <3> QED
      BY <3>1, <3>2, PagesAssumption
  <2> QED
    BY <1>1, <1>2, <2>1 DEF Asked
<1> QED
  BY <1>1, <1>2

-----------------------------------------------------------------------------
(* A reader misses nothing. *)

(* What the others do to the listing: only a join adds to it, only a       *)
(* parting takes away.                                                     *)
LEMMA OthersSteps ==
  ASSUME Typed, [Next]_vars,
         ~Begin, ~Rest, ~\E docs \in SUBSET Docs : Read(docs)
  PROVE  /\ UNCHANGED <<at, offset, seen, again, start, stale>>
         /\ \/ \E d \in Docs : Join(d)
            \/ \E d \in Docs : Part(d)
            \/ UNCHANGED <<list, joined, late, parted>>
  BY DEF Next, Others, OtherReads, Lapse, Make, Join, Part, Tick, vars, history

LEMMA ToComeStep == Typed /\ ToCome /\ [Next]_vars => ToCome'
<1> SUFFICES ASSUME Typed, ToCome, [Next]_vars, Ordered', ~parted', ~stale'
             PROVE  /\ at' = "reading" =>
                         /\ start' \subseteq Selected'
                         /\ \A d \in start' :
                              \/ d \in seen'
                              \/ offset' * limit <= Cardinality(Ahead(d)')
                    /\ at' = "over" => start' \subseteq seen'
  BY DEF ToCome
<1> DEFINE Goal == /\ at' = "reading" =>
                        /\ start' \subseteq Selected'
                        /\ \A d \in start' :
                             \/ d \in seen'
                             \/ offset' * limit <= Cardinality(Ahead(d)')
                   /\ at' = "over" => start' \subseteq seen'
<1>1. Ordered
  BY OrderedBefore
<1>2. ASSUME Begin PROVE Goal
  <2>1. offset' = 0 /\ start' = Selected /\ at' = "reading" /\ list' = list
    BY <1>2 DEF Begin, Selected, Typed, Fresh
  <2>2. Selected \subseteq Selected'
    BY <2>1, AheadGrows
  <2>3. \A d : 0 * limit <= Cardinality(Ahead(d)')
    BY AheadTyped, PagesAssumption
  <2> QED
    BY <2>1, <2>2, <2>3
<1>3. ASSUME NEW docs \in SUBSET Docs, Read(docs) PROVE Goal
  <2>1. /\ ~parted /\ ~stale /\ docs \in Pages(offset)
        /\ at = "reading" /\ offset' = offset + 1 /\ start' = start
        /\ seen' = seen \cup docs /\ list' = list /\ created' = created
        /\ at' = IF Cardinality(docs) < limit THEN "over" ELSE "reading"
    BY <1>3 DEF Read
  <2>2. offset \in Nat /\ offset * limit \in Nat /\ (offset + 1) * limit \in Nat
    BY <2>1, OffsetsAreNumbers, PagesAssumption DEF Typed, ReaderTyped
  <2>3. /\ docs = {d \in Selected : /\ offset * limit <= Cardinality(Ahead(d))
                                    /\ Cardinality(Ahead(d)) < (offset + 1) * limit}
        /\ Cardinality(docs) < limit =>
             \A d \in Selected : Cardinality(Ahead(d)) < (offset + 1) * limit
    BY <1>1, <2>1, <2>2, PageByPlace, TypedIsTypeOK
  <2>4. /\ start \subseteq Selected
        /\ \A d \in start :
             d \in seen \/ offset * limit <= Cardinality(Ahead(d))
    BY <1>1, <2>1 DEF ToCome
  <2>5. /\ Selected \subseteq Selected'
        /\ \A d \in Selected : Cardinality(Ahead(d)) <= Cardinality(Ahead(d)')
    BY <2>1, AheadGrows, SelectedDated, TypedIsTypeOK
  <2>6. \A d : Cardinality(Ahead(d)) \in Nat /\ Cardinality(Ahead(d)') \in Nat
    BY AheadTyped
  <2>7. \A d \in start :
          d \in seen' \/ (offset + 1) * limit <= Cardinality(Ahead(d))
    BY <2>1, <2>2, <2>3, <2>4, <2>6
  <2>8. ASSUME at' = "reading" , NEW d \in start
        PROVE  d \in Selected' /\ (d \in seen' \/ offset' * limit <= Cardinality(Ahead(d)'))
    BY <2>1, <2>2, <2>4, <2>5, <2>6, <2>7
  <2>9. ASSUME at' = "over", NEW d \in start
        PROVE  d \in seen'
    BY <2>1, <2>2, <2>3, <2>4, <2>6, <2>7, <2>9
  <2> QED
    BY <2>1, <2>8, <2>9
<1>4. ASSUME Rest PROVE Goal
  BY <1>4 DEF Rest
<1>5. ASSUME UNCHANGED <<at, offset, seen, start, parted, stale>>, list \subseteq list'
      PROVE  Goal
  <2>1. /\ at = "reading" =>
             /\ start \subseteq Selected
             /\ \A d \in start :
                  d \in seen \/ offset * limit <= Cardinality(Ahead(d))
        /\ at = "over" => start \subseteq seen
    BY <1>1, <1>5 DEF ToCome
  <2>2. /\ Selected \subseteq Selected'
        /\ \A d \in Selected : Cardinality(Ahead(d)) <= Cardinality(Ahead(d)')
    BY <1>5, AheadGrows, SelectedDated, TypedIsTypeOK
  <2>3. \A d : Cardinality(Ahead(d)) \in Nat /\ Cardinality(Ahead(d)') \in Nat
    BY AheadTyped
  <2>4. at = "reading" => offset * limit \in Nat
    BY OffsetsAreNumbers, PagesAssumption DEF Typed, ReaderTyped
  <2> QED
    BY <1>5, <2>1, <2>2, <2>3, <2>4
<1>6. ASSUME NEW d \in Docs, Part(d) PROVE Goal
  <2>1. /\ at' = at /\ seen' = seen /\ start' = start /\ stale' = stale
        /\ at # "reading" /\ ~parted
    BY <1>6 DEF Part
  <2> QED
    BY <1>1, <2>1 DEF ToCome
<1>7. ASSUME NEW d \in Docs, Join(d) PROVE Goal
  BY <1>5, <1>7 DEF Join
<1> QED
  BY <1>2, <1>3, <1>4, <1>5, <1>6, <1>7, OthersSteps

-----------------------------------------------------------------------------
(* It gets nothing twice. *)

LEMMA DoneStep == Typed /\ Done /\ Settled /\ [Next]_vars => Done'
<1> SUFFICES ASSUME Typed, Done, Settled, [Next]_vars, Ordered', ~stale', Steady'
             PROVE  /\ ~again'
                    /\ at' = "reading" =>
                         \A d \in seen' : Cardinality(Ahead(d)') < offset' * limit
  BY DEF Done
<1> DEFINE Goal == /\ ~again'
                   /\ at' = "reading" =>
                        \A d \in seen' : Cardinality(Ahead(d)') < offset' * limit
<1>1. Ordered
  BY OrderedBefore
<1>2. \A d : Cardinality(Ahead(d)) \in Nat /\ Cardinality(Ahead(d)') \in Nat
  BY AheadTyped
<1>3. at = "reading" =>
        /\ offset \in Nat
        /\ offset * limit \in Nat
        /\ (offset + 1) * limit \in Nat
        /\ offset * limit <= (offset + 1) * limit
  BY OffsetsAreNumbers, PagesAssumption DEF Typed, ReaderTyped
<1>4. ASSUME Begin PROVE Goal
  BY <1>4 DEF Begin, Typed, Fresh
<1>5. ASSUME NEW docs \in SUBSET Docs, Read(docs) PROVE Goal
  <2>1. /\ ~stale /\ docs \in Pages(offset)
        /\ at = "reading" /\ offset' = offset + 1
        /\ seen' = seen \cup docs
        /\ again' = (again \/ seen \cap docs # {})
        /\ UNCHANGED <<sort, maxDate, joined, late, list, created>>
    BY <1>5 DEF Read, query
  <2>2. docs = {d \in Selected : /\ offset * limit <= Cardinality(Ahead(d))
                                 /\ Cardinality(Ahead(d)) < (offset + 1) * limit}
    BY <1>1, <1>3, <2>1, PageByPlace, TypedIsTypeOK
  <2>3. ~again /\ \A d \in seen : Cardinality(Ahead(d)) < offset * limit
    BY <1>1, <2>1 DEF Done, Steady
  <2>4. seen \cap docs = {}
    BY <1>2, <1>3, <2>1, <2>2, <2>3
  <2>5. \A d \in seen' : Cardinality(Ahead(d)) < (offset + 1) * limit
    BY <1>2, <1>3, <2>1, <2>2, <2>3
  <2>6. \A d : Ahead(d)' = Ahead(d)
    BY <2>1 DEF Ahead, Selected, Asked
  <2> QED
    BY <2>1, <2>3, <2>4, <2>5, <2>6
<1>6. ASSUME Rest PROVE Goal
  BY <1>6 DEF Rest
<1>7. ASSUME UNCHANGED <<at, offset, seen, again, stale>>, Steady,
             ASSUME NEW d \in Docs, created[d] > 0, at = "reading"
             PROVE  Cardinality(Ahead(d)') <= Cardinality(Ahead(d))
      PROVE  Goal
  <2>1. /\ ~again
        /\ at = "reading" =>
             \A d \in seen : Cardinality(Ahead(d)) < offset * limit
    BY <1>1, <1>7 DEF Done
  <2>2. ASSUME at = "reading", NEW d \in seen
        PROVE  Cardinality(Ahead(d)') <= Cardinality(Ahead(d))
    <3>1. d \in Docs /\ created[d] > 0
      BY <1>7 DEF Typed, ReaderTyped
    <3> QED
      BY <1>7, <2>2, <3>1
  <2> QED
    BY <1>2, <1>3, <1>7, <2>1, <2>2
<1>8. ASSUME UNCHANGED <<at, offset, seen, again, stale, joined, late>>,
             list' \subseteq list
      PROVE  Goal
  <2>1. Steady
    BY <1>8, DocsSteps DEF Steady, query
  <2>2. \A d \in Docs :
          created[d] > 0 => Cardinality(Ahead(d)') <= Cardinality(Ahead(d))
    BY <1>8, AheadShrinks
  <2> QED
    BY <1>7, <1>8, <2>1, <2>2
<1>9. ASSUME NEW e \in Docs, Join(e) PROVE Goal
  <2>1. /\ UNCHANGED <<at, offset, seen, again, stale, sort, maxDate, created>>
        /\ list' = list \cup {e}
        /\ joined' = (joined \/ at = "reading")
        /\ late' = (late \/ (at = "reading" /\ created[e] < now))
    BY <1>9 DEF Join, query
  <2>2. Steady
    BY <2>1 DEF Steady
  <2>3. ASSUME NEW d \in Docs, created[d] > 0, at = "reading"
        PROVE  Cardinality(Ahead(d)') <= Cardinality(Ahead(d))
    <3>1. /\ created'[e] = now
          /\ maxDate # None => ~Asked(e)'
      BY <1>9, <2>3, JoinIsNew DEF Steady
    <3>2. maxDate # None \/ sort = "asc"
      BY <2>1, <2>3 DEF Steady, Typed, QueryTyped
    <3>3. created[d] \in Nat /\ now \in Nat /\ created[d] <= now
      BY SelectedDated, TypedIsTypeOK
    <3>4. ~Asked(e)' \/ (sort = "asc" /\ created'[e] >= created[d])
      BY <3>1, <3>2, <3>3
    <3> QED
      BY <2>1, <2>3, <3>4, AheadShrinks
  <2> QED
    BY <1>7, <2>1, <2>2, <2>3
<1>10. ASSUME NEW d \in Docs, Part(d) PROVE Goal
  BY <1>8, <1>10 DEF Part
<1> QED
  BY <1>4, <1>5, <1>6, <1>8, <1>9, <1>10, OthersSteps

-----------------------------------------------------------------------------
(* Up to a past date it gets what was there. *)

LEMMA SettledStep == Typed /\ Settled /\ [Next]_vars => Settled'
<1> SUFFICES ASSUME Typed, Settled, [Next]_vars, maxDate' # None
             PROVE  /\ ~CanPart' /\ ~parted'
                    /\ at' = "reading" => maxDate' < now'
                    /\ at' = "reading" /\ ~late' => Selected' = start'
                    /\ at' # "idle" /\ ~late' /\ ~stale' => seen' \subseteq start'
  BY DEF Settled
<1> DEFINE Goal == /\ ~parted'
                   /\ at' = "reading" => maxDate' < now'
                   /\ at' = "reading" /\ ~late' => Selected' = start'
                   /\ at' # "idle" /\ ~late' /\ ~stale' => seen' \subseteq start'
<1>1. /\ UNCHANGED <<kind, sort, maxDate>>
      /\ \A d \in Docs : created[d] > 0 => created'[d] = created[d]
      /\ list \subseteq {d \in Docs : created[d] > 0}
  BY DocsSteps DEF query, Typed, DocsTyped
<1>2. /\ ~CanPart /\ ~parted
      /\ at = "reading" => maxDate < now
      /\ at = "reading" /\ ~late => Selected = start
      /\ at # "idle" /\ ~late /\ ~stale => seen \subseteq start
  BY <1>1 DEF Settled
<1>3. ~CanPart'
  BY <1>1, <1>2 DEF CanPart
<1>4. list' = list => Selected' = Selected
  BY <1>1 DEF Selected, Asked
<1>5. ASSUME Begin PROVE Goal
  <2>1. /\ maxDate < now /\ now' = now /\ list' = list
        /\ start' = Selected /\ seen' = {} /\ parted' = parted
    BY <1>1, <1>5 DEF Begin, Selected, Typed, Fresh
  <2> QED
    BY <1>1, <1>2, <1>4, <2>1
<1>6. ASSUME NEW docs \in SUBSET Docs, Read(docs) PROVE Goal
  <2>1. /\ at = "reading"
        /\ now' = now /\ list' = list /\ start' = start /\ late' = late
        /\ seen' = seen \cup docs /\ parted' = parted
    BY <1>6 DEF Read
  <2>2. ASSUME ~late', ~stale' PROVE seen' \subseteq start'
    <3>1. ~late /\ ~stale /\ docs \in Pages(offset)
      BY <1>6, <2>2 DEF Read
    <3>2. offset \in Nat
      BY <2>1, OffsetsAreNumbers DEF Typed, ReaderTyped
    <3>3. docs \subseteq Selected
      BY <3>1, <3>2, CutLength, TypedIsTypeOK DEF Pages
    <3> QED
      BY <1>2, <2>1, <3>1, <3>3
  <2> QED
    BY <1>1, <1>2, <1>4, <2>1, <2>2
<1>7. ASSUME Rest PROVE Goal
  BY <1>7 DEF Rest
<1>8. ASSUME NEW e \in Docs, Join(e) PROVE Goal
  <2>1. /\ UNCHANGED <<now, at, seen, start, parted, stale>>
        /\ list' = list \cup {e}
        /\ ~late' => ~late
    BY <1>8 DEF Join
  <2>2. ASSUME at = "reading", ~late' PROVE Selected' = Selected
    <3>1. ~Asked(e)'
      BY <1>1, <1>8, <2>2, JoinIsNew
    <3> QED
      BY <1>1, <2>1, <3>1 DEF Selected, Asked
  <2> QED
    BY <1>1, <1>2, <2>1, <2>2
<1>9. ASSUME UNCHANGED <<list, joined, late, parted>>,
             UNCHANGED <<at, offset, seen, again, start, stale>>
      PROVE  Goal
  <2>1. now \in Nat /\ now' \in Nat /\ now <= now'
    <3>1. now \in 1 .. MaxTime /\ now' \in {now, now + 1}
      BY DEF Typed, DocsTyped, Next, Others, Begin, Rest, Read, OtherReads, Lapse,
             Make, Join, Part, Tick, vars
    <3> QED
      BY <3>1, PagesAssumption
  <2>2. maxDate \in Nat
    <3>1. maxDate \in 1 .. MaxTime
      BY <1>1 DEF Typed, QueryTyped
    <3> QED
      BY <3>1, PagesAssumption
  <2> QED
    BY <1>1, <1>2, <1>4, <1>9, <2>1, <2>2
<1>10. ASSUME NEW d \in Docs, Part(d) PROVE FALSE
  BY <1>2, <1>10 DEF Part
<1> QED
  BY <1>3, <1>5, <1>6, <1>7, <1>8, <1>9, <1>10, OthersSteps

-----------------------------------------------------------------------------
LEMMA ReadingInit == Init => ToCome /\ Done /\ Settled
  BY DEF Init, ToCome, Done, Settled, CanDate, CanPart

LEMMA ReadingInv == Spec => [](Typed /\ ToCome /\ Done /\ Settled)
  BY TypedInit, ReadingInit, TypedStep, ToComeStep, DoneStep, SettledStep, PTL
     DEF Spec

(* A reader who reaches the end has had every document that was there when *)
(* it began, unless one was hidden or edited away                          *)
(* (properties.service.ts:57-59, users.service.ts:89-91).                  *)
THEOREM ReaderMissesNothing == Spec => []NothingMissed
<1>1. ToCome => NothingMissed
  BY DEF ToCome, NothingMissed
<1> QED
  BY <1>1, ReadingInv, PTL

(* No document is on two pages: in ascending order as long as what joins   *)
(* is new, in descending order as long as nothing joins                    *)
(* (rents.service.ts:74-76).                                               *)
THEOREM ReaderGetsNothingTwice == Spec => []NothingTwice
<1>1. Done => NothingTwice
  BY DEF Done, Steady, NothingTwice
<1> QED
  BY <1>1, ReadingInv, PTL

(* The pages up to a past date are what there was when the reader began,   *)
(* each once and no more, in either order                                  *)
(* (transactions.service.ts:50-70, notifications.service.ts:35-47).        *)
THEOREM PastPagesAreExact == Spec => []PastIsExact
<1>1. ToCome /\ Done /\ Settled => PastIsExact
  BY DEF ToCome, Done, Settled, Steady, PastIsExact
<1> QED
  BY <1>1, ReadingInv, PTL

=============================================================================
