------------------------ MODULE PropertyImages_proofs ------------------------
(***************************************************************************)
(* What is on the disk, what is in the list and what the uploads answered, *)
(* for any files, any number of requests handled at one time and any limit *)
(* of multer.                                                              *)
(***************************************************************************)
EXTENDS PropertyImages, FiniteSetTheorems, TLAPS

Places == {"none", "temp", "whole", "copying", "empty", "part", "gone"}
Promises == {"none", "pending", "resolved", "rejected"}
Reqs == [at : {"idle", "receive", "find", "move", "answer"},
         files : SUBSET Files, before : SUBSET Files]

Typed ==
  /\ where \in [Files -> Places]
  /\ move \in [Files -> Promises]
  /\ images \subseteq Files
  /\ req \in [Slots -> Reqs]
  /\ listed \subseteq Files /\ told \subseteq Files
  /\ unheard \subseteq Files /\ left \subseteq Files /\ spoilt \subseteq Files

Accounted(f) == f \in listed \cup left \/ \E s \in Slots : f \in req[s].files

(* The state of a file and the promise of its move.  A promise that is     *)
(* resolved was so for a file that was there, or had vanished before.      *)
FileInv ==
  \A f \in Files :
    /\ where[f] = "none" => move[f] = "none" /\ \A s \in Slots : f \notin req[s].files
    /\ move[f] = "pending" => \/ where[f] = "temp"
                              \/ where[f] = "gone" /\ f \in spoilt
    /\ move[f] = "resolved" => \/ where[f] \in {"whole", "copying"}
                               \/ where[f] \in {"empty", "part"} /\ f \in spoilt
    /\ f \in listed => move[f] = "resolved"
    /\ where[f] \notin {"none", "gone"} => Accounted(f)
    /\ move[f] = "pending" => Accounted(f)

(* Nothing moves the files of a request before the property is found, and  *)
(* a request that has written the list has all its files in it.            *)
SlotInv ==
  \A s \in Slots :
    /\ req[s].at \in {"receive", "find"} =>
         \A f \in req[s].files :
           /\ move[f] = "none"
           /\ where[f] = "temp" \/ (where[f] = "gone" /\ f \in spoilt)
    /\ req[s].at = "answer" => req[s].files \subseteq listed
    /\ req[s].at = "idle" => req[s].files = {}

Disjoint == \A s, t \in Slots : s # t => req[s].files \cap req[t].files = {}

ListInv == images \subseteq listed /\ ReplacedIsTold

IInv == Typed /\ FileInv /\ SlotInv /\ Disjoint /\ ListInv

LEMMA InvInit == Init => IInv
<1> SUFFICES ASSUME Init PROVE IInv
  OBVIOUS
<1>1. req \in [Slots -> Reqs]
  BY DEF Init, Reqs, NoReq
<1>2. Typed
  BY <1>1 DEF Init, Typed, Places, Promises
<1>3. FileInv /\ SlotInv /\ Disjoint /\ ListInv
  BY DEF Init, FileInv, SlotInv, Disjoint, ListInv, ReplacedIsTold, NoReq
<1> QED
  BY <1>2, <1>3 DEF IInv

LEMMA NoReqFields == NoReq.at = "idle" /\ NoReq.files = {} /\ NoReq \in Reqs
  BY DEF NoReq, Reqs

-----------------------------------------------------------------------------
(* A step that changes one request and no file, and drops the files of the *)
(* request only when they are listed or left behind.                       *)
LEMMA Keeps ==
  ASSUME IInv, NEW s \in Slots,
         req' \in [Slots -> Reqs],
         \A t \in Slots \ {s} : req'[t] = req[t],
         UNCHANGED <<where, move, images, listed, spoilt>>,
         left \subseteq left' /\ left' \subseteq Files,
         told \subseteq told' /\ told' \subseteq Files,
         UNCHANGED unheard,
         \/ req'[s].files = req[s].files
         \/ req'[s].files = {} /\ req[s].files \subseteq left' \cup listed,
         \/ req'[s].at = "idle" /\ req'[s].files = {}
         \/ req'[s].at = "receive" /\ req'[s].files = {}
         \/ req'[s].at = "find" /\ req[s].at = "receive",
         req[s].at = "answer" => req[s].before \subseteq told'
  PROVE  IInv'
<1> USE DEF IInv
<1>1. Typed'
  BY DEF Typed
<1>2. \A f \in Files : Accounted(f) => Accounted(f)'
  BY DEF Accounted
<1>3. FileInv'
  <2>1. \A f \in Files, t \in Slots : f \in req'[t].files => f \in req[t].files
    OBVIOUS
  <2> QED
    BY <1>2, <2>1 DEF FileInv
<1>4. SlotInv'
  <2> SUFFICES ASSUME NEW t \in Slots
               PROVE  /\ req'[t].at \in {"receive", "find"} =>
                           \A f \in req'[t].files :
                             /\ move[f] = "none"
                             /\ where[f] = "temp" \/ (where[f] = "gone" /\ f \in spoilt)
                      /\ req'[t].at = "answer" => req'[t].files \subseteq listed
                      /\ req'[t].at = "idle" => req'[t].files = {}
    BY DEF SlotInv
  <2>1. CASE t = s
    BY <2>1 DEF SlotInv
  <2>2. CASE t # s
    BY <2>2 DEF SlotInv
  <2> QED
    BY <2>1, <2>2
<1>5. Disjoint'
  BY DEF Disjoint
<1>6. ListInv'
  <2>1. ASSUME NEW f \in listed \ images
        PROVE  \/ f \in told' \cup unheard
               \/ \E t \in Slots : req'[t].at = "answer" /\ f \in req'[t].before
    BY DEF ListInv, ReplacedIsTold, At
  <2> QED
    BY <2>1 DEF ListInv, ReplacedIsTold, At
<1> QED
  BY <1>1, <1>3, <1>4, <1>5, <1>6

LEMMA KeepingStep ==
  ASSUME IInv, NEW s \in Slots,
         \/ Begin(s) \/ Invalid(s) \/ Received(s) \/ NotFound(s) \/ Answer(s) \/ Fail(s)
  PROVE  IInv'
<1> USE DEF IInv
<1>1. req[s] \in Reqs
  BY DEF Typed
<1>2. CASE Begin(s)
  <2>1. /\ req' \in [Slots -> Reqs]
        /\ \A t \in Slots \ {s} : req'[t] = req[t]
        /\ req'[s].at = "receive" /\ req'[s].files = req[s].files
    BY <1>1, <1>2 DEF Begin, Typed, Reqs
  <2>2. req[s].at = "idle" /\ req[s].files = {}
    BY <1>2 DEF Begin, At, SlotInv
  <2> QED
    BY <1>2, <2>1, <2>2, Keeps DEF Begin, history, Typed
<1>3. CASE Invalid(s) \/ NotFound(s) \/ Fail(s)
  <2>1. /\ req' \in [Slots -> Reqs]
        /\ \A t \in Slots \ {s} : req'[t] = req[t]
        /\ req'[s].at = "idle" /\ req'[s].files = {}
        /\ left' = left \cup req[s].files
    BY <1>1, <1>3, NoReqFields DEF Invalid, NotFound, Fail, End, Typed
  <2>2. req[s].at # "answer" /\ UNCHANGED <<where, move, images, listed, told, unheard, spoilt>>
    BY <1>3 DEF Invalid, NotFound, Fail, At
  <2>3. left' \subseteq Files
    BY <1>1, <2>1 DEF Typed, Reqs
  <2> QED
    BY <2>1, <2>2, <2>3, Keeps DEF Typed
<1>4. CASE Received(s)
  <2>1. /\ req' \in [Slots -> Reqs]
        /\ \A t \in Slots \ {s} : req'[t] = req[t]
        /\ req'[s].at = "find" /\ req'[s].files = req[s].files
        /\ req[s].at = "receive"
    BY <1>1, <1>4 DEF Received, Typed, Reqs, At
  <2> QED
    BY <1>4, <2>1, Keeps DEF Received, history, Typed
<1>5. CASE Answer(s)
  <2>1. /\ req' \in [Slots -> Reqs]
        /\ \A t \in Slots \ {s} : req'[t] = req[t]
        /\ req'[s].at = "idle" /\ req'[s].files = {}
    BY <1>1, <1>5, NoReqFields DEF Answer, Typed
  <2>2. req[s].files \subseteq listed
    BY <1>5 DEF Answer, At, SlotInv
  <2>3. told' = told \cup req[s].before /\ told' \subseteq Files
    BY <1>1, <1>5 DEF Answer, Typed, Reqs
  <2>4. UNCHANGED <<where, move, images, listed, unheard, left, spoilt>>
    BY <1>5 DEF Answer
  <2> QED
    BY <2>1, <2>2, <2>3, <2>4, Keeps DEF Typed
<1> QED
  BY <1>2, <1>3, <1>4, <1>5

-----------------------------------------------------------------------------
(* Multer stores a file under a new name, or removes those it has stored.  *)
LEMMA ReceiveStep ==
  ASSUME IInv, NEW s \in Slots, NEW f \in Files, Receive(s, f)
  PROVE  IInv'
<1> USE DEF IInv
<1>1. req[s] \in Reqs /\ req[s].at = "receive" /\ where[f] = "none"
  BY DEF Typed, Receive, At
<1>2. /\ req' \in [Slots -> Reqs]
      /\ \A t \in Slots \ {s} : req'[t] = req[t]
      /\ req'[s].at = "receive" /\ req'[s].files = req[s].files \cup {f}
      /\ req'[s].before = req[s].before
  BY <1>1 DEF Receive, Typed, Reqs
<1>3. /\ where' \in [Files -> Places] /\ where'[f] = "temp"
      /\ \A g \in Files \ {f} : where'[g] = where[g]
      /\ UNCHANGED <<move, images, listed, told, unheard, left, spoilt>>
  BY DEF Receive, Typed, Places, history
<1>4. Typed'
  BY <1>2, <1>3 DEF Typed
<1>5. move[f] = "none" /\ f \notin listed /\ \A t \in Slots : f \notin req[t].files
  BY <1>1 DEF FileInv
<1>6. FileInv'
  <2>1. \A g \in Files : Accounted(g) => Accounted(g)'
    BY <1>2, <1>3 DEF Accounted
  <2>2. Accounted(f)'
    BY <1>2 DEF Accounted
  <2>3. \A g \in Files \ {f}, t \in Slots : g \in req'[t].files => g \in req[t].files
    BY <1>2
  <2> QED
    BY <1>3, <1>5, <2>1, <2>2, <2>3 DEF FileInv
<1>7. SlotInv'
  BY <1>1, <1>2, <1>3, <1>5 DEF SlotInv, Typed, Reqs
<1>8. Disjoint'
  BY <1>2, <1>5 DEF Disjoint
<1>9. ListInv'
  BY <1>1, <1>2, <1>3 DEF ListInv, ReplacedIsTold, At
<1> QED
  BY <1>4, <1>6, <1>7, <1>8, <1>9

LEMMA TooManyStep ==
  ASSUME IInv, NEW s \in Slots, TooMany(s)
  PROVE  IInv'
<1> USE DEF IInv
<1>1. req[s] \in Reqs /\ req[s].at = "receive"
  BY DEF Typed, TooMany, At
<1>2. /\ req' \in [Slots -> Reqs]
      /\ \A t \in Slots \ {s} : req'[t] = req[t]
      /\ req'[s].at = "idle" /\ req'[s].files = {}
  BY <1>1, NoReqFields DEF TooMany, Typed
<1>3. /\ where' \in [Files -> Places]
      /\ \A g \in Files : where'[g] = IF g \in req[s].files THEN "gone" ELSE where[g]
      /\ UNCHANGED <<move, images, listed, told, unheard, left, spoilt>>
  BY DEF TooMany, Typed, Places, history
<1>4. Typed'
  BY <1>2, <1>3 DEF Typed
<1>5. \A g \in req[s].files :
        g \in Files /\ move[g] = "none" /\ \A t \in Slots \ {s} : g \notin req[t].files
  BY <1>1 DEF SlotInv, Disjoint, Reqs
<1>6. FileInv'
  <2>1. \A g \in Files \ req[s].files : Accounted(g) => Accounted(g)'
    BY <1>2, <1>3 DEF Accounted
  <2>2. \A g \in Files, t \in Slots : g \in req'[t].files => g \in req[t].files
    BY <1>2
  <2> QED
    BY <1>3, <1>5, <2>1, <2>2 DEF FileInv
<1>7. SlotInv'
  BY <1>1, <1>2, <1>3, <1>5 DEF SlotInv, Typed, Reqs
<1>8. Disjoint'
  BY <1>2 DEF Disjoint
<1>9. ListInv'
  BY <1>1, <1>2, <1>3 DEF ListInv, ReplacedIsTold, At
<1> QED
  BY <1>4, <1>6, <1>7, <1>8, <1>9

(* The moves begin. *)
LEMMA FindStep ==
  ASSUME IInv, NEW s \in Slots, Find(s)
  PROVE  IInv'
<1> USE DEF IInv
<1>1. req[s] \in Reqs /\ req[s].at = "find"
  BY DEF Typed, Find, At
<1>2. /\ req' \in [Slots -> Reqs]
      /\ \A t \in Slots \ {s} : req'[t] = req[t]
      /\ req'[s].at = "move" /\ req'[s].files = req[s].files
  BY <1>1 DEF Find, Typed, Reqs
<1>3. /\ move' \in [Files -> Promises]
      /\ \A g \in Files : move'[g] = IF g \in req[s].files THEN "pending" ELSE move[g]
      /\ UNCHANGED <<where, images, listed, told, unheard, left, spoilt>>
  BY DEF Find, Typed, Promises, history
<1>4. Typed'
  BY <1>2, <1>3 DEF Typed
<1>5. \A g \in req[s].files :
        /\ g \in Files /\ move[g] = "none" /\ g \notin listed
        /\ where[g] = "temp" \/ (where[g] = "gone" /\ g \in spoilt)
        /\ \A t \in Slots \ {s} : g \notin req[t].files
  BY <1>1 DEF SlotInv, FileInv, Disjoint, Reqs
<1>6. FileInv'
  <2>1. \A g \in Files : Accounted(g) => Accounted(g)'
    BY <1>2, <1>3 DEF Accounted
  <2>2. \A g \in req[s].files : Accounted(g)'
    BY <1>2 DEF Accounted
  <2>3. \A g \in Files, t \in Slots : g \in req'[t].files => g \in req[t].files
    BY <1>2
  <2> QED
    BY <1>3, <1>5, <2>1, <2>2, <2>3 DEF FileInv
<1>7. SlotInv'
  BY <1>1, <1>2, <1>3, <1>5 DEF SlotInv, Typed, Reqs
<1>8. Disjoint'
  BY <1>2 DEF Disjoint
<1>9. ListInv'
  BY <1>1, <1>2, <1>3 DEF ListInv, ReplacedIsTold, At
<1> QED
  BY <1>4, <1>6, <1>7, <1>8, <1>9

(* The list is written when every move has resolved, so what it names is   *)
(* there; the list before is in the answer or died with it.                *)
LEMMA WriteStep ==
  ASSUME IInv, NEW s \in Slots, Write(s) \/ FailWritten(s)
  PROVE  IInv'
<1> USE DEF IInv
<1>1. /\ req[s] \in Reqs /\ req[s].at = "move"
      /\ \A f \in req[s].files : move[f] = "resolved"
  BY DEF Typed, Write, FailWritten, At
<1>2. /\ req' \in [Slots -> Reqs]
      /\ \A t \in Slots \ {s} : req'[t] = req[t]
      /\ \/ /\ req'[s].at = "answer" /\ req'[s].files = req[s].files
            /\ req'[s].before = images /\ UNCHANGED unheard
         \/ /\ req'[s].at = "idle" /\ req'[s].files = {}
            /\ unheard' = unheard \cup images
  BY <1>1, NoReqFields DEF Write, FailWritten, Typed, Reqs
<1>3. /\ images' = req[s].files /\ listed' = listed \cup req[s].files
      /\ UNCHANGED <<where, move, told, left, spoilt>>
  BY DEF Write, FailWritten
<1>4. Typed'
  BY <1>1, <1>2, <1>3 DEF Typed, Reqs
<1>5. FileInv'
  <2>1. \A g \in Files : Accounted(g) => Accounted(g)'
    BY <1>2, <1>3 DEF Accounted
  <2>2. \A g \in Files, t \in Slots : g \in req'[t].files => g \in req[t].files
    BY <1>2
  <2> QED
    BY <1>1, <1>3, <2>1, <2>2 DEF FileInv
<1>6. SlotInv'
  BY <1>1, <1>2, <1>3 DEF SlotInv, Typed, Reqs
<1>7. Disjoint'
  BY <1>2 DEF Disjoint
<1>8. ListInv'
  BY <1>1, <1>2, <1>3 DEF ListInv, ReplacedIsTold, At
<1> QED
  BY <1>4, <1>5, <1>6, <1>7, <1>8

-----------------------------------------------------------------------------
(* A step of the file system or of a stream, which no request notices.  A  *)
(* file whose rename has begun is one its request has brought, and the     *)
(* request is past the steps at which nothing moves.                       *)
LEMMA FileStep ==
  ASSUME IInv, NEW f \in Files,
         Rename(f) \/ Cut(f) \/ Copied(f) \/ CopyFails(f) \/ Vanish(f)
  PROVE  IInv'
<1> USE DEF IInv
<1>1. /\ where' \in [Files -> Places] /\ move' \in [Files -> Promises]
      /\ \A g \in Files \ {f} : where'[g] = where[g] /\ move'[g] = move[g]
      /\ UNCHANGED <<images, req, listed, told, unheard, left>>
      /\ spoilt \subseteq spoilt' /\ spoilt' \subseteq spoilt \cup {f}
  BY DEF Rename, Cut, Copied, CopyFails, Vanish, Typed, Places, Promises, history
<1>2. Typed'
  BY <1>1 DEF Typed
<1>3. \/ /\ move[f] = "pending" /\ move'[f] = "resolved"
         /\ \/ where[f] = "temp" /\ where'[f] \in {"whole", "copying"}
            \/ where[f] # "temp" /\ where'[f] = "empty"
      \/ /\ where[f] = "copying" /\ move'[f] = move[f]
         /\ \/ where'[f] = "whole"
            \/ where'[f] = "part" /\ f \in spoilt'
      \/ /\ where[f] = "temp" /\ move'[f] = move[f]
         /\ where'[f] = "gone" /\ f \in spoilt'
  BY DEF Rename, Cut, Copied, CopyFails, Vanish, Typed
<1>4. FileInv'
  <2>1. \A g \in Files : Accounted(g)' = Accounted(g)
    BY <1>1 DEF Accounted
  <2> QED
    BY <1>1, <1>3, <2>1 DEF FileInv
<1>5. SlotInv'
  BY <1>1, <1>3 DEF SlotInv, Typed, Reqs
<1>6. Disjoint' /\ ListInv'
  BY <1>1 DEF Disjoint, ListInv, ReplacedIsTold, At
<1> QED
  BY <1>2, <1>4, <1>5, <1>6

(* A move that rejects ends its request: the request has not written the   *)
(* list, for the files of one that has are resolved.                       *)
LEMMA MoveFailsStep ==
  ASSUME IInv, NEW f \in Files, MoveFails(f)
  PROVE  IInv'
<1> USE DEF IInv
<1>1. /\ move' \in [Files -> Promises] /\ move[f] = "pending" /\ move'[f] = "rejected"
      /\ \A g \in Files \ {f} : move'[g] = move[g]
      /\ UNCHANGED <<where, images, listed, told, unheard, spoilt>>
  BY DEF MoveFails, Typed, Promises
<1>2. f \notin listed
  BY <1>1 DEF FileInv
<1>3. CASE UNCHANGED <<req, left>>
  <2>1. \A g \in Files : Accounted(g)' = Accounted(g)
    BY <1>1, <1>3 DEF Accounted
  <2>2. Typed' /\ FileInv'
    BY <1>1, <1>2, <1>3, <2>1 DEF Typed, FileInv
  <2>3. SlotInv'
    BY <1>1, <1>3 DEF SlotInv, Typed, Reqs
  <2>4. Disjoint' /\ ListInv'
    BY <1>1, <1>3 DEF Disjoint, ListInv, ReplacedIsTold, At
  <2> QED
    BY <2>2, <2>3, <2>4
<1>4. ASSUME NEW s \in Slots, f \in req[s].files, End(s)
      PROVE  IInv'
  <2>1. req[s] \in Reqs /\ req[s].at # "answer"
    BY <1>2, <1>4 DEF Typed, SlotInv
  <2>2. /\ req' \in [Slots -> Reqs]
        /\ \A t \in Slots \ {s} : req'[t] = req[t]
        /\ req'[s].at = "idle" /\ req'[s].files = {}
        /\ left' = left \cup req[s].files
    BY <1>4, NoReqFields DEF End, Typed
  <2>3. Typed'
    BY <1>1, <2>1, <2>2 DEF Typed, Reqs
  <2>4. FileInv'
    <3>1. \A g \in Files : Accounted(g) => Accounted(g)'
      BY <1>1, <2>2 DEF Accounted
    <3>2. \A g \in Files, t \in Slots : g \in req'[t].files => g \in req[t].files
      BY <2>2
    <3> QED
      BY <1>1, <1>2, <3>1, <3>2 DEF FileInv
  <2>5. SlotInv'
    BY <1>1, <2>2 DEF SlotInv, Typed, Reqs
  <2>6. Disjoint'
    BY <2>2 DEF Disjoint
  <2>7. ListInv'
    BY <1>1, <2>1, <2>2 DEF ListInv, ReplacedIsTold, At
  <2> QED
    BY <2>3, <2>4, <2>5, <2>6, <2>7
<1> QED
  BY <1>3, <1>4 DEF MoveFails

LEMMA CrashStep ==
  ASSUME IInv, Crash
  PROVE  IInv'
<1> USE DEF IInv
<1>1. /\ req' \in [Slots -> Reqs]
      /\ \A s \in Slots : req'[s].at = "idle" /\ req'[s].files = {}
  BY NoReqFields DEF Crash
<1>2. /\ where' \in [Files -> Places] /\ move' \in [Files -> Promises]
      /\ \A f \in Files : /\ move'[f] = IF move[f] = "pending" THEN "rejected" ELSE move[f]
                         /\ where'[f] = IF where[f] = "copying" THEN "part" ELSE where[f]
      /\ UNCHANGED <<images, listed, told>>
      /\ spoilt' = spoilt \cup {f \in Files : where[f] = "copying"}
  BY DEF Crash, Typed, Places, Promises
<1>3. /\ left' = left \cup UNION {req[s].files : s \in {t \in Slots : ~At(t, "answer")}}
      /\ unheard' = unheard
                      \cup UNION {req[s].before : s \in {t \in Slots : At(t, "answer")}}
  BY DEF Crash
<1>4. Typed'
  <2>1. \A s \in Slots : req[s].files \subseteq Files /\ req[s].before \subseteq Files
    BY DEF Typed, Reqs
  <2>2. left' \subseteq Files /\ unheard' \subseteq Files
    BY <1>3, <2>1 DEF Typed
  <2> QED
    BY <1>1, <1>2, <2>2 DEF Typed
<1>5. FileInv'
  <2>1. ASSUME NEW f \in Files, Accounted(f) PROVE f \in listed \cup left'
    <3>1. ASSUME NEW s \in Slots, f \in req[s].files PROVE f \in listed \cup left'
      <4>1. CASE req[s].at = "answer"
        BY <3>1, <4>1 DEF SlotInv
      <4>2. CASE req[s].at # "answer"
        BY <1>3, <3>1, <4>2 DEF At
      <4> QED
        BY <4>1, <4>2
    <3> QED
      BY <1>3, <2>1, <3>1 DEF Accounted
  <2>2. \A f \in Files : Accounted(f) => Accounted(f)'
    BY <1>2, <2>1 DEF Accounted
  <2> QED
    BY <1>1, <1>2, <2>2 DEF FileInv
<1>6. SlotInv' /\ Disjoint'
  BY <1>1 DEF SlotInv, Disjoint
<1>7. ListInv'
  <2>1. ASSUME NEW s \in Slots, req[s].at = "answer" PROVE req[s].before \subseteq unheard'
    BY <1>3, <2>1 DEF At
  <2>2. unheard \subseteq unheard'
    BY <1>3
  <2> QED
    BY <1>2, <2>1, <2>2 DEF ListInv, ReplacedIsTold, At
<1> QED
  BY <1>4, <1>5, <1>6, <1>7

LEMMA InvStep == IInv /\ [Next]_vars => IInv'
<1>1. IInv /\ UNCHANGED vars => IInv'
  BY DEF vars, history, IInv, Typed, FileInv, Accounted, SlotInv, Disjoint, ListInv,
         ReplacedIsTold, At
<1> QED
  BY <1>1, KeepingStep, ReceiveStep, TooManyStep, FindStep, WriteStep, FileStep,
     MoveFailsStep, CrashStep
     DEF Next, Handle, Move, Copy

-----------------------------------------------------------------------------
(* A request brings no more files than multer takes. *)
FilesFit ==
  \A s \in Slots :
    IsFiniteSet(req[s].files) /\ Cardinality(req[s].files) \in 0..MaxFiles

LEMMA FilesFitStep == IInv /\ FilesFit /\ [Next]_vars => FilesFit'
<1> SUFFICES ASSUME IInv, FilesFit, [Next]_vars, NEW s \in Slots
             PROVE  IsFiniteSet(req'[s].files) /\ Cardinality(req'[s].files) \in 0..MaxFiles
  BY DEF FilesFit
<1>1. CASE req'[s].files = req[s].files
  BY <1>1 DEF FilesFit
<1>2. CASE req'[s].files = {}
  BY <1>2, FS_EmptySet, ImagesAssumption
<1>3. ASSUME NEW f \in Files, Receive(s, f)
      PROVE  IsFiniteSet(req'[s].files) /\ Cardinality(req'[s].files) \in 0..MaxFiles
  <2> DEFINE F == req[s].files
  <2>1. req[s] \in Reqs /\ req'[s].files = F \cup {f}
    BY <1>3 DEF Receive, IInv, Typed, Reqs
  <2>2. IsFiniteSet(F) /\ Cardinality(F) \in 0..MaxFiles /\ Cardinality(F) < MaxFiles
    BY <1>3 DEF Receive, FilesFit
  <2>3. /\ IsFiniteSet(F \cup {f})
        /\ Cardinality(F \cup {f}) = Cardinality(F) \/ Cardinality(F \cup {f}) = Cardinality(F) + 1
    BY <2>2, FS_AddElement
  <2> HIDE DEF F
  <2>4. Cardinality(F \cup {f}) \in 0..MaxFiles
    BY <2>2, <2>3, ImagesAssumption
  <2> QED
    BY <2>1, <2>3, <2>4
<1>4. ASSUME NEW t \in Slots,
             \/ Begin(t) \/ TooMany(t) \/ Invalid(t) \/ Received(t) \/ Handle(t)
             \/ t # s /\ \E f \in Files : Receive(t, f)
      PROVE  req'[s].files = req[s].files \/ req'[s].files = {}
  <2>1. req[s] \in Reqs
    BY DEF IInv, Typed
  <2> QED
    BY <1>4, <2>1, NoReqFields
       DEF Begin, TooMany, Invalid, Received, Handle, NotFound, Find, Write, Answer, Fail,
           FailWritten, Receive, End, IInv, Typed, Reqs
<1>5. ASSUME NEW f \in Files, Move(f) \/ Copy(f) \/ Vanish(f)
      PROVE  req'[s].files = req[s].files \/ req'[s].files = {}
  BY <1>5, NoReqFields
     DEF Move, Rename, Cut, MoveFails, Copy, Copied, CopyFails, Vanish, End, IInv, Typed
<1>6. CASE Crash
  BY <1>2, <1>6, NoReqFields DEF Crash
<1>7. CASE UNCHANGED vars
  BY <1>1, <1>7 DEF vars
<1> QED
  BY <1>1, <1>2, <1>3, <1>4, <1>5, <1>6, <1>7 DEF Next

-----------------------------------------------------------------------------
(* The invariant of the files, the requests and the list. *)
LEMMA Invariant == Spec => [](IInv /\ FilesFit)
<1>1. Init => FilesFit
  <2> SUFFICES ASSUME Init, NEW s \in Slots
               PROVE  IsFiniteSet(req[s].files) /\ Cardinality(req[s].files) \in 0..MaxFiles
    BY DEF FilesFit
  <2>1. req[s].files = {}
    BY NoReqFields DEF Init
  <2> QED
    BY <2>1, FS_EmptySet, ImagesAssumption
<1> QED
  BY <1>1, InvInit, InvStep, FilesFitStep, PTL DEF Spec

(* Every variable keeps to its values, no request brings more files than   *)
(* multer takes, and no file in the list is still in temp.                 *)
THEOREM TypeCorrect == Spec => []TypeOK
<1>1. IInv /\ FilesFit => TypeOK
  <2> SUFFICES ASSUME IInv, FilesFit PROVE TypeOK
    OBVIOUS
  <2>1. \A s \in Slots : Cardinality(req[s].files) <= MaxFiles
    BY ImagesAssumption DEF FilesFit
  <2>2. \A f \in Files : where[f] \in {"none", "temp"} => f \notin listed
    BY DEF IInv, FileInv
  <2> QED
    BY <2>1, <2>2 DEF IInv, Typed, TypeOK, Places, Promises, Reqs
<1> QED
  BY <1>1, Invariant, PTL

(* A file in the list is there or is being copied, unless it had vanished  *)
(* or its copy broke later (storage.ts:27-38).                             *)
THEOREM ListedFilesAreThere == Spec => []ListedIsThere
<1>1. IInv => ListedIsThere
  BY DEF IInv, Typed, FileInv, ListInv, ListedIsThere
<1> QED
  BY <1>1, Invariant, PTL

(* Uploads that overlap do not lose each other's images without a word     *)
(* (properties.service.ts:117-121).                                        *)
THEOREM ReplacedFilesAreTold == Spec => []ReplacedIsTold
<1>1. IInv => ReplacedIsTold
  BY DEF IInv, ListInv
<1> QED
  BY <1>1, Invariant, PTL

(* No successful upload leaves a file nobody knows of (storage.ts:116-129).*)
THEOREM NoFileForgotten == Spec => []FilesAccounted
<1>1. IInv => FilesAccounted
  BY DEF IInv, FileInv, Accounted, FilesAccounted
<1> QED
  BY <1>1, Invariant, PTL

-----------------------------------------------------------------------------
(* What UploadEnds rests on, as a property of states: an upload that waits *)
(* for its moves waits for promises that are resolved or pending, and a    *)
(* pending one can be settled at any time (Cut, MoveFails).  None has been *)
(* rejected without ending the upload, and none was never begun            *)
(* (storage.ts:24-39, properties.service.ts:112-116).                      *)
NoUploadStuck ==
  \A s \in Slots :
    At(s, "move") => \A f \in req[s].files : move[f] \in {"pending", "resolved"}

LEMMA NoUploadStuckStep ==
  IInv /\ NoUploadStuck /\ [Next]_vars => NoUploadStuck'
<1> SUFFICES ASSUME IInv, NoUploadStuck, [Next]_vars PROVE NoUploadStuck'
  OBVIOUS
<1>0. \A s \in Slots : req'[s].files \subseteq Files
  BY InvStep DEF IInv, Typed, Reqs
<1> SUFFICES ASSUME NEW s \in Slots, req'[s].at = "move",
                    NEW f \in Files, f \in req'[s].files
             PROVE  move'[f] \in {"pending", "resolved"}
  BY <1>0 DEF NoUploadStuck, At
<1> USE DEF IInv
<1>1. req \in [Slots -> Reqs] /\ move \in [Files -> Promises]
  BY DEF Typed
<1>2. ASSUME req'[s] = req[s], move'[f] = move[f]
      PROVE  move'[f] \in {"pending", "resolved"}
  BY <1>2 DEF NoUploadStuck, At
<1>3. ASSUME NEW t \in Slots,
             \/ Begin(t) \/ TooMany(t) \/ Invalid(t) \/ Received(t) \/ NotFound(t)
             \/ Write(t) \/ Answer(t) \/ Fail(t) \/ FailWritten(t)
      PROVE  move'[f] \in {"pending", "resolved"}
  <2>1. UNCHANGED move
    BY <1>3 DEF Begin, TooMany, Invalid, Received, NotFound, Write, Answer, Fail,
                FailWritten
  <2>2. req'[t].at # "move" /\ (t # s => req'[s] = req[s])
    BY <1>1, <1>3, NoReqFields
       DEF Begin, TooMany, Invalid, Received, NotFound, Write, Answer, Fail,
           FailWritten, End, Reqs
  <2> QED
    BY <1>2, <2>1, <2>2
<1>4. ASSUME NEW t \in Slots, Find(t) PROVE move'[f] \in {"pending", "resolved"}
  <2>1. move'[f] = IF f \in req[t].files THEN "pending" ELSE move[f]
    BY <1>4 DEF Find
  <2>2. req'[t].files = req[t].files /\ (t # s => req'[s] = req[s])
    BY <1>1, <1>4 DEF Find, Reqs
  <2> QED
    BY <1>2, <2>1, <2>2
<1>5. ASSUME NEW t \in Slots, NEW g \in Files, Receive(t, g)
      PROVE  move'[f] \in {"pending", "resolved"}
  <2>1. UNCHANGED move /\ req[t].at = "receive"
    BY <1>5 DEF Receive, At
  <2>2. req'[t].at = req[t].at /\ (t # s => req'[s] = req[s])
    BY <1>1, <1>5 DEF Receive, Reqs
  <2> QED
    BY <1>2, <2>1, <2>2
<1>6. ASSUME NEW g \in Files, Rename(g) \/ Cut(g) \/ Copied(g) \/ CopyFails(g) \/ Vanish(g)
      PROVE  move'[f] \in {"pending", "resolved"}
  <2>1. UNCHANGED req /\ move'[f] \in {move[f], "resolved"}
    BY <1>1, <1>6 DEF Rename, Cut, Copied, CopyFails, Vanish
  <2> QED
    BY <1>2, <2>1
<1>7. ASSUME NEW g \in Files, MoveFails(g) PROVE move'[f] \in {"pending", "resolved"}
  <2>1. PICK t \in Slots \cup {NoReq} :
             \/ t \in Slots /\ g \in req[t].files /\ req' = [req EXCEPT ![t] = NoReq]
             \/ (\A o \in Slots : g \notin req[o].files) /\ UNCHANGED req
    BY <1>7 DEF MoveFails, End
  <2>2. req'[s] = req[s] /\ g \notin req[s].files
    BY <1>1, <2>1, NoReqFields DEF Disjoint
  <2>3. f # g => move'[f] = move[f]
    BY <1>1, <1>7 DEF MoveFails
  <2> QED
    BY <1>2, <2>2, <2>3
<1>8. ASSUME Crash PROVE FALSE
  BY <1>8, NoReqFields DEF Crash
<1>9. CASE UNCHANGED vars
  BY <1>2, <1>9 DEF vars
<1> QED
  BY <1>3, <1>4, <1>5, <1>6, <1>7, <1>8, <1>9 DEF Next, Handle, Move, Copy

(* No upload waits for a move that has failed or was never made, however   *)
(* uploads, failing renames and crashes interleave (storage.ts:24-39).     *)
THEOREM UploadsWaitForMoves == Spec => []NoUploadStuck
<1>1. Init => NoUploadStuck
  BY NoReqFields DEF Init, NoUploadStuck, At
<1> QED
  BY <1>1, NoUploadStuckStep, Invariant, PTL DEF Spec
=============================================================================
