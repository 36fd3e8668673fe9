--------------------------- MODULE PropertyImages ---------------------------
(***************************************************************************)
(* The images of a property: multer stores the files of a request in the   *)
(* temp directory, updatePropertyImages moves each to the directory of the *)
(* property and puts the list of them in the place of the one before.      *)
(* Every file gets a name of its own, so uploads for other properties      *)
(* share nothing with these: there is one property.                        *)
(***************************************************************************)
EXTENDS Naturals, FiniteSets

CONSTANTS
  Files,    \* bound: the names that are drawn
  Slots,    \* requests handled at one time
  MaxFiles  \* files multer takes in a request

ASSUME ImagesAssumption == MaxFiles \in Nat \ {0}

VARIABLES
  where,    \* what there is of each file
  move,     \* the promise of Storage.move for each file
  images,   \* the list in the document
  req,      \* the request in each slot
  listed,   \* history: files that have been in the list
  told,     \* history: files an upload has answered it replaced
  unheard,  \* history: files replaced by an upload that did not answer
  left,     \* history: files of requests that ended with no list written
  spoilt    \* history: files that vanished from temp, or whose copy broke

history == <<listed, told, unheard, left, spoilt>>
vars == <<where, move, images, req, history>>

NoReq == [at |-> "idle", files |-> {}, before |-> {}]

TypeOK ==
  /\ where \in [Files -> {"none", "temp", "whole", "copying", "empty",
                          "part", "gone"}]
  /\ move \in [Files -> {"none", "pending", "resolved", "rejected"}]
  /\ images \subseteq Files
  /\ req \in [Slots -> [at : {"idle", "receive", "find", "move", "answer"},
                        files : SUBSET Files, before : SUBSET Files]]
  /\ \A s \in Slots : Cardinality(req[s].files) <= MaxFiles
  /\ \A f \in Files : where[f] \in {"none", "temp"} => f \notin listed
  /\ listed \subseteq Files /\ told \subseteq Files
  /\ unheard \subseteq Files /\ left \subseteq Files /\ spoilt \subseteq Files

Init ==
  /\ where = [f \in Files |-> "none"]
  /\ move = [f \in Files |-> "none"]
  /\ images = {}
  /\ req = [s \in Slots |-> NoReq]
  /\ listed = {} /\ told = {} /\ unheard = {} /\ left = {} /\ spoilt = {}

At(s, step) == req[s].at = step

(* The request ends with an error.  Its files stay where they are, and the *)
(* renames that have begun go on.                                          *)
End(s) ==
  /\ req' = [req EXCEPT ![s] = NoReq]
  /\ left' = left \cup req[s].files

-----------------------------------------------------------------------------
(* Storage.upload, the interceptor *)

Begin(s) ==
  /\ At(s, "idle")
  /\ req' = [req EXCEPT ![s].at = "receive"]
  /\ UNCHANGED <<where, move, images, history>>

(* Slip: any number of files. *)
ReceiveMore(s, f) ==
  /\ At(s, "receive")
  /\ where[f] = "none"
  /\ where' = [where EXCEPT ![f] = "temp"]
  /\ req' = [req EXCEPT ![s].files = @ \cup {f}]
  /\ UNCHANGED <<move, images, history>>

Receive(s, f) ==
  /\ At(s, "receive")
  /\ where[f] = "none"
  /\ Cardinality(req[s].files) < MaxFiles
  /\ where' = [where EXCEPT ![f] = "temp"]
  /\ req' = [req EXCEPT ![s].files = @ \cup {f}]
  /\ UNCHANGED <<move, images, history>>

(* One file too many: multer removes those it has stored. *)
TooMany(s) ==
  /\ At(s, "receive")
  /\ Cardinality(req[s].files) = MaxFiles
  /\ where' = [f \in Files |-> IF f \in req[s].files THEN "gone" ELSE where[f]]
  /\ req' = [req EXCEPT ![s] = NoReq]
  /\ UNCHANGED <<move, images, history>>

(* The validators of the id and the files come after the interceptor. *)
Invalid(s) ==
  /\ At(s, "receive")
  /\ End(s)
  /\ UNCHANGED <<where, move, images, listed, told, unheard, spoilt>>

Received(s) ==
  /\ At(s, "receive")
  /\ req[s].files # {}
  /\ req' = [req EXCEPT ![s].at = "find"]
  /\ UNCHANGED <<where, move, images, history>>

-----------------------------------------------------------------------------
(* PropertiesService.updatePropertyImages *)

(* Another property than this one is not found. *)
NotFound(s) ==
  /\ At(s, "find")
  /\ End(s)
  /\ UNCHANGED <<where, move, images, listed, told, unheard, spoilt>>

(* The moves of all the files start together. *)
Find(s) ==
  /\ At(s, "find")
  /\ req' = [req EXCEPT ![s].at = "move"]
  /\ move' = [f \in Files |-> IF f \in req[s].files THEN "pending" ELSE move[f]]
  /\ UNCHANGED <<where, images, history>>

(* Slip: the list is written while the files move. *)
WriteEarly(s) ==
  /\ At(s, "move")
  /\ images' = req[s].files
  /\ listed' = listed \cup req[s].files
  /\ req' = [req EXCEPT ![s].at = "answer", ![s].before = images]
  /\ UNCHANGED <<where, move, told, unheard, left, spoilt>>

(* Slip: one file is listed. *)
WriteOne(s) ==
  /\ At(s, "move")
  /\ \A f \in req[s].files : move[f] = "resolved"
  /\ images' = {CHOOSE f \in req[s].files : TRUE}
  /\ listed' = listed \cup images'
  /\ req' = [req EXCEPT ![s].at = "answer", ![s].before = images]
  /\ UNCHANGED <<where, move, told, unheard, left, spoilt>>

(* Slip: the update returns the document it has made. *)
WriteNew(s) ==
  /\ At(s, "move")
  /\ \A f \in req[s].files : move[f] = "resolved"
  /\ images' = req[s].files
  /\ listed' = listed \cup req[s].files
  /\ req' = [req EXCEPT ![s].at = "answer", ![s].before = images']
  /\ UNCHANGED <<where, move, told, unheard, left, spoilt>>

(* Promise.all resolves.  findOneAndUpdate stores the new list and returns *)
(* the one before.                                                         *)
Write(s) ==
  /\ At(s, "move")
  /\ \A f \in req[s].files : move[f] = "resolved"
  /\ images' = req[s].files
  /\ listed' = listed \cup req[s].files
  /\ req' = [req EXCEPT ![s].at = "answer", ![s].before = images]
  /\ UNCHANGED <<where, move, told, unheard, left, spoilt>>

(* The answer lists the images before and the new ones. *)
Answer(s) ==
  /\ At(s, "answer")
  /\ told' = told \cup req[s].before
  /\ req' = [req EXCEPT ![s] = NoReq]
  /\ UNCHANGED <<where, move, images, listed, unheard, left, spoilt>>

-----------------------------------------------------------------------------
(* Storage.move and Storage.cut *)

Rename(f) ==
  /\ move[f] = "pending"
  /\ where[f] = "temp"
  /\ where' = [where EXCEPT ![f] = "whole"]
  /\ move' = [move EXCEPT ![f] = "resolved"]
  /\ UNCHANGED <<images, req, history>>

(* ENOENT, the file or its new directory is missing: cut starts, and the   *)
(* promise is resolved without it (storage.ts:37).  A missing file leaves  *)
(* an empty one, which createWriteStream makes.                            *)
Cut(f) ==
  /\ move[f] = "pending"
  /\ where' = [where EXCEPT ![f] = IF @ = "temp" THEN "copying" ELSE "empty"]
  /\ move' = [move EXCEPT ![f] = "resolved"]
  /\ UNCHANGED <<images, req, history>>

(* Slip: another error is nobody's. *)
MoveFailsQuiet(f) ==
  /\ move[f] = "pending"
  /\ move' = [move EXCEPT ![f] = "rejected"]
  /\ UNCHANGED <<where, images, req, history>>

(* Any other error ends the request, if another move has not ended it. *)
MoveFails(f) ==
  /\ move[f] = "pending"
  /\ move' = [move EXCEPT ![f] = "rejected"]
  /\ \/ \E s \in Slots : f \in req[s].files /\ End(s)
     \/ /\ \A s \in Slots : f \notin req[s].files
        /\ UNCHANGED <<req, left>>
  /\ UNCHANGED <<where, images, listed, told, unheard, spoilt>>

Copied(f) ==
  /\ where[f] = "copying"
  /\ where' = [where EXCEPT ![f] = "whole"]
  /\ UNCHANGED <<move, images, req, history>>

(* A stream fails; the promise has been resolved long since. *)
CopyFails(f) ==
  /\ where[f] = "copying"
  /\ where' = [where EXCEPT ![f] = "part"]
  /\ spoilt' = spoilt \cup {f}
  /\ UNCHANGED <<move, images, req, listed, told, unheard, left>>

-----------------------------------------------------------------------------
(* Failures *)

(* The temp directory is cleaned. *)
Vanish(f) ==
  /\ where[f] = "temp"
  /\ where' = [where EXCEPT ![f] = "gone"]
  /\ spoilt' = spoilt \cup {f}
  /\ UNCHANGED <<move, images, req, listed, told, unheard, left>>

(* The database rejects. *)
Fail(s) ==
  /\ \/ At(s, "find")
     \/ At(s, "move") /\ \A f \in req[s].files : move[f] = "resolved"
  /\ End(s)
  /\ UNCHANGED <<where, move, images, listed, told, unheard, spoilt>>

(* The list is stored and the connection is lost before the database says  *)
(* so.                                                                     *)
FailWritten(s) ==
  /\ At(s, "move")
  /\ \A f \in req[s].files : move[f] = "resolved"
  /\ images' = req[s].files
  /\ listed' = listed \cup req[s].files
  /\ unheard' = unheard \cup images
  /\ req' = [req EXCEPT ![s] = NoReq]
  /\ UNCHANGED <<where, move, told, left, spoilt>>

Crash ==
  /\ req' = [s \in Slots |-> NoReq]
  /\ move' = [f \in Files |-> IF move[f] = "pending" THEN "rejected" ELSE move[f]]
  /\ where' = [f \in Files |-> IF where[f] = "copying" THEN "part" ELSE where[f]]
  /\ spoilt' = spoilt \cup {f \in Files : where[f] = "copying"}
  /\ left' = left \cup UNION {req[s].files : s \in {t \in Slots : ~At(t, "answer")}}
  /\ unheard' = unheard \cup UNION {req[s].before : s \in {t \in Slots : At(t, "answer")}}
  /\ UNCHANGED <<images, listed, told>>

-----------------------------------------------------------------------------
Handle(s) ==
  \/ NotFound(s) \/ Find(s) \/ Write(s) \/ Answer(s)
  \/ Fail(s) \/ FailWritten(s)

Move(f) == Rename(f) \/ Cut(f) \/ MoveFails(f)

Copy(f) == Copied(f) \/ CopyFails(f)

Next ==
  \/ \E s \in Slots :
       Begin(s) \/ TooMany(s) \/ Invalid(s) \/ Received(s) \/ Handle(s)
  \/ \E s \in Slots, f \in Files : Receive(s, f)
  \/ \E f \in Files : Move(f) \/ Copy(f) \/ Vanish(f)
  \/ Crash

(* The event loop runs what is ready, and the database and the file system *)
(* answer.  A client need not end what it sends.                           *)
Fairness ==
  /\ \A s \in Slots : WF_vars(Handle(s))
  /\ \A f \in Files : WF_vars(Move(f)) /\ WF_vars(Copy(f))

Spec == Init /\ [][Next]_vars /\ Fairness

-----------------------------------------------------------------------------
(* A file in the list is there, or its copy is being made; unless it had   *)
(* vanished or the copy broke after the list was written, which no one is  *)
(* told (storage.ts:27-38, properties.service.ts:112-119).                 *)
ListedIsThere ==
  \A f \in images : where[f] \in {"whole", "copying"} \/ f \in spoilt

(* An image that is listed no more was in the answer of the upload that    *)
(* replaced it, unless that request died unanswered: uploads that overlap  *)
(* do not lose each other's images without a word (the list the update     *)
(* returns and not the one found before, properties.service.ts:117-121).   *)
ReplacedIsTold ==
  \A f \in listed \ images :
    \/ f \in told \cup unheard
    \/ \E s \in Slots : At(s, "answer") /\ f \in req[s].before

(* Every file on the disk is listed, was listed, belongs to a request that *)
(* is handled, or was left by one that ended in an error: no successful    *)
(* upload leaves a file nobody knows of (storage.ts:116-129).              *)
FilesAccounted ==
  \A f \in Files :
    where[f] \notin {"none", "gone"} =>
      f \in listed \cup left \cup UNION {req[s].files : s \in Slots}

(* An upload that has been received is answered, whatever the renames and  *)
(* the fallback do (storage.ts:24-39).                                     *)
UploadEnds ==
  \A s \in Slots : req[s].at \in {"find", "move", "answer"} ~> At(s, "idle")
=============================================================================
