---------------------------- MODULE RequestLimit ----------------------------
(***************************************************************************)
(* LimitRequestsGuard (limit-requests.guard.ts): a number per url in       *)
(* Redis, read by one call and stored by another, with a lifetime that     *)
(* starts anew whenever it is stored.  Nest runs it before the handler.    *)
(***************************************************************************)
EXTENDS Integers, FiniteSets

CONSTANTS
  Urls,        \* request.url: the path as it was written, with the query
  Limit,       \* REQUEST_LIMIT
  FiveMinutes  \* the ticks of a lifetime

ASSUME LimitAssumption ==
  /\ Limit \in Nat \ {0}
  /\ FiveMinutes \in Nat \ {0}

VARIABLES
  count,    \* the number stored for a url, 0 when there is none
  window,   \* the ticks it has left
  accepted  \* history: requests let through since the number was last absent

limitVars == <<count, window, accepted>>

LimitTypeOK ==
  /\ count \in [Urls -> 0..Limit]
  /\ window \in [Urls -> 0..FiveMinutes]
  /\ accepted \in [Urls -> Nat]

LimitInit ==
  /\ count = [u \in Urls |-> 0]
  /\ window = [u \in Urls |-> 0]
  /\ accepted = [u \in Urls |-> 0]

(* Slip: one more than the limit is let through. *)
TooManyLate(n) == n > Limit

TooMany(n) == n >= Limit

(* The guard lets a request through that has read n. *)
Count(u, n) ==
  /\ count' = [count EXCEPT ![u] = n + 1]
  /\ window' = [window EXCEPT ![u] = FiveMinutes]
  /\ accepted' = [accepted EXCEPT ![u] = @ + 1]

(* A tick: Redis forgets the numbers whose lifetime is over. *)
LimitTick ==
  /\ window' = [u \in Urls |-> IF window[u] > 0 THEN window[u] - 1 ELSE 0]
  /\ count' = [u \in Urls |-> IF window'[u] > 0 THEN count[u] ELSE 0]
  /\ accepted' = [u \in Urls |-> IF window'[u] > 0 THEN accepted[u] ELSE 0]

(* The most that n requests handled at one time can get out of a number    *)
(* that starts with room for k: a slow one puts the number back to what it *)
(* has read plus one, after the others have used it up.  A profile says of *)
(* each number below k how many requests hold it or less, or could still   *)
(* read it; whatever is let through brings a later profile, and there are  *)
(* as many as ways to choose k out of n + k.                               *)
Profiles(n, k) ==
  {h \in [0 .. k - 1 -> 0 .. n] :
     \A x, y \in 0 .. k - 1 : x <= y => h[x] <= h[y]}

Burst(n, k) == Cardinality(Profiles(n, k)) - 1
=============================================================================
