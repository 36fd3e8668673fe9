-------------------------- MODULE MCResponseCache --------------------------
(* One run has two users, another two properties: the two kinds share      *)
(* nothing but the code of the interceptors.  Nobody lists what there is   *)
(* none of.  A property is asked for under two urls.                       *)
EXTENDS ResponseCache, TLC

CONSTANTS a, b

MCDocs == {a, b}

MCAsked == UNION {Over(d) : d \in Docs}

(* Neither slots nor documents of one kind differ in anything. *)
Symmetry ==
  Permutations(MCDocs) \cup Permutations(Gets) \cup Permutations(Puts)
=============================================================================
