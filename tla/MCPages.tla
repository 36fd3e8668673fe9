------------------------------- MODULE MCPages -------------------------------
(* Three documents, pages of two, three times. *)
EXTENDS Pages

Symmetry == Permutations(Docs)
=============================================================================
