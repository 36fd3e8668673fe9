-------------------------- MODULE MCPropertyImages --------------------------
(* Two uploads at a time, of two files at most, three names. *)
EXTENDS PropertyImages
=============================================================================
