---------------------------- MODULE MCLibusbOpen ----------------------------
(***************************************************************************)
(* Small instances of LibusbOpen for TLC.  Openers are interchangeable:    *)
(* the specification and the properties treat them alike, and none of the  *)
(* properties checked with this symmetry is a liveness property.           *)
(***************************************************************************)
EXTENDS LibusbOpen, TLC

OpenerSymmetry == Permutations(Openers)
=============================================================================
