---------------------------- MODULE MCLibusbRead ----------------------------
(***************************************************************************)
(* Small instances of LibusbRead for TLC.  Readers are interchangeable in  *)
(* the specification and in its safety properties; the run that checks     *)
(* liveness has one reader and no symmetry.                                *)
(***************************************************************************)
EXTENDS LibusbRead, TLC

ReaderSymmetry == Permutations(Readers)
=============================================================================
