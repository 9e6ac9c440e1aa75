------------------------------ MODULE MCMacRead ------------------------------
(***************************************************************************)
(* Small instances of MacRead for TLC.  Readers are interchangeable in the *)
(* specification and in its safety properties; the run that checks         *)
(* liveness has one reader and no symmetry.                                *)
(***************************************************************************)
EXTENDS MacRead, TLC

ReaderSymmetry == Permutations(Readers)
=============================================================================
