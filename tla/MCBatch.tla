------------------------------ MODULE MCBatch ------------------------------
(***************************************************************************)
(* Batch on batches of a few subrequests.                                  *)
(***************************************************************************)
EXTENDS Batch, TLC

CollectionSymmetry == Permutations(Collections)
=============================================================================
