------------------------ MODULE MCResourceRequests ------------------------
(***************************************************************************)
(* ResourceRequests for a few requests on one or two objects.              *)
(***************************************************************************)
EXTENDS ResourceRequests, TLC

RequestSymmetry == Permutations(Requests)
=============================================================================
