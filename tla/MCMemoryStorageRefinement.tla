--------------------- MODULE MCMemoryStorageRefinement ---------------------
(***************************************************************************)
(* MemoryStorageRefinement on two lists of one parent: delete_all() with   *)
(* no resource name deletes from both in one call.                         *)
(***************************************************************************)
EXTENDS MemoryStorageRefinement

CONSTANTS a, star

MCPatterns == {star}
MCMatch == [p \in MCPatterns |-> Parents]
=============================================================================
