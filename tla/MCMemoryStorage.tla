-------------------------- MODULE MCMemoryStorage --------------------------
(***************************************************************************)
(* MemoryStorage on the buckets "/buckets/a" and "/buckets/ab": the name   *)
(* of the first is a prefix of the other's, which tells the two ways of    *)
(* matching parents apart.                                                 *)
(***************************************************************************)
EXTENDS MemoryStorage, TLC

CONSTANTS a, ab, star

MCPatterns == {star} \cup Parents
MCFullMatch == [p \in MCPatterns |-> IF p = star THEN Parents ELSE {p}]
MCPrefixMatch == [p \in MCPatterns |-> IF p = ab THEN {ab} ELSE Parents]

IdSymmetry == Permutations(Ids)
=============================================================================
