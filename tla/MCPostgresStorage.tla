------------------------- MODULE MCPostgresStorage -------------------------
EXTENDS PostgresStorage, TLC
CONSTANTS a, record, any, w1, w2

MCLike == (any :> Parents)
\* w1's transaction may be a batch.
MCMaxCalls == [w \in Workers |-> IF w = w1 THEN 2 ELSE 1]

IdSymmetry == Permutations(Ids)
=============================================================================
