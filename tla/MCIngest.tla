------------------------------ MODULE MCIngest ------------------------------
(* Instances of JobIngest: listings a1, a2 of source A and b1 of source B.  *)
(* All are one logical job, the hardest case for the clustering.            *)
EXTENDS JobIngest, TLC

CONSTANTS A, B, a1, a2, b1, k1

AcrossSources == {a1, b1}
WithinSource  == {a1, a2}
MCSourceOf    == [l \in Listings |-> IF l = b1 THEN B ELSE A]
MCKeyOf       == [l \in Listings |-> k1]

Interchangeable == Permutations(Workers)
=============================================================================
