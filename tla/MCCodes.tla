------------------------------ MODULE MCCodes -------------------------------
(* Small instances of OneTimeCodes.                                        *)
EXTENDS OneTimeCodes, TLC
Symmetry == Permutations(Requests)
=============================================================================
