----------------------------- MODULE MCSessions -----------------------------
(* Small instances of UserSessions.                                        *)
EXTENDS UserSessions, TLC
Symmetry == Permutations(Sessions) \cup Permutations(Requests) \cup Permutations(Users)
=============================================================================
