------------------------------ MODULE MCFetch -------------------------------
(* An instance of JobSourceFetch: sources share no state, so one source is  *)
(* enough; two workers meet every overlap of two fetches.                   *)
EXTENDS JobSourceFetch
=============================================================================
