------------------------------ MODULE MCResume ------------------------------
(* An instance of ResumeProcessing: versions do not share rows, so one      *)
(* version and two workers meet every race between them.                    *)
EXTENDS ResumeProcessing
=============================================================================
