------------------------------ MODULE CodeLife ------------------------------
(***************************************************************************)
(* What sign-in with e-mailed codes promises for one address: a code signs *)
(* in once, only while it is the newest one, and is over when the next one *)
(* is issued, when it has had MaxAttempts wrong tries, or when it lapses - *)
(* but for a verification that found it in time and is still at work.      *)
(* Nothing is promised any more about a code in dispute: one that two      *)
(* verifications, or a verification and a new code, were at together.      *)
(*                                                                         *)
(* OneTimeCodes implements this specification: nothing here tells of the   *)
(* item a code is kept in, nor of the calls a verification consists of.    *)
(***************************************************************************)
EXTENDS Naturals

CONSTANTS MaxCodes, MaxAttempts

VARIABLES newest,  \* the newest code; code n is the n-th to be issued
          lapsed,  \* codes up to this one have lapsed
          tries,   \* wrong tries the newest code has had, 0 if it is in dispute
          fate     \* what became of each code

vars == <<newest, lapsed, tries, fate>>

Codes == 1..MaxCodes

TypeOK == /\ newest \in 0..MaxCodes /\ lapsed \in 0..newest
          /\ tries \in 0..MaxAttempts
          /\ fate \in [Codes -> {"none", "live", "used", "over", "disputed"}]

Init == /\ newest = 0 /\ lapsed = 0 /\ tries = 0
        /\ fate = [c \in Codes |-> "none"]

Becomes(f) == fate' = [fate EXCEPT ![newest] = f]

(* A code is issued, and those before it are over; where it comes in       *)
(* between a verification's calls, S is in dispute.                        *)
Issue(S) == /\ newest < MaxCodes /\ newest' = newest + 1
            /\ tries' = 0
            /\ fate' = [c \in Codes |-> IF c \in S THEN "disputed"
                                        ELSE IF c = newest' THEN "live"
                                        ELSE IF fate[c] = "live" THEN "over" ELSE fate[c]]
            /\ UNCHANGED lapsed

Accept == /\ newest > 0 /\ fate[newest] = "live"
          /\ Becomes("used")
          /\ UNCHANGED <<newest, lapsed, tries>>

(* A wrong try: the last one allowed ends the code, and so may any once it *)
(* has lapsed.                                                             *)
Miss == /\ newest > 0 /\ fate[newest] = "live"
        /\ tries < MaxAttempts /\ tries' = tries + 1
        /\ \/ tries' < MaxAttempts /\ UNCHANGED fate
           \/ (tries' = MaxAttempts \/ newest <= lapsed) /\ Becomes("over")
        /\ UNCHANGED <<newest, lapsed>>

(* Time is over for the oldest code that has not lapsed.                   *)
Lapse == /\ lapsed < newest /\ lapsed' = lapsed + 1
         /\ \/ UNCHANGED fate
            \/ lapsed' = newest /\ fate[newest] = "live" /\ Becomes("over")
         /\ UNCHANGED <<newest, tries>>

(* The verification that was still at work on a lapsed code fails.         *)
GiveUp == /\ newest > 0 /\ fate[newest] = "live" /\ newest <= lapsed
          /\ Becomes("over")
          /\ UNCHANGED <<newest, lapsed, tries>>

Dispute(S) == /\ fate' = [c \in Codes |-> IF c \in S THEN "disputed" ELSE fate[c]]
              /\ tries' = IF newest \in S THEN 0 ELSE tries
              /\ UNCHANGED <<newest, lapsed>>

Next == \/ \E S \in SUBSET (1..newest) : Dispute(S)
        \/ \E S \in SUBSET (1..(newest + 1)) : Issue(S)
        \/ Accept \/ Miss \/ Lapse \/ GiveUp

Spec == Init /\ [][Next]_vars
=============================================================================
