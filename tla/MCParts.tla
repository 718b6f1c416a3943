------------------------------ MODULE MCParts -------------------------------
(***************************************************************************)
(* Five parts of the system that share no state, side by side: in a        *)
(* behaviour one of them runs and the others rest.  PoliteFetch has its    *)
(* own variables, the other four take slots s1 .. s6 in turn.              *)
(***************************************************************************)
EXTENDS PoliteFetch, MCScreening

CONSTANTS Resting, Unset, NoRow, NoDocument, Nothing, Employer, BoardPage, Unavailable

VARIABLES part, s1, s2, s3, s4, s5, s6
slots == <<s1, s2, s3, s4, s5, s6>>

Limiter == INSTANCE HourlyLimit WITH
    clock <- s1, count <- s2, hit <- s3, passed <- s4,
    Keys <- {"ip"}, Limit <- 2, Window <- 2, Patience <- 2, MaxTime <- 5
Prefs == INSTANCE Preferences WITH
    row <- s1, pc <- s2, body <- s3, read <- s4, raced <- s5,
    Requests <- Callers, Salaries <- {1, 2}
Data == INSTANCE DataModel WITH
    rev <- s1, tables <- s2, columns <- s3, rows <- s4, links <- s5, broken <- s6
Screening == INSTANCE JobScreening WITH
    source <- s1, site <- s2, prefs <- s3, rows <- s4, run <- s5,
    Generic <- {"senior"}, OffFamily <- {"sales"}, Short <- {}, Stem <- MCStem,
    TitleMode <- "loose", Sources <- MCSources, Sites <- MCSites, Meaning <- MCMeaning,
    Preferences <- {Nothing, [types |-> {FullTime}, roles |-> {{"backend", "engineer"}},
                              places |-> {}, remote |-> TRUE]},
    Scores <- {<<8, 5>>, <<2, 0>>, <<8, 5, 1, 0, 0>>}, Threshold <- 30

ASSUME PartsAssumption ==
    /\ Limiter!LimitAssumption /\ Prefs!PreferencesAssumption
    /\ Screening!JobBoardsAssumption /\ Screening!ScreeningAssumption
    /\ Screening!PagesTellApart /\ Screening!FormsMeanAlike

PoliteRests == Init /\ site = [h \in Hosts |-> "allow"]
PartsInit ==
    \/ part = "polite" /\ Init /\ s1 = Resting /\ s2 = Resting /\ s3 = Resting /\ s4 = Resting
                       /\ s5 = Resting /\ s6 = Resting
    \/ part = "limiter" /\ Limiter!Init /\ s5 = Resting /\ s6 = Resting /\ PoliteRests
    \/ part = "preferences" /\ Prefs!Init /\ s6 = Resting /\ PoliteRests
    \/ part = "data" /\ Data!Init /\ PoliteRests
    \/ part = "screening" /\ Screening!Init /\ s6 = Resting /\ PoliteRests

PartsNext ==
    /\ \/ part = "polite" /\ Next /\ UNCHANGED slots
       \/ part = "limiter" /\ Limiter!Next /\ UNCHANGED <<vars, s5, s6>>
       \/ part = "preferences" /\ Prefs!Next /\ UNCHANGED <<vars, s6>>
       \/ part = "data" /\ Data!Next /\ UNCHANGED vars
       \/ part = "screening" /\ Screening!Next /\ UNCHANGED <<vars, s6>>
    /\ UNCHANGED part

PartsFairness ==
    /\ WF_vars(part = "polite" /\ Tick)
    /\ \A c \in Callers : WF_vars(part = "polite" /\ CallStep(c))

PartsSpec == PartsInit /\ [][PartsNext]_<<vars, part, slots>> /\ PartsFairness

-----------------------------------------------------------------------------
(* Every part's variables have their types, and what its type invariant    *)
(* ties together stays so.  DataModel's stands in MigrationsRun.           *)
TypesOK ==
    /\ TypeOK
    /\ part = "limiter" => Limiter!TypeOK
    /\ part = "preferences" => Prefs!TypeOK
    /\ part = "screening" => Screening!TypeOK

(* HourlyLimit: no window lets more than the limit through.                *)
LimitHolds == part = "limiter" => Limiter!LimitHolds

(* Preferences: a save that did not race leaves exactly its document.      *)
SavesAreWhole == [][part = "preferences" => Prefs!SaveIsWhole]_slots

(* DataModel: migrations work on any rows and lead to the models' schema;  *)
(* no foreign key is broken on the way.                                    *)
MigrationsRun == part = "data" => Data!TypeOK /\ Data!MigrationsRun

(* DataModel: a deletion takes what is the deleted thing's, and no more.   *)
DeletesStayInBounds == [][part = "data" => Data!DeleteStaysInBounds]_slots

(* JobScreening: a job that its board lists is pruned for a reason.        *)
PruningIsGrounded == [][part = "screening" => Screening!PruningIsGrounded]_slots

(* JobScreening: no job of a kind the user did not ask for is held.        *)
KeptSuits == part = "screening" => Screening!KeptSuits

(* JobScreening: no job on site is held when remote work is required and   *)
(* no place is.  The code does not keep this.                              *)
OnSiteIsDropped == part = "screening" => Screening!OnSiteIsDropped
=============================================================================
