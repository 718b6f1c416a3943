----------------------------- MODULE MCScreening ----------------------------
(* Postings, sites and sources for JobScreening.                           *)
EXTENDS TLC, Sequences

FullTime == <<<<"full", "time">>>>           \* Full-time, full_time, FullTime
Intern   == <<<<"internship">>>>
MCStem   == [engineer |-> "engi", engineering |-> "engi", backend |-> "back",
             senior |-> "seni", sales |-> "sale"]
MCMeaning == (FullTime :> {"full_time"}) @@ (Intern :> {"internship"})

Posting(id, title, type, workplace, text) ==
    [id |-> id, page |-> id, identifier |-> [form |-> "value"], title |-> title,
     type |-> type, workplace |-> workplace, place |-> <<>>, text |-> text]
Engineer   == Posting("1", {"senior", "engineering"}, FullTime, "remote", 1)
Reworded   == [Engineer EXCEPT !.text = 2]
Trainee    == Posting("2", {"backend", "sales"}, Intern, "remote", 1)
OnSite     == Posting("3", {"engineering"}, FullTime, "on_site", 1)
Salesman   == Posting("4", {"senior", "sales"}, FullTime, "remote", 1)

Link(pattern, slug) == [pattern |-> pattern, slug |-> slug]
\* a board of its own, and pages with a board and with a reserved name before it
MCSources ==
    {[url |-> <<Link("lever", "acme")>>, links |-> <<>>],
     [url |-> <<>>, links |-> <<Link("lever", "shared"), Link("greenhouse_for", "acme")>>],
     [url |-> <<>>, links |-> <<Link("greenhouse", "embed"), Link("greenhouse", "acme")>>]}
MCSites ==
    {[board |-> <<Engineer, Trainee>>, page |-> <<Engineer>>],
     [board |-> <<Reworded, OnSite>>, page |-> <<Reworded, OnSite>>],
     [board |-> <<Trainee, Salesman>>, page |-> <<>>]}
=============================================================================
