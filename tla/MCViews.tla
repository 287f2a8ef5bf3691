------------------------------ MODULE MCViews ------------------------------
(* Small instances of Views for TLC.                                         *)
EXTENDS Views

MCLabelNames == {"team", "page"}
NoRules      == <<>>
Team(v)      == [team |-> v]

\* Two alerts of the team, one of which ends.
MCPushes ==
    {[labels |-> Team("yes"), startsAt |-> 1, endsAt |-> 0],
     [labels |-> [team |-> "yes", page |-> "yes"], startsAt |-> 1, endsAt |-> 2]}

Unlabelled == {[labels |-> <<>>, startsAt |-> 1, endsAt |-> 0]}

MuteFor(conditions, from, to) ==
    [matchers |-> conditions, startsAt |-> from, endsAt |-> to,
     comment |-> "why", createdBy |-> "who"]

\* The API takes a matcher whose value is empty.
ValuesAndNone == {"yes", ""}
EmptyMutes == {MuteFor(Team(""), 1, 2)}
=============================================================================
