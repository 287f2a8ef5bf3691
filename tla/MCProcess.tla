----------------------------- MODULE MCProcess -----------------------------
(* Small instances of Process for TLC: rule lists, batches and mute requests *)
(* its configurations choose from.                                           *)
EXTENDS Process

Label(v) == [team |-> v]
NoLabels == <<>>

Firing(labels)     == [labels |-> labels, startsAt |-> 1, endsAt |-> 0]
Ending(labels, t)  == [labels |-> labels, startsAt |-> 1, endsAt |-> t]

MCLabelNames  == {"team"}
OneValue      == {"infra"}

Mirrored(name, conditions, receiver) ==
    [name |-> name, match |-> conditions, receiver |-> receiver, continue |-> TRUE]
Final(name, conditions, receiver) ==
    [name |-> name, match |-> conditions, receiver |-> receiver, continue |-> FALSE]

\* One team's alerts go to two receivers, all others to the second one alone.
FanOutRules ==
    << Mirrored("mirror", Label("infra"), "pager"),
       Final("default", NoLabels, "chat") >>

\* The last rule applies to one team only: other alerts are dropped.
PartialRules ==
    << Mirrored("mirror", NoLabels, "pager"),
       Final("team", Label("infra"), "chat") >>

TeamRule == << Final("team", Label("infra"), "chat") >>

\* Two alerts in one push: the second waits behind the first.
FanOutBatches ==
    {<<Ending(Label("infra"), 2), Firing(NoLabels)>>}

RaceBatches == {<<Ending(Label("infra"), 2)>>}

MuteBatches == {<<Firing(Label("infra"))>>}

EndlessBatches == {<<Firing(Label("infra")), Firing(NoLabels)>>}

MuteFor(conditions, from, to) ==
    [matchers |-> conditions, startsAt |-> from, endsAt |-> to,
     comment |-> "why", createdBy |-> "who"]

NoRequests == {}

\* The last one is rejected: it would mute everything.
TeamMutes ==
    {MuteFor(Label("infra"), 1, 2), MuteFor(Label("infra"), 2, 3),
     MuteFor(NoLabels, 1, 3)}
=============================================================================
