------------------------------ MODULE MCSender ------------------------------
(* Small instances of Sender for TLC: an alert of a team and, in the same    *)
(* pushes, one without labels that fires on.                                 *)
EXTENDS Sender

MCLabelNames == {"team"}
OneValue     == {"infra"}
Label(v)     == [team |-> v]
NoLabels     == <<>>

MCWatched    == Label("infra")
MCCompanions == << [labels |-> NoLabels, startsAt |-> 1, endsAt |-> 0] >>
Alone        == <<>>
EmptyBatches == {<<>>}
NoBatches    == {}

\* One team's alerts go to two receivers; the unlabelled one to the first only.
PartialRules ==
    << [name |-> "mirror", match |-> NoLabels, receiver |-> "pager", continue |-> TRUE],
       [name |-> "team", match |-> Label("infra"), receiver |-> "chat", continue |-> FALSE] >>

TeamRule ==
    << [name |-> "team", match |-> Label("infra"), receiver |-> "chat", continue |-> FALSE] >>

NoRequests == {}

ShortMute ==
    {[matchers |-> Label("infra"), startsAt |-> 2, endsAt |-> 3,
      comment |-> "why", createdBy |-> "who"]}
=============================================================================
