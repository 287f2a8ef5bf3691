-------------------------------- MODULE MCUI --------------------------------
(* Small instances of UI for TLC.                                            *)
EXTENDS UI, MCViews

TwoWords == "two words"          \* the second word is no token
KeyInside == "yes team=no"       \* the second word is one
MCSpaced == {TwoWords, KeyInside}
MCUIValues == {"yes", "no"} \cup MCSpaced

Token(name, value) == [name |-> name, value |-> value]

MCFields ==
    [v \in MCSpaced |->
        IF v = TwoWords THEN [first |-> "no", rest |-> <<Token("", "")>>]
        ELSE [first |-> "yes", rest |-> <<Token("team", "no")>>]]

\* A link about an alert of the team that has no page label, and two about
\* alerts whose page label has a space in it.
MCLinks == {[team |-> "yes", page |-> v] : v \in {""} \cup MCSpaced}

\* A key without a value, and a key given twice.
MCTexts == {<<Token("page", "")>>, <<Token("team", "no"), Token("team", "yes")>>}

PendingMute == {MuteFor(Team("yes"), 2, 3)}

MCUsers == {"who"}
=============================================================================
