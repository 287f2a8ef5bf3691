------------------------------ MODULE MCTools ------------------------------
(* Config files and verify cases for TLC: every list of up to three rules,   *)
(* with and without the receivers they name.                                 *)
EXTENDS Tools

MCLabelNames  == {"team"}
MCLabelValues == {"infra"}
NoRules       == <<>>

Team == [team |-> "infra"]

RuleChoices(name) ==
    [name : {name}, match : {Team, <<>>}, receiver : {"chat", "pager"},
     continue : BOOLEAN]

RuleLists ==
    {<<>>} \cup {<<r>> : r \in RuleChoices("first")}
        \cup (RuleChoices("first") \X RuleChoices("second"))
        \cup (RuleChoices("first") \X RuleChoices("second")
                \X {[name |-> "last", match |-> <<>>, receiver |-> "chat",
                     continue |-> FALSE]})

Entry(name, type, url, fileText) ==
    [name |-> name, type |-> type, url |-> url, fileText |-> fileText]

Chat  == Entry("chat", "webhook", "http", NoFile)
Pager == Entry("pager", "webhook", "", "secret")

ReceiverLists ==
    {<<Chat, Pager>>, <<Chat>>, <<Chat, Chat>>,
     <<Chat, Entry("pager", "webhook", "", Unreadable)>>,
     <<Chat, Entry("pager", "webhook", "", "")>>,
     <<Chat, Entry("pager", "email", "http", NoFile)>>,
     <<Chat, Entry("pager", "webhook", "http", Unreadable)>>}

\* Two rules of one name.
Twice ==
    <<[name |-> "twice", match |-> Team, receiver |-> "chat", continue |-> TRUE],
      [name |-> "twice", match |-> <<>>, receiver |-> "chat", continue |-> FALSE]>>

\* No ui section, an empty one, and one that turns everything off.
NoUI  == {}
Bare  == {[enabled |-> {}, userHeader |-> {}]}
UIOff == {[enabled |-> {FALSE}, userHeader |-> {""}]}

MCFiles ==
    [receivers : ReceiverLists, rules : RuleLists, ui : {NoUI}]
      \cup [receivers : {<<Chat>>}, rules : {Twice}, ui : {NoUI}]
      \cup [receivers : {<<Chat>>}, rules : {<<>>}, ui : {Bare, UIOff}]

Case(conditions, names, receiverNames) ==
    [labels |-> conditions, rules |-> names, receivers |-> receiverNames]

MCCases ==
    {Case(Team, <<"second", "first">>, <<"chat", "chat">>),
     Case(Team, <<"first", "second">>, <<"chat", "pager">>),
     Case(Team, <<"first", "second", "last">>, <<"chat", "chat", "pager">>),
     Case(<<>>, <<"last">>, <<"chat">>)}
=============================================================================
