------------------------------- MODULE Tools -------------------------------
(* The offline side of the program: how a config file becomes a chain        *)
(* (LoadConfig), what `check` warns of, and the two loops over the rules     *)
(* besides the daemon's own: `verify`, which calls Evaluate for each case,   *)
(* and `trace`, which has a loop of its own.  One run of the program loads   *)
(* one file; the model lets it verify and trace as long as it likes.         *)
EXTENDS Routing, FiniteSets

CONSTANTS
    Files,               \* config files, parsed from YAML
    Cases                \* verify cases

NoFile == "no file"
Unreadable == "unreadable"

\* fileText: what url_file names holds, trimmed.
ReceiverEntries ==
    [name : STRING, type : STRING, url : STRING \ {Unreadable}, fileText : STRING]

\* A pointer: the set of what it points to, empty when the key is absent.
Pointers(values) == {set \in SUBSET values : \A v, w \in set : v = w}

\* The header the UI reads the user from: the default, another one, or none.
Headers == {"X-Auth-User", "X-Remote-User", ""}

UISections == [enabled : Pointers(BOOLEAN), userHeader : Pointers(Headers)]

ASSUME FilesAssumption ==
    Files \subseteq [receivers : Seq(ReceiverEntries), rules : Seq(RuleRows),
                    ui : Pointers(UISections)]

ASSUME CasesAssumption ==
    Cases \subseteq [labels : LabelSets, rules : Seq(STRING), receivers : Seq(STRING)]

VARIABLES
    file,                \* the file being loaded
    place,
    at,                  \* the loop's index into the receivers or the rules
    receivers,           \* name |-> entry, the receivers map built so far
    ui,                  \* the UI configuration resolved
    case,                \* the verify case in hand
    labels,              \* the alert in hand
    got,                 \* the rules the loop has appended, by index
    passed, failed       \* the cases verified

vars == <<file, place, at, receivers, ui, case, labels, got, passed, failed>>

rules == file.rules
DefaultUI == [enabled |-> TRUE, userHeader |-> "X-Auth-User"]
NoCase == [labels |-> <<>>, rules |-> <<>>, receivers |-> <<>>]

ToolsTypeOK ==
    /\ file \in Files
    /\ place \in {"receivers", "rules", "ready", "rejected",
                  "evaluate", "compare", "trace", "traced"}
    /\ at \in Nat
    /\ receivers \in [DOMAIN receivers -> ReceiverEntries]
    /\ ui \in [enabled : BOOLEAN, userHeader : Headers]
    /\ case \in Cases \cup {NoCase}
    /\ labels \in LabelSets
    /\ got \in Seq(DOMAIN rules)
    /\ passed \subseteq Cases /\ failed \subseteq Cases

Init ==
    /\ file \in Files
    /\ place = "receivers" /\ at = 1
    /\ receivers = <<>>
    /\ ui = DefaultUI
    /\ case = NoCase /\ labels = <<>>
    /\ got = <<>>
    /\ passed = {} /\ failed = {}
-----------------------------------------------------------------------------
(* LoadConfig.                                                               *)

\* resolveFileFields: url wins over url_file.
Resolved(entry) ==
    IF entry.fileText # NoFile /\ entry.url = ""
    THEN [entry EXCEPT !.url = entry.fileText] ELSE entry

ReceiverAccepted(entry) ==
    /\ entry.name # "" /\ entry.name \notin DOMAIN receivers
    /\ ~(entry.fileText = Unreadable /\ entry.url = "")
    /\ Resolved(entry).type = "webhook"
    /\ Resolved(entry).url # ""

LoadReceiver ==
    /\ place = "receivers" /\ at <= Len(file.receivers)
    /\ LET entry == file.receivers[at] IN
       \/ /\ ReceiverAccepted(entry)
          /\ receivers' = [n \in DOMAIN receivers \cup {entry.name} |->
                             IF n = entry.name THEN Resolved(entry) ELSE receivers[n]]
          /\ at' = at + 1
          /\ UNCHANGED place
       \/ /\ ~ReceiverAccepted(entry)
          /\ place' = "rejected"
          /\ UNCHANGED <<receivers, at>>
    /\ UNCHANGED <<file, ui, case, labels, got, passed, failed>>

\* What a key of the section says, or the default without the key or section.
Setting(key) ==
    LET given == UNION {section[key] : section \in file.ui} IN
    IF given = {} THEN DefaultUI[key] ELSE CHOOSE v \in given : TRUE

ResolvedUI == [enabled |-> Setting("enabled"), userHeader |-> Setting("userHeader")]

LoadRules ==
    /\ place = "receivers" /\ at > Len(file.receivers)
    /\ \/ /\ Validate(rules, DOMAIN receivers)
          /\ place' = "ready" /\ ui' = ResolvedUI
       \/ /\ ~Validate(rules, DOMAIN receivers)
          /\ place' = "rejected" /\ UNCHANGED ui
    /\ at' = 1
    /\ UNCHANGED <<file, receivers, case, labels, got, passed, failed>>
-----------------------------------------------------------------------------
(* check: the advisory warnings.                                             *)

CatchAll(rule) == rule.match = <<>>

\* "no rules defined", or "last rule is not a catch-all".
WarnsOfDrops == rules = <<>> \/ ~CatchAll(rules[Len(rules)])

\* A slip: a catch-all that continues warned of as well.
EndsWalkAlways(rule) == CatchAll(rule)

\* The rules warned of as a catch-all that later rules never get past.
EndsWalk(rule) == CatchAll(rule) /\ ~rule.continue
WarnedOf == {i \in 1..(Len(rules) - 1) : EndsWalk(rules[i])}
-----------------------------------------------------------------------------
(* The two loops.                                                            *)

Done == at > Len(rules)

\* A slip: a rule counted from zero.
EvaluateTurnFromZero ==
    LET rule == rules[at] IN
    IF ~MatchAll(rule.match, labels)
    THEN at' = at + 1 /\ UNCHANGED got
    ELSE /\ got' = Append(got, at - 1)
         /\ at' = IF rule.continue THEN at + 1 ELSE Len(rules) + 1

\* Evaluate: one turn.
EvaluateTurn ==
    LET rule == rules[at] IN
    IF ~MatchAll(rule.match, labels)
    THEN at' = at + 1 /\ UNCHANGED got
    ELSE /\ got' = Append(got, at)
         /\ at' = IF rule.continue THEN at + 1 ELSE Len(rules) + 1

\* A slip: trace lists the rules behind a final one too.
TraceTurnOn ==
    LET rule == rules[at] IN
    /\ got' = IF MatchAll(rule.match, labels) THEN Append(got, at) ELSE got
    /\ at' = at + 1

\* Trace: one turn of its own loop.
TraceTurn ==
    LET rule == rules[at] IN
    IF ~MatchAll(rule.match, labels)
    THEN at' = at + 1 /\ UNCHANGED got
    ELSE /\ got' = Append(got, at)
         /\ at' = IF rule.continue THEN at + 1 ELSE Len(rules) + 1

StartCase(c) ==
    /\ place = "ready" /\ c \notin passed \cup failed
    /\ place' = "evaluate" /\ at' = 1 /\ got' = <<>>
    /\ case' = c /\ labels' = c.labels
    /\ UNCHANGED <<file, receivers, ui, passed, failed>>

Evaluate ==
    /\ place = "evaluate"
    /\ IF Done THEN place' = "compare" /\ UNCHANGED <<at, got>>
               ELSE EvaluateTurn /\ UNCHANGED place
    /\ UNCHANGED <<file, receivers, ui, case, labels, passed, failed>>

\* A slip: duplicates not counted.
sameSetOnce(a, b) == Range(a) = Range(b)

\* The same strings once both are sorted: one is the other, rearranged.
sameSet(a, b) ==
    /\ Len(a) = Len(b)
    /\ \E order \in Bijection(DOMAIN a, DOMAIN b) : \A i \in DOMAIN a : a[i] = b[order[i]]

gotRules     == [i \in DOMAIN got |-> rules[got[i]].name]
gotReceivers == [i \in DOMAIN got |-> rules[got[i]].receiver]

compareExpectations ==
    sameSet(case.rules, gotRules) /\ sameSet(case.receivers, gotReceivers)

Compare ==
    /\ place = "compare"
    /\ IF compareExpectations
       THEN passed' = passed \cup {case} /\ UNCHANGED failed
       ELSE failed' = failed \cup {case} /\ UNCHANGED passed
    /\ place' = "ready" /\ case' = NoCase /\ labels' = <<>> /\ got' = <<>> /\ at' = 1
    /\ UNCHANGED <<file, receivers, ui>>

\* cmdTrace gives no mute store: the mute check is skipped.
StartTrace ==
    /\ place = "ready"
    /\ place' = "trace" /\ at' = 1 /\ got' = <<>>
    /\ labels' \in LabelSets
    /\ UNCHANGED <<file, receivers, ui, case, passed, failed>>

Trace ==
    /\ place = "trace"
    /\ IF Done THEN place' = "traced" /\ UNCHANGED <<at, got>>
               ELSE TraceTurn /\ UNCHANGED place
    /\ UNCHANGED <<file, receivers, ui, case, labels, passed, failed>>

EndTrace ==
    /\ place = "traced"
    /\ place' = "ready" /\ labels' = <<>> /\ got' = <<>> /\ at' = 1
    /\ UNCHANGED <<file, receivers, ui, case, passed, failed>>

Next ==
    \/ LoadReceiver \/ LoadRules
    \/ \E c \in Cases : StartCase(c)
    \/ Evaluate \/ Compare
    \/ StartTrace \/ Trace \/ EndTrace

Spec == Init /\ [][Next]_vars
-----------------------------------------------------------------------------
Loaded == place \notin {"receivers", "rejected"}

\* Whatever the file says, once it is loaded every rule leads to a receiver of a
\* type Notify knows, under its own name, with somewhere to POST to: the branches
\* of Process and Notify for an unknown receiver are never taken by the daemon.
RulesLeadSomewhere ==
    Loaded => \A i \in DOMAIN rules :
        /\ rules[i].receiver \in DOMAIN receivers
        /\ receivers[rules[i].receiver].name = rules[i].receiver
        /\ receivers[rules[i].receiver].type = "webhook"
        /\ receivers[rules[i].receiver].url \notin {"", Unreadable}

\* Both loops end with the decisions Process acts on, in the order of the file:
\* trace tells what the daemon would do, and verify verifies it.
LoopsAgree ==
    place \in {"compare", "traced"} =>
        /\ Range(got) = DecisionsOf(rules, labels)
        /\ \A i, j \in DOMAIN got : i < j => got[i] < got[j]

\* check's warnings are true of every alert: a file without the warning about
\* the last rule drops none, and no alert gets past a rule warned of.
WarningsAreTrue ==
    place \in {"compare", "traced"} =>
        /\ ~WarnsOfDrops => got # <<>>
        /\ \A i \in WarnedOf : \A k \in DOMAIN got : got[k] <= i

Copies(receiver, names) == Cardinality({i \in DOMAIN names : names[i] = receiver})

\* A verify case that passed says how often each receiver is notified of the
\* alert: a rule that starts or stops mirroring to the same receiver fails it.
PassedCasesCountCopies ==
    \A c \in passed : \A receiver \in Range(c.receivers) \cup DOMAIN receivers :
        Cardinality({i \in DecisionsOf(rules, c.labels) : rules[i].receiver = receiver})
            = Copies(receiver, c.receivers)
=============================================================================
