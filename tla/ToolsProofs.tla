---------------------------- MODULE ToolsProofs ----------------------------
(* Theorems about Tools for any files, cases and label sets: what is loaded  *)
(* leads somewhere, the two loops end with the decisions of the daemon, the  *)
(* warnings are true, and a case that passed counts its receivers.           *)
EXTENDS Tools, RoutingProofs, FiniteSetTheorems

\* The receivers accepted so far.
ReceiversLoaded ==
    \A n \in DOMAIN receivers :
        /\ receivers[n].name = n
        /\ receivers[n].type = "webhook"
        /\ receivers[n].url # ""

RulesLoaded == Loaded => Validate(rules, DOMAIN receivers)

Walking == {"evaluate", "compare", "trace", "traced"}

\* The rules a walk has passed: those it appended are the decisions among them.
Passed == {i \in DOMAIN rules : i < at}

WalkInv ==
    place \in Walking =>
        /\ Range(got) = DecisionsOf(rules, labels) \cap Passed
        /\ \A i, j \in DOMAIN got : i < j => got[i] < got[j]
        /\ ~Done => \A j \in Passed : MatchAll(rules[j].match, labels) => rules[j].continue
        /\ place \in {"compare", "traced"} => Done

CaseHeld ==
    place \in {"evaluate", "compare"} => case \in Cases /\ labels = case.labels

TInv ==
    /\ ToolsTypeOK /\ at # 0
    /\ ReceiversLoaded /\ RulesLoaded
    /\ CaseHeld /\ WalkInv
-----------------------------------------------------------------------------
(* Types.                                                                    *)

LEMMA FileParts ==
    ASSUME ToolsTypeOK
    PROVE  /\ file.receivers \in Seq(ReceiverEntries)
           /\ rules \in Seq(RuleRows)
           /\ file.ui \in Pointers(UISections)
  BY FilesAssumption DEF ToolsTypeOK, rules

LEMMA NoLabelsIsSet == <<>> \in LabelSets
<1>1. <<>> \in [{} -> LabelValues]
  OBVIOUS
<1> QED BY <1>1 DEF LabelSets

LEMMA DefaultUIType == DefaultUI \in [enabled : BOOLEAN, userHeader : Headers]
  BY DEF DefaultUI, Headers

LEMMA SettingTypes ==
    ASSUME ToolsTypeOK
    PROVE  ResolvedUI \in [enabled : BOOLEAN, userHeader : Headers]
<1>1. \A section \in file.ui :
        section["enabled"] \subseteq BOOLEAN /\ section["userHeader"] \subseteq Headers
  BY FileParts DEF Pointers, UISections
<1>2. Setting("enabled") \in BOOLEAN
  <2> DEFINE given == UNION {section["enabled"] : section \in file.ui}
  <2>1. given \subseteq BOOLEAN
    BY <1>1
  <2>2. CASE given = {}
    BY <2>2, DefaultUIType DEF Setting
  <2>3. CASE given # {}
    <3>1. (CHOOSE v \in given : TRUE) \in given
      BY <2>3
    <3>2. Setting("enabled") = CHOOSE v \in given : TRUE
      BY <2>3 DEF Setting
    <3> HIDE DEF given
    <3> QED BY <2>1, <3>1, <3>2, Zenon
  <2> QED BY <2>2, <2>3
<1>3. Setting("userHeader") \in Headers
  <2> DEFINE given == UNION {section["userHeader"] : section \in file.ui}
  <2>1. given \subseteq Headers
    BY <1>1
  <2>2. CASE given = {}
    BY <2>2, DefaultUIType DEF Setting
  <2>3. CASE given # {}
    <3>1. (CHOOSE v \in given : TRUE) \in given
      BY <2>3
    <3>2. Setting("userHeader") = CHOOSE v \in given : TRUE
      BY <2>3 DEF Setting
    <3> HIDE DEF given
    <3> QED BY <2>1, <3>1, <3>2, Zenon
  <2> QED BY <2>2, <2>3
<1> QED BY <1>2, <1>3 DEF ResolvedUI
-----------------------------------------------------------------------------
(* Loading.                                                                  *)

LEMMA InitTInv == Init => TInv
<1> SUFFICES ASSUME Init PROVE TInv
  OBVIOUS
<1>1. ToolsTypeOK
  <2>1. receivers \in [DOMAIN receivers -> ReceiverEntries]
    BY DEF Init
  <2>2. got \in Seq(DOMAIN rules)
    BY DEF Init
  <2>3. ui \in [enabled : BOOLEAN, userHeader : Headers]
    BY DefaultUIType DEF Init
  <2> QED BY <2>1, <2>2, <2>3, NoLabelsIsSet DEF Init, ToolsTypeOK
<1>2. ReceiversLoaded /\ RulesLoaded /\ CaseHeld /\ WalkInv
  BY DEF Init, ReceiversLoaded, RulesLoaded, CaseHeld, WalkInv, Loaded, Walking
<1> QED BY <1>1, <1>2 DEF TInv, Init

LEMMA LoadReceiverTInv ==
    ASSUME TInv, LoadReceiver
    PROVE  TInv'
<1> DEFINE entry == file.receivers[at]
<1>1. entry \in ReceiverEntries /\ file' = file /\ place = "receivers" /\ at \in Nat
  BY FileParts DEF TInv, ToolsTypeOK, LoadReceiver
<1> HIDE DEF entry
<1>2. CASE ~ReceiverAccepted(entry)
  <2>1. /\ place' = "rejected" /\ receivers' = receivers /\ at' = at
        /\ UNCHANGED <<file, ui, case, labels, got, passed, failed>>
    BY <1>2 DEF LoadReceiver, entry
  <2> QED
    BY <2>1 DEF TInv, ToolsTypeOK, ReceiversLoaded, RulesLoaded, CaseHeld, WalkInv,
                Loaded, Walking, rules
<1>3. CASE ReceiverAccepted(entry)
  <2>1. /\ receivers' = [n \in DOMAIN receivers \cup {entry.name} |->
                           IF n = entry.name THEN Resolved(entry) ELSE receivers[n]]
        /\ at' = at + 1
        /\ UNCHANGED <<place, file, ui, case, labels, got, passed, failed>>
    BY <1>3 DEF LoadReceiver, entry
  <2>2. /\ Resolved(entry) \in ReceiverEntries
        /\ Resolved(entry).name = entry.name
        /\ Resolved(entry).type = "webhook" /\ Resolved(entry).url # ""
    BY <1>1, <1>3 DEF ReceiverAccepted, Resolved, ReceiverEntries, NoFile, Unreadable
  <2>3. receivers' \in [DOMAIN receivers' -> ReceiverEntries]
    BY <2>1, <2>2 DEF TInv, ToolsTypeOK
  <2>4. ReceiversLoaded'
    BY <2>1, <2>2 DEF TInv, ReceiversLoaded
  <2>5. ToolsTypeOK'
    BY <1>1, <2>1, <2>3 DEF TInv, ToolsTypeOK, rules
  <2>6. (at # 0)' /\ RulesLoaded' /\ CaseHeld' /\ WalkInv'
    BY <1>1, <2>1 DEF RulesLoaded, CaseHeld, WalkInv, Loaded, Walking
  <2> QED BY <2>4, <2>5, <2>6 DEF TInv
<1> QED BY <1>2, <1>3

LEMMA LoadRulesTInv ==
    ASSUME TInv, LoadRules
    PROVE  TInv'
<1>1. /\ place = "receivers" /\ at' = 1
      /\ UNCHANGED <<file, receivers, case, labels, got, passed, failed>>
  BY DEF LoadRules
<1>2. ui' \in [enabled : BOOLEAN, userHeader : Headers] /\ place' \in {"ready", "rejected"}
  BY SettingTypes DEF LoadRules, TInv, ToolsTypeOK
<1>3. ToolsTypeOK'
  BY <1>1, <1>2 DEF TInv, ToolsTypeOK, rules
<1>4. RulesLoaded'
  BY <1>1 DEF LoadRules, RulesLoaded, Loaded, rules
<1>5. ReceiversLoaded'
  BY <1>1 DEF TInv, ReceiversLoaded
<1>6. (at # 0)' /\ CaseHeld' /\ WalkInv'
  BY <1>1, <1>2 DEF CaseHeld, WalkInv, Walking
<1> QED BY <1>3, <1>4, <1>5, <1>6 DEF TInv
-----------------------------------------------------------------------------
(* The loops.                                                                *)

Ordered(s) == \A i, j \in DOMAIN s : i < j => s[i] < s[j]

LEMMA Appended ==
    ASSUME NEW S, NEW s \in Seq(S), NEW e \in S
    PROVE  /\ Append(s, e) \in Seq(S)
           /\ Range(Append(s, e)) = Range(s) \cup {e}
<1>1. /\ Append(s, e) \in Seq(S)
      /\ DOMAIN Append(s, e) = DOMAIN s \cup {Len(s) + 1}
      /\ Append(s, e)[Len(s) + 1] = e
      /\ \A i \in DOMAIN s : Append(s, e)[i] = s[i]
  OBVIOUS
<1> QED BY <1>1 DEF Range

LEMMA AppendedOrder ==
    ASSUME NEW s \in Seq(Nat), NEW e \in Nat,
           Ordered(s), \A k \in Range(s) : k < e
    PROVE  Ordered(Append(s, e))
<1>1. /\ DOMAIN Append(s, e) = 1..(Len(s) + 1) /\ DOMAIN s = 1..Len(s)
      /\ Append(s, e)[Len(s) + 1] = e
      /\ \A i \in DOMAIN s : Append(s, e)[i] = s[i] /\ s[i] \in Range(s)
  BY DEF Range
<1> SUFFICES ASSUME NEW i \in DOMAIN Append(s, e), NEW j \in DOMAIN Append(s, e), i < j
             PROVE  Append(s, e)[i] < Append(s, e)[j]
  BY DEF Ordered
<1>2. i \in DOMAIN s
  BY <1>1
<1>3. CASE j = Len(s) + 1
  BY <1>1, <1>2, <1>3
<1>4. CASE j \in DOMAIN s
  BY <1>1, <1>2, <1>4 DEF Ordered
<1> QED BY <1>1, <1>3, <1>4

LEMMA TurnWalks ==
    ASSUME TInv, EvaluateTurn, ~Done, place \in {"evaluate", "trace"},
           UNCHANGED <<file, labels, place>>
    PROVE  /\ at' \in Nat /\ at' # 0
           /\ got' \in Seq(DOMAIN rules')
           /\ WalkInv'
<1> DEFINE D == DecisionsOf(rules, labels)
<1>1. /\ rules \in Seq(RuleRows) /\ DOMAIN rules = 1..Len(rules) /\ Len(rules) \in Nat
      /\ at \in DOMAIN rules /\ at \in Nat
      /\ got \in Seq(DOMAIN rules)
      /\ rules' = rules /\ labels' = labels /\ place' = place
  BY FileParts DEF TInv, ToolsTypeOK, Done, rules
<1>2. /\ Range(got) = D \cap Passed
      /\ Ordered(got)
      /\ \A j \in Passed : MatchAll(rules[j].match, labels) => rules[j].continue
  BY DEF TInv, WalkInv, Walking, Ordered
<1>3. at \in D <=> MatchAll(rules[at].match, labels)
  <2>1. \A j \in 1..(at - 1) : j \in Passed
    BY <1>1 DEF Passed
  <2> QED BY <1>1, <1>2, <2>1 DEF DecisionsOf
<1> SUFFICES /\ at' \in Nat /\ at' # 0
             /\ got' \in Seq(DOMAIN rules)
             /\ Range(got') = D \cap Passed'
             /\ Ordered(got')
             /\ at' <= Len(rules) =>
                  \A j \in Passed' : MatchAll(rules[j].match, labels) => rules[j].continue
  <2>1. DecisionsOf(rules, labels)' = D
    BY <1>1 DEF DecisionsOf
  <2>2. at' \in Nat => (~Done' <=> at' <= Len(rules))
    BY <1>1 DEF Done
  <2>3. \A j \in Passed' : MatchAll(rules[j].match, labels)' <=> MatchAll(rules[j].match, labels)
    BY <1>1 DEF MatchAll, Lookup
  <2> QED BY <1>1, <2>1, <2>2, <2>3 DEF WalkInv, Ordered
<1>4. CASE ~MatchAll(rules[at].match, labels)
  <2>1. got' = got /\ at' = at + 1
    BY <1>4 DEF EvaluateTurn
  <2>2. Passed' = Passed \cup {at}
    BY <1>1, <2>1 DEF Passed
  <2> QED BY <1>1, <1>2, <1>3, <1>4, <2>1, <2>2
<1>5. CASE MatchAll(rules[at].match, labels)
  <2>1. got' = Append(got, at) /\ at' = IF rules[at].continue THEN at + 1 ELSE Len(rules) + 1
    BY <1>5 DEF EvaluateTurn
  <2>2. got' \in Seq(DOMAIN rules) /\ Range(got') = Range(got) \cup {at}
    BY <1>1, <2>1, Appended
  <2>3. Ordered(got')
    <3>1. got \in Seq(Nat) /\ \A k \in Range(got) : k < at
      BY <1>1, <1>2 DEF Passed
    <3> QED BY <1>1, <1>2, <2>1, <3>1, AppendedOrder
  <2>4. CASE rules[at].continue
    <3>1. at' = at + 1
      BY <2>1, <2>4
    <3>2. Passed' = Passed \cup {at}
      BY <1>1, <3>1 DEF Passed
    <3> QED BY <1>1, <1>2, <1>3, <1>5, <2>2, <2>3, <2>4, <3>1, <3>2
  <2>5. CASE ~rules[at].continue
    <3>1. at' = Len(rules) + 1
      BY <2>1, <2>5
    <3>2. Passed' = DOMAIN rules
      BY <1>1, <3>1 DEF Passed
    <3>3. \A i \in D : i \in Passed \cup {at}
      <4> SUFFICES ASSUME NEW i \in DOMAIN rules, i \in D, at < i
                   PROVE  FALSE
        BY <1>1 DEF Passed, DecisionsOf
      <4>1. at \in 1..(i - 1)
        BY <1>1
      <4> QED BY <1>5, <2>5, <4>1 DEF DecisionsOf
    <3>4. D \subseteq DOMAIN rules
      BY DEF DecisionsOf
    <3> QED BY <1>1, <1>2, <1>3, <1>5, <2>2, <2>3, <3>1, <3>2, <3>3, <3>4
  <2> QED BY <2>4, <2>5
<1> QED BY <1>4, <1>5
-----------------------------------------------------------------------------
(* Every step keeps the invariant.                                           *)

\* A step that leaves what was loaded alone.
LEMMA LoadedStays ==
    ASSUME TInv, UNCHANGED <<file, receivers, ui>>, Loaded, Loaded'
    PROVE  ReceiversLoaded' /\ RulesLoaded' /\ rules' = rules
  BY DEF TInv, ReceiversLoaded, RulesLoaded, rules

\* A walk begins with nothing passed.
LEMMA WalkBegins ==
    ASSUME TInv, at' = 1, got' = <<>>, rules' = rules,
           place' \notin {"compare", "traced"}
    PROVE  WalkInv' /\ got' \in Seq(DOMAIN rules')
<1>1. DOMAIN rules = 1..Len(rules) /\ Len(rules) \in Nat
  BY FileParts DEF TInv
<1>2. Passed' = {} /\ Range(got') = {} /\ DOMAIN got' = {}
  BY <1>1 DEF Passed, Range
<1>3. got' \in Seq(DOMAIN rules')
  BY <1>1
<1> QED BY <1>2, <1>3 DEF WalkInv

LEMMA StartTInv ==
    ASSUME TInv, StartTrace \/ \E c \in Cases : StartCase(c)
    PROVE  TInv'
<1>1. /\ place = "ready" /\ place' \in {"evaluate", "trace"}
      /\ at' = 1 /\ got' = <<>>
      /\ UNCHANGED <<file, receivers, ui, passed, failed>>
  BY DEF StartTrace, StartCase
<1>2. labels' \in LabelSets /\ case' \in Cases \cup {NoCase}
  BY CasesAssumption DEF StartTrace, StartCase, TInv, ToolsTypeOK
<1>3. ReceiversLoaded' /\ RulesLoaded' /\ rules' = rules
  BY <1>1, LoadedStays DEF Loaded
<1>4. WalkInv' /\ got' \in Seq(DOMAIN rules')
  BY <1>1, <1>3, WalkBegins
<1>5. ToolsTypeOK'
  BY <1>1, <1>2, <1>4 DEF TInv, ToolsTypeOK
<1>6. CaseHeld'
  BY DEF StartTrace, StartCase, CaseHeld
<1> QED BY <1>1, <1>3, <1>4, <1>5, <1>6 DEF TInv

LEMMA EndTInv ==
    ASSUME TInv, Compare \/ EndTrace
    PROVE  TInv'
<1>1. /\ place \in {"compare", "traced"} /\ place' = "ready"
      /\ at' = 1 /\ got' = <<>> /\ labels' = <<>>
      /\ UNCHANGED <<file, receivers, ui>>
  BY DEF Compare, EndTrace
<1>2. case' \in Cases \cup {NoCase}
  BY DEF Compare, EndTrace, TInv, ToolsTypeOK
<1>3. passed' \subseteq Cases /\ failed' \subseteq Cases
  <2>1. CASE EndTrace
    BY <2>1 DEF EndTrace, TInv, ToolsTypeOK
  <2>2. CASE Compare
    BY <2>2 DEF Compare, TInv, CaseHeld, ToolsTypeOK
  <2> QED BY <2>1, <2>2
<1>4. ReceiversLoaded' /\ RulesLoaded' /\ rules' = rules
  BY <1>1, LoadedStays DEF Loaded
<1>5. WalkInv' /\ got' \in Seq(DOMAIN rules')
  BY <1>1, <1>4, WalkBegins
<1>6. ToolsTypeOK'
  BY <1>1, <1>2, <1>3, <1>5, NoLabelsIsSet DEF TInv, ToolsTypeOK
<1> QED BY <1>1, <1>4, <1>5, <1>6 DEF TInv, CaseHeld

LEMMA WalkTInv ==
    ASSUME TInv, Evaluate \/ Trace
    PROVE  TInv'
<1>1. /\ place \in {"evaluate", "trace"}
      /\ UNCHANGED <<file, receivers, ui, case, labels, passed, failed>>
  BY DEF Evaluate, Trace
<1>2. CaseHeld'
  BY <1>1 DEF Evaluate, Trace, TInv, CaseHeld
<1>3. CASE Done
  <2>1. place' \in {"compare", "traced"} /\ at' = at /\ got' = got
    BY <1>3 DEF Evaluate, Trace
  <2>2. ReceiversLoaded' /\ RulesLoaded' /\ rules' = rules
    BY <1>1, <2>1, LoadedStays DEF Loaded
  <2>3. ToolsTypeOK'
    BY <1>1, <2>1, <2>2 DEF TInv, ToolsTypeOK
  <2>4. WalkInv'
    <3>1. Passed' = Passed /\ DecisionsOf(rules, labels)' = DecisionsOf(rules, labels)
      BY <1>1, <2>1, <2>2 DEF Passed, DecisionsOf
    <3>2. Done'
      BY <1>3, <2>1, <2>2 DEF Done
    <3> QED BY <1>1, <2>1, <2>2, <3>1, <3>2 DEF TInv, WalkInv, Walking
  <2> QED BY <1>1, <1>2, <2>1, <2>2, <2>3, <2>4 DEF TInv
<1>4. CASE ~Done
  <2>1. place' = place /\ EvaluateTurn
    BY <1>4 DEF Evaluate, Trace, EvaluateTurn, TraceTurn
  <2>2. ReceiversLoaded' /\ RulesLoaded' /\ rules' = rules
    BY <1>1, <2>1, LoadedStays DEF Loaded
  <2>3. at' \in Nat /\ at' # 0 /\ got' \in Seq(DOMAIN rules') /\ WalkInv'
    BY <1>1, <1>4, <2>1, TurnWalks
  <2>4. ToolsTypeOK'
    BY <1>1, <2>1, <2>2, <2>3 DEF TInv, ToolsTypeOK
  <2> QED BY <1>2, <2>2, <2>3, <2>4 DEF TInv
<1> QED BY <1>3, <1>4

LEMMA NextTInv == TInv /\ [Next]_vars => TInv'
<1> SUFFICES ASSUME TInv, [Next]_vars PROVE TInv'
  OBVIOUS
<1>1. CASE UNCHANGED vars
  BY <1>1 DEF vars, TInv, ToolsTypeOK, ReceiversLoaded, RulesLoaded, CaseHeld, WalkInv,
              Loaded, Passed, Done, rules, DecisionsOf
<1> QED
  BY <1>1, LoadReceiverTInv, LoadRulesTInv, StartTInv, WalkTInv, EndTInv DEF Next

LEMMA AlwaysTInv == Spec => []TInv
  BY InitTInv, NextTInv, PTL DEF Spec
-----------------------------------------------------------------------------
(* The theorems.                                                             *)

\* Every variable of the offline tools keeps its type, whatever the file says.
THEOREM ToolsTypeCorrect == Spec => []ToolsTypeOK
<1>1. TInv => ToolsTypeOK
  BY DEF TInv
<1> QED BY <1>1, AlwaysTInv, PTL

\* Every rule of a file LoadConfig accepts leads to a webhook with a URL.
THEOREM RulesLeadSomewhereAlways == Spec => []RulesLeadSomewhere
<1>1. TInv => RulesLeadSomewhere
  <2> SUFFICES ASSUME TInv, Loaded, NEW i \in DOMAIN rules
               PROVE  /\ rules[i].receiver \in DOMAIN receivers
                      /\ receivers[rules[i].receiver].name = rules[i].receiver
                      /\ receivers[rules[i].receiver].type = "webhook"
                      /\ receivers[rules[i].receiver].url \notin {"", Unreadable}
    BY DEF RulesLeadSomewhere
  <2>1. rules[i].receiver \in DOMAIN receivers
    BY DEF TInv, RulesLoaded, Validate
  <2>2. receivers[rules[i].receiver] \in ReceiverEntries
    BY <2>1 DEF TInv, ToolsTypeOK
  <2> QED BY <2>1, <2>2 DEF TInv, ReceiversLoaded, ReceiverEntries
<1> QED BY <1>1, AlwaysTInv, PTL

\* Where a walk ends it has appended the decisions and nothing else.
LEMMA WalkEnds ==
    ASSUME TInv, place \in {"compare", "traced"}
    PROVE  Range(got) = DecisionsOf(rules, labels)
<1>1. DOMAIN rules = 1..Len(rules) /\ Len(rules) \in Nat /\ at \in Nat /\ at > Len(rules)
  BY FileParts DEF TInv, ToolsTypeOK, WalkInv, Walking, Done
<1>2. Passed = DOMAIN rules /\ DecisionsOf(rules, labels) \subseteq DOMAIN rules
  BY <1>1 DEF Passed, DecisionsOf
<1> QED BY <1>2 DEF TInv, WalkInv, Walking

\* The loop of Evaluate and that of Trace end with the decisions the daemon
\* acts on, in the order of the file, for every file and every label set.
THEOREM LoopsAgreeAlways == Spec => []LoopsAgree
<1>1. TInv => LoopsAgree
  BY WalkEnds DEF TInv, WalkInv, Walking, LoopsAgree
<1> QED BY <1>1, AlwaysTInv, PTL

\* check's two warnings are true of every file and every label set.
THEOREM WarningsAreTrueAlways == Spec => []WarningsAreTrue
<1>1. TInv => WarningsAreTrue
  <2> SUFFICES ASSUME TInv, place \in {"compare", "traced"}
               PROVE  /\ ~WarnsOfDrops => got # <<>>
                      /\ \A i \in WarnedOf : \A k \in DOMAIN got : got[k] <= i
    BY DEF WarningsAreTrue
  <2>1. /\ rules \in Seq(RuleRows) /\ DOMAIN rules = 1..Len(rules) /\ Len(rules) \in Nat
        /\ got \in Seq(DOMAIN rules)
        /\ Range(got) = DecisionsOf(rules, labels)
    BY FileParts, WalkEnds DEF TInv, ToolsTypeOK
  <2>2. ASSUME ~WarnsOfDrops
        PROVE  got # <<>>
    <3>1. Len(rules) \in DOMAIN rules /\ IsCatchAll(rules[Len(rules)])
      BY <2>1, <2>2 DEF WarnsOfDrops, CatchAll, IsCatchAll
    <3>2. Range(got) # {}
      BY <2>1, <3>1, CatchAllDecidesIn
    <3> QED BY <3>2 DEF Range
  <2>3. ASSUME NEW i \in WarnedOf, NEW k \in DOMAIN got, ~(got[k] <= i)
        PROVE  FALSE
    <3>1. /\ i \in DOMAIN rules /\ IsCatchAll(rules[i]) /\ ~rules[i].continue
          /\ got[k] \in DOMAIN rules /\ i < got[k]
      BY <2>1, <2>3 DEF WarnedOf, EndsWalk, CatchAll, IsCatchAll
    <3>2. got[k] \in Range(got)
      BY DEF Range
    <3> QED BY <2>1, <3>1, <3>2, UnreachableIn
  <2> QED BY <2>2, <2>3
<1> QED BY <1>1, AlwaysTInv, PTL
-----------------------------------------------------------------------------
(* The comparison.  Three rearrangements follow each other: the receivers    *)
(* expected are those of got in another order, and got lists the decisions.  *)

\* A rearrangement takes what it maps into B to B, one by one.
LEMMA PartsCount ==
    ASSUME NEW S, NEW T, NEW f \in Bijection(S, T), IsFiniteSet(S),
           NEW A \in SUBSET S, NEW B \in SUBSET T,
           \A s \in S : s \in A <=> f[s] \in B
    PROVE  Cardinality(A) = Cardinality(B)
<1> DEFINE g == [a \in A |-> f[a]]
<1>1. /\ f \in [S -> T]
      /\ \A s, t \in S : f[s] = f[t] => s = t
      /\ \A t \in T : \E s \in S : f[s] = t
  BY DEF Bijection, Injection, Surjection, IsInjective
<1>2. g \in [A -> B] /\ \A s, t \in A : g[s] = g[t] => s = t
  BY <1>1
<1>3. \A b \in B : \E a \in A : g[a] = b
  BY <1>1
<1>4. g \in Bijection(A, B)
  BY <1>2, <1>3 DEF Bijection, Injection, Surjection, IsInjective
<1>5. ExistsBijection(A, B)
  BY <1>4 DEF ExistsBijection
<1>6. IsFiniteSet(A)
  BY FS_Subset
<1> QED BY <1>5, <1>6, FS_Bijection

\* An ordered list of the members of D numbers them.
LEMMA OrderedNumbers ==
    ASSUME NEW s \in Seq(Nat), Ordered(s)
    PROVE  s \in Bijection(DOMAIN s, Range(s))
<1>1. s \in [DOMAIN s -> Range(s)] /\ DOMAIN s = 1..Len(s) /\ Len(s) \in Nat
  BY DEF Range
<1>2. \A i \in DOMAIN s : s[i] \in Nat
  OBVIOUS
<1>3. ASSUME NEW i \in DOMAIN s, NEW j \in DOMAIN s, s[i] = s[j]
      PROVE  i = j
  <2>1. i \in Nat /\ j \in Nat /\ ~(s[i] < s[j]) /\ ~(s[j] < s[i])
    BY <1>1, <1>2, <1>3
  <2>2. ~(i < j) /\ ~(j < i)
    BY <2>1 DEF Ordered
  <2> QED BY <2>1, <2>2
<1>4. \A r \in Range(s) : \E i \in DOMAIN s : s[i] = r
  BY DEF Range
<1> QED BY <1>1, <1>3, <1>4 DEF Bijection, Injection, Surjection, IsInjective

\* As many of the names are `name` as of those they are a rearrangement of.
LEMMA SameSetSameCopies ==
    ASSUME NEW S, NEW a \in Seq(S), NEW b \in Seq(S), sameSet(a, b), NEW name
    PROVE  Copies(name, a) = Copies(name, b)
<1> DEFINE A == {i \in DOMAIN a : a[i] = name}
           B == {i \in DOMAIN b : b[i] = name}
<1>1. PICK order \in Bijection(DOMAIN a, DOMAIN b) : \A i \in DOMAIN a : a[i] = b[order[i]]
  BY DEF sameSet
<1>2. order \in [DOMAIN a -> DOMAIN b]
  BY DEF Bijection, Injection
<1>3. \A i \in DOMAIN a : i \in A <=> order[i] \in B
  BY <1>1, <1>2
<1>4. IsFiniteSet(DOMAIN a)
  <2>1. DOMAIN a = 1..Len(a) /\ Len(a) \in Nat
    OBVIOUS
  <2> QED BY <2>1, FS_Interval
<1>5. A \in SUBSET DOMAIN a /\ B \in SUBSET DOMAIN b
  OBVIOUS
<1> HIDE DEF A, B
<1>6. Cardinality(A) = Cardinality(B)
  BY <1>3, <1>4, <1>5, PartsCount
<1> QED BY <1>6 DEF Copies, A, B

\* How often an alert makes the daemon notify a receiver, under a rule list.
Notified(list, ls, receiver) ==
    Cardinality({i \in DecisionsOf(list, ls) : list[i].receiver = receiver})

\* Where a walk ends, the receivers it gives are those of the decisions.
LEMMA GotCounts ==
    ASSUME TInv, place \in {"compare", "traced"}, NEW name
    PROVE  /\ gotReceivers \in Seq(STRING)
           /\ Copies(name, gotReceivers) = Notified(rules, labels, name)
<1> DEFINE D == DecisionsOf(rules, labels)
           A == {i \in DOMAIN gotReceivers : gotReceivers[i] = name}
           B == {i \in D : rules[i].receiver = name}
<1>1. /\ rules \in Seq(RuleRows) /\ DOMAIN rules = 1..Len(rules) /\ Len(rules) \in Nat
      /\ got \in Seq(DOMAIN rules) /\ DOMAIN got = 1..Len(got) /\ Len(got) \in Nat
  BY FileParts DEF TInv, ToolsTypeOK
<1>2. \A i \in DOMAIN rules : rules[i].receiver \in STRING
  <2>1. \A i \in DOMAIN rules : rules[i] \in RuleRows
    BY <1>1
  <2> QED BY <2>1 DEF RuleRows
<1>3. gotReceivers \in [1..Len(got) -> STRING] /\ DOMAIN gotReceivers = DOMAIN got
  BY <1>1, <1>2 DEF gotReceivers
<1>4. gotReceivers \in Seq(STRING)
  BY <1>1, <1>3
<1>5. got \in Bijection(DOMAIN got, D)
  <2>1. got \in Seq(Nat) /\ Ordered(got)
    BY <1>1 DEF TInv, WalkInv, Walking, Ordered
  <2> QED BY <2>1, WalkEnds, OrderedNumbers
<1>6. got \in [DOMAIN got -> D]
  BY <1>5 DEF Bijection, Injection
<1>7. \A i \in DOMAIN got : i \in A <=> got[i] \in B
  BY <1>3, <1>6 DEF gotReceivers
<1>8. IsFiniteSet(DOMAIN got)
  BY <1>1, FS_Interval
<1>9. A \in SUBSET DOMAIN got /\ B \in SUBSET D
  BY <1>3
<1> HIDE DEF A, B, D
<1>10. Cardinality(A) = Cardinality(B)
  BY <1>5, <1>7, <1>8, <1>9, PartsCount
<1>11. Copies(name, gotReceivers) = Cardinality(A)
  BY DEF Copies, A
<1>12. Notified(rules, labels, name) = Cardinality(B)
  BY DEF Notified, B, D
<1> QED BY <1>4, <1>10, <1>11, <1>12

\* What verify has passed so far, for any name at all.
PassedInv ==
    \A c \in passed : \A name :
        Notified(rules, c.labels, name) = Copies(name, c.receivers)

LEMMA ComparePassedInv ==
    ASSUME TInv, PassedInv, Compare
    PROVE  PassedInv'
<1>1. rules' = rules
  BY DEF Compare, rules
<1>2. CASE ~compareExpectations
  BY <1>1, <1>2 DEF Compare, PassedInv
<1>3. CASE compareExpectations
  <2>1. passed' = passed \cup {case} /\ case \in Cases /\ labels = case.labels
    BY <1>3 DEF Compare, TInv, CaseHeld
  <2>2. case.receivers \in Seq(STRING) /\ sameSet(case.receivers, gotReceivers)
    BY <1>3, <2>1, CasesAssumption DEF compareExpectations
  <2>3. \A name : Notified(rules, case.labels, name) = Copies(name, case.receivers)
    <3> TAKE name
    <3>1. /\ gotReceivers \in Seq(STRING)
          /\ Copies(name, gotReceivers) = Notified(rules, labels, name)
      BY GotCounts DEF Compare
    <3> QED BY <2>1, <2>2, <3>1, SameSetSameCopies
  <2>4. \A c \in passed' : \A name : Notified(rules, c.labels, name) = Copies(name, c.receivers)
    BY <2>1, <2>3 DEF PassedInv
  <2> QED BY <1>1, <2>4 DEF PassedInv
<1> QED BY <1>2, <1>3

LEMMA StepPassedInv == TInv /\ PassedInv /\ [Next]_vars => PassedInv'
<1> SUFFICES ASSUME TInv, PassedInv, [Next]_vars PROVE PassedInv'
  OBVIOUS
<1>1. CASE Compare
  BY <1>1, ComparePassedInv
<1>2. CASE UNCHANGED <<file, passed>>
  <2>1. rules' = rules /\ passed' = passed
    BY <1>2 DEF rules
  <2> QED BY <2>1 DEF PassedInv
<1>3. [Next]_vars => Compare \/ UNCHANGED <<file, passed>>
  BY DEF Next, vars, LoadReceiver, LoadRules, StartCase, Evaluate, StartTrace, Trace,
         EndTrace
<1> QED BY <1>1, <1>2, <1>3

\* A verify case that passed names each receiver as often as the daemon would
\* notify it of the alert, for every file and every case.
THEOREM PassedCasesCountCopiesAlways == Spec => []PassedCasesCountCopies
<1>1. Init => PassedInv
  BY DEF Init, PassedInv
<1>2. PassedInv => PassedCasesCountCopies
  BY DEF PassedInv, PassedCasesCountCopies, Notified
<1> QED BY <1>1, <1>2, AlwaysTInv, StepPassedInv, PTL DEF Spec
=============================================================================
