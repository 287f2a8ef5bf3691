--------------------------- MODULE RoutingProofs ---------------------------
(* What every rule list and every label set guarantee about Evaluate.        *)
EXTENDS Routing, FiniteSetTheorems, WellFoundedInduction, TLAPS

\* Every non-empty set of naturals has a least element: among the intervals
\* 1..y of its members y one has no strict subset.
LEMMA SmallestOf ==
    ASSUME NEW T \in SUBSET Nat, T # {}
    PROVE  \E x \in T : \A y \in T : x <= y
<1> DEFINE Intervals == {1..y : y \in T}
<1>1. Intervals \subseteq FiniteSubsetsOf(Nat) /\ Intervals # {}
  <2>1. ASSUME NEW y \in T
        PROVE  1..y \in FiniteSubsetsOf(Nat)
    <3>1. IsFiniteSet(1..y)
      BY FS_Interval
    <3> QED BY <3>1 DEF FiniteSubsetsOf
  <2>2. PICK y \in T : TRUE
    OBVIOUS
  <2>3. 1..y \in Intervals
    BY <2>2
  <2> QED BY <2>1, <2>3
<1>2. PICK I \in Intervals :
         \A J \in Intervals : ~ (<<J, I>> \in StrictSubsetOrdering(Nat))
  <2> HIDE DEF Intervals
  <2> QED BY <1>1, FS_StrictSubsetOrderingWellFounded, WFMin
<1>3. PICK x \in T : I = 1..x
  OBVIOUS
<1>4. ASSUME NEW y \in T, y < x
      PROVE  FALSE
  <2>1. 1..y \in Intervals /\ 1..y \subseteq 1..x
    BY <1>4
  <2>2. 1..y # 1..x
    <3>1. x \in 1..x /\ x \notin 1..y
      BY <1>4
    <3> QED BY <3>1
  <2>3. 1..y \in SUBSET Nat /\ 1..x \in SUBSET Nat
    BY <1>4
  <2>4. <<1..y, 1..x>> \in StrictSubsetOrdering(Nat)
    <3> DEFINE ss == <<1..y, 1..x>>
    <3>1. ss \in (SUBSET Nat) \X (SUBSET Nat)
      BY <2>3, Zenon
    <3>2. ss[1] \subseteq ss[2] /\ ss[1] # ss[2]
      BY <2>1, <2>2, Zenon
    <3> QED BY <3>1, <3>2 DEF StrictSubsetOrdering
  <2> QED BY <1>2, <1>3, <2>1, <2>4, Zenon
<1> QED BY <1>4

IsCatchAll(rule) == rule.match = <<>>

\* A rule without conditions matches whatever the labels are.
LEMMA CatchAllMatches ==
    ASSUME NEW labels
    PROVE  MatchAll(<<>>, labels)
  BY DEF MatchAll

\* In any list with a catch-all rule, the first matching rule is decided on.
LEMMA CatchAllDecidesIn ==
    ASSUME NEW list \in Seq(RuleRows), NEW labels,
           NEW i \in DOMAIN list, IsCatchAll(list[i])
    PROVE  DecisionsOf(list, labels) # {}
<1> DEFINE M == {j \in DOMAIN list : MatchAll(list[j].match, labels)}
<1>1. i \in M
  BY CatchAllMatches DEF IsCatchAll
<1>2. M \in SUBSET Nat
  OBVIOUS
<1>3. PICK first \in M : \A j \in M : first <= j
  BY <1>1, <1>2, SmallestOf
<1>4. first \in DecisionsOf(list, labels)
  <2>1. ASSUME NEW j \in 1..(first - 1), MatchAll(list[j].match, labels)
        PROVE  FALSE
    <3>1. j \in DOMAIN list
      BY <1>2, <2>1
    <3>2. first <= j
      BY <1>3, <2>1, <3>1
    <3> QED BY <1>2, <2>1, <3>2
  <2> QED BY <2>1 DEF DecisionsOf
<1> QED BY <1>4

\* In any list, nothing below a final catch-all is decided on.
LEMMA UnreachableIn ==
    ASSUME NEW list \in Seq(RuleRows), NEW labels,
           NEW i \in DOMAIN list, IsCatchAll(list[i]), ~list[i].continue,
           NEW j \in DOMAIN list, i < j
    PROVE  j \notin DecisionsOf(list, labels)
<1>1. MatchAll(list[i].match, labels)
  BY CatchAllMatches DEF IsCatchAll
<1>2. i \in 1..(j - 1)
  OBVIOUS
<1> QED BY <1>1, <1>2 DEF DecisionsOf

\* Evaluate never comes back empty-handed once the list has a catch-all rule:
\* the first matching rule that does not continue, or the catch-all itself,
\* is decided on.
THEOREM CatchAllDecides ==
    ASSUME NEW labels \in LabelSets,
           NEW i \in RuleIndexes, IsCatchAll(Rules[i])
    PROVE  Decisions(labels) # {}
  BY CatchAllDecidesIn, RulesAssumption DEF Decisions, RuleIndexes

\* What `alertchain check` warns of: no rule below a catch-all that does not
\* continue is ever decided on.
THEOREM UnreachableAfterCatchAll ==
    ASSUME NEW labels \in LabelSets,
           NEW i \in RuleIndexes, IsCatchAll(Rules[i]), ~Rules[i].continue,
           NEW j \in RuleIndexes, i < j
    PROVE  j \notin Decisions(labels)
  BY UnreachableIn, RulesAssumption DEF Decisions, RuleIndexes

\* No two rules share a row of the notifications table.
THEOREM PairsTellRulesApart ==
    ASSUME NEW i \in RuleIndexes, NEW j \in RuleIndexes,
           NEW a \in Alerts, NEW b \in Alerts,
           Pair(i, a) = Pair(j, b)
    PROVE  i = j /\ Fingerprint(a) = Fingerprint(b)
<1>1. Rules[i].name = Rules[j].name /\ Fingerprint(a) = Fingerprint(b)
  BY DEF Pair
<1>2. IsInjective([k \in DOMAIN Rules |-> Rules[k].name])
  BY RulesAssumption DEF Validate
<1> QED BY <1>1, <1>2 DEF IsInjective, RuleIndexes

LEMMA DesiredIsSent ==
    ASSUME NEW a, NEW t
    PROVE  Desired(a, t) \in Sent
  BY DEF Desired, Sent

LEMMA FailedIsNotSent ==
    ASSUME NEW s \in Sent
    PROVE  Failed(s) \in Status \ Sent
  BY DEF Failed, Sent, Status

\* Time only ends alerts: an alert over at t is over at any later time.
LEMMA EndedStays ==
    ASSUME NEW a \in Alerts, NEW t \in Nat, NEW u \in Nat, t <= u, Ended(a, t)
    PROVE  Ended(a, u)
  BY DEF Ended, Alerts
=============================================================================
