------------------------------ MODULE Routing ------------------------------
(* The pure part of the chain: label matching, the rule list and the         *)
(* statuses a rule asks for (internal/alertchain/chain.go).                  *)
EXTENDS Integers, Sequences, Functions

CONSTANTS
    LabelNames,
    LabelValues,
    Receivers,           \* names of the configured receivers
    Rules                \* the rule list, in config-file order

NoValue == ""            \* what a Go map yields for a missing key

\* map[string]string: every function from some of the names to values.
LabelSets == UNION {[N -> LabelValues] : N \in SUBSET LabelNames}

Alerts == [labels : LabelSets, startsAt : Nat, endsAt : Nat]

\* A label set stands for its 64-bit hash: collisions are not modelled.
Fingerprint(alert) == alert.labels

Lookup(labels, name) == IF name \in DOMAIN labels THEN labels[name] ELSE NoValue

\* A condition on "" is met by an absent label too.
MatchAll(conditions, labels) ==
    \A name \in DOMAIN conditions : Lookup(labels, name) = conditions[name]

RuleRows == [name : STRING, match : LabelSets, receiver : STRING, continue : BOOLEAN]

\* A slip: receivers not looked up.
ValidateNames(rules, receivers) ==
    /\ \A i \in DOMAIN rules : rules[i].name # "" /\ rules[i].receiver # ""
    /\ IsInjective([i \in DOMAIN rules |-> rules[i].name])

\* What Chain.Validate accepts.
Validate(rules, receivers) ==
    /\ \A i \in DOMAIN rules :
          /\ rules[i].name # ""
          /\ rules[i].receiver # ""
          /\ rules[i].receiver \in receivers
    /\ IsInjective([i \in DOMAIN rules |-> rules[i].name])

\* The daemon serves a validated chain only (config.go calls Validate), so a
\* rule always finds its receiver and names its pair alone.
ASSUME RulesAssumption == Rules \in Seq(RuleRows) /\ Validate(Rules, Receivers)

RuleIndexes == DOMAIN Rules

\* The rules the loop of Evaluate appends before it breaks: rule i matches and
\* no matching rule above it stops the walk.
DecisionsOf(rules, labels) ==
    {i \in DOMAIN rules :
        /\ MatchAll(rules[i].match, labels)
        /\ \A j \in 1..(i - 1) :
              MatchAll(rules[j].match, labels) => rules[j].continue}

Decisions(labels) == DecisionsOf(Rules, labels)

-----------------------------------------------------------------------------
(* NotificationStatus: what one attempt on a (rule, fingerprint) asks for    *)
(* and what it is recorded as.                                               *)

Sent   == {"firing-sent", "resolved-sent"}
Status == Sent \cup {"firing-failed", "resolved-failed"}
None   == "none"         \* no row

\* A slip: one of the four statuses misspelt.
FailedMisspelt(s) ==
    CASE s = "firing-sent"   -> "firing-failed"
      [] s = "resolved-sent" -> "failed"
      [] OTHER               -> s

Failed(s) ==
    CASE s = "firing-sent"   -> "firing-failed"
      [] s = "resolved-sent" -> "resolved-failed"
      [] OTHER               -> s

\* A non-zero endsAt at or before t means the alert is over.
Ended(alert, t) == alert.endsAt # 0 /\ alert.endsAt <= t

Desired(alert, t) == IF Ended(alert, t) THEN "resolved-sent" ELSE "firing-sent"

\* A slip: an alert ending right now not taken for over.
AlertStatusOpen(alert, t) ==
    IF alert.endsAt # 0 /\ alert.endsAt < t THEN "resolved" ELSE "firing"

\* alertStatus: the word the webhook payload carries.
AlertStatus(alert, t) == IF Ended(alert, t) THEN "resolved" ELSE "firing"

\* The key of the notifications table.
Pair(i, alert) == <<Rules[i].name, Fingerprint(alert)>>
Pairs == {Rules[i].name : i \in RuleIndexes} \X LabelSets
=============================================================================
