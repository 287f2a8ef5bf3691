---------------------------- MODULE ServerProofs ----------------------------
(* Theorems about Server for any number of requests, any pool, fan-out and   *)
(* page, and any number of faults and restarts.                              *)
EXTENDS Server, FiniteSetTheorems, TLAPS

\* A page that matches a mute has one left to match.
PagesHaveMutes == \A r \in Requests : at[r] = "match" => left[r] # 0

TInv == ServerTypeOK /\ PagesHaveMutes

-----------------------------------------------------------------------------
(* Counting requests.                                                        *)

LEMMA HeldIsFinite ==
    ASSUME ServerTypeOK
    PROVE  IsFiniteSet(held) /\ Cardinality(held) \in Nat
<1>1. held \subseteq Requests
  BY DEF ServerTypeOK
<1> QED BY <1>1, ServerBoundsAssumption, FS_Subset, FS_CardinalityType

\* What a step does to a request that has just ended a statement.
LEMMA ReleaseKeepsPool ==
    ASSUME ServerTypeOK, NEW r \in Requests
    PROVE  /\ Cardinality(held \ {r}) \in Nat
           /\ Cardinality(held \ {r}) <= MaxOpenConns
<1>1. IsFiniteSet(held) /\ Cardinality(held) \in Nat
  BY HeldIsFinite
<1>2. /\ Cardinality(held \ {r}) = IF r \in held THEN Cardinality(held) - 1
                                                 ELSE Cardinality(held)
      /\ IsFiniteSet(held \ {r})
  BY <1>1, FS_RemoveElement
<1>3. Cardinality(held \ {r}) \in Nat
  BY <1>2, FS_CardinalityType
<1> QED
  BY <1>1, <1>2, <1>3, PoolAssumption DEF ServerTypeOK
-----------------------------------------------------------------------------
(* Type correctness.                                                         *)

Places == DatabaseSteps \cup {"none", "next", "post"}

\* What a step of request r keeps of TInv.
Local(r) ==
    /\ at' \in [Requests -> Places]
    /\ left' \in [Requests -> Nat]
    /\ \A q \in Requests \ {r} : at'[q] = at[q] /\ left'[q] = left[q]
    /\ at'[r] = "match" => left'[r] # 0
    /\ \/ held' = held \ {r}
       \/ held' = held /\ r \notin held
    /\ counters' \in [CounterNames -> Nat]
    /\ faults' \in 0..MaxFaults
    /\ finished' \in Nat /\ written' \in Nat
    /\ UNCHANGED Rest

LEMMA LocalKeepsTypes ==
    ASSUME TInv, NEW r \in Requests, Local(r)
    PROVE  TInv'
<1>1. held' \subseteq {q \in Requests : at'[q] \in DatabaseSteps}
  BY DEF TInv, ServerTypeOK, Local
<1>2. Cardinality(held') <= MaxOpenConns
  BY ReleaseKeepsPool DEF TInv, ServerTypeOK, Local
<1>3. PagesHaveMutes'
  BY DEF TInv, PagesHaveMutes, Local
<1> QED
  BY <1>1, <1>2, <1>3 DEF TInv, ServerTypeOK, Local, Places, Rest, processVars

LEMMA GotoTyped ==
    ASSUME TInv, NEW r \in Requests, NEW step \in Places, Goto(r, step)
    PROVE  /\ at' \in [Requests -> Places] /\ at'[r] = step
           /\ \A q \in Requests \ {r} : at'[q] = at[q]
  BY DEF TInv, ServerTypeOK, Goto, Places

LEMMA TurnsTyped ==
    ASSUME TInv, NEW r \in Requests, NEW n \in Nat, Turns(r, n)
    PROVE  /\ left' \in [Requests -> Nat] /\ left'[r] = n
           /\ \A q \in Requests \ {r} : left'[q] = left[q]
  BY DEF TInv, ServerTypeOK, Turns

LEMMA CountTyped ==
    ASSUME TInv, NEW name \in CounterNames, Count(name)
    PROVE  /\ counters' \in [CounterNames -> Nat]
           /\ counters'[name] = counters[name] + 1
           /\ \A other \in CounterNames \ {name} : counters'[other] = counters[other]
  BY DEF TInv, ServerTypeOK, Count

LEMMA Same ==
    ASSUME TInv
    PROVE  /\ at \in [Requests -> Places] /\ left \in [Requests -> Nat]
           /\ counters \in [CounterNames -> Nat]
           /\ faults \in 0..MaxFaults /\ finished \in Nat /\ written \in Nat
           /\ held \subseteq {q \in Requests : at[q] \in DatabaseSteps}
           /\ \A q \in Requests : at[q] = "match" => left[q] # 0
  BY DEF TInv, ServerTypeOK, Places, PagesHaveMutes

\* The places a request moves to, and the names that are counted.
LEMMA Names ==
    /\ {"none", "next", "post", "upsert", "mutes", "lookup", "record", "list", "match"} \subseteq Places
    /\ {"received", "success", "failure", "muteLookup", "historyLookup", "historyWrite"} \subseteq CounterNames
    /\ DatabaseSteps \subseteq Places
    /\ "none" \notin DatabaseSteps /\ "next" \notin DatabaseSteps /\ "post" \notin DatabaseSteps
  BY DEF Places, DatabaseSteps, AlertQueries, CounterNames

LEMMA EndsFaults ==
    ASSUME TInv, NEW r \in Requests, Succeeds(r) \/ Fails(r)
    PROVE  faults' \in 0..MaxFaults
  BY ServerBoundsAssumption DEF TInv, ServerTypeOK, Succeeds, Fails

LEMMA FinishTyped ==
    ASSUME TInv, NEW r \in Requests, Finish(r)
    PROVE  /\ at' \in [Requests -> Places] /\ at'[r] = "next"
           /\ \A q \in Requests \ {r} : at'[q] = at[q] /\ left'[q] = left[q]
           /\ left' \in [Requests -> Nat]
           /\ finished' = finished + 1 /\ finished' \in Nat
  BY GotoTyped, TurnsTyped, Same, Names DEF Finish

LEMMA RefuseTyped ==
    ASSUME TInv, NEW r \in Requests, Refuse(r)
    PROVE  /\ at' \in [Requests -> Places] /\ at'[r] = "none"
           /\ \A q \in Requests \ {r} : at'[q] = at[q] /\ left'[q] = left[q]
           /\ left' \in [Requests -> Nat]
           /\ finished' = finished /\ finished' \in Nat
  BY GotoTyped, TurnsTyped, Same, Names DEF Refuse

LEMMA NextDecisionTyped ==
    ASSUME TInv, NEW r \in Requests, NextDecision(r)
    PROVE  /\ at' \in [Requests -> Places]
           /\ \A q \in Requests \ {r} : at'[q] = at[q] /\ left'[q] = left[q]
           /\ left' \in [Requests -> Nat]
           /\ finished' \in Nat
           /\ \/ at'[r] = "next" /\ finished' = finished + 1
              \/ at'[r] = "lookup" /\ finished' = finished
<1>1. CASE Finish(r)
  BY <1>1, FinishTyped
<1>2. CASE left[r] > 1 /\ Goto(r, "lookup") /\ Turns(r, left[r] - 1) /\ UNCHANGED finished
  <2>1. left[r] - 1 \in Nat
    BY <1>2, Same
  <2> QED BY <1>2, <2>1, GotoTyped, TurnsTyped, Same, Names
<1> QED BY <1>1, <1>2 DEF NextDecision

LEMMA TurnPageTyped ==
    ASSUME TInv, NEW r \in Requests, NEW n \in Nat, TurnPage(r, n)
    PROVE  /\ at' \in [Requests -> Places] /\ at'[r] \in {"none", "match"}
           /\ \A q \in Requests \ {r} : at'[q] = at[q] /\ left'[q] = left[q]
           /\ left' \in [Requests -> Nat]
           /\ at'[r] = "match" => left'[r] # 0
  BY GotoTyped, TurnsTyped, Names DEF TurnPage
-----------------------------------------------------------------------------
(* The steps of a request: each keeps the types and the balance.             *)

\* When one request moves, the number of those at certain steps changes by that
\* request alone.
LEMMA HandMoves ==
    ASSUME TInv, NEW r \in Requests, Local(r), NEW steps
    PROVE  /\ InHand(steps) \in Nat /\ InHand(steps)' \in Nat
           /\ (at[r] \in steps <=> at'[r] \in steps) => InHand(steps)' = InHand(steps)
           /\ at[r] \notin steps /\ at'[r] \in steps => InHand(steps)' = InHand(steps) + 1
           /\ at[r] \in steps /\ at'[r] \notin steps => InHand(steps) = InHand(steps)' + 1
<1> DEFINE A == {q \in Requests : at[q] \in steps}
           B == {q \in Requests : at'[q] \in steps}
<1>1. InHand(steps) = Cardinality(A) /\ InHand(steps)' = Cardinality(B)
  BY DEF InHand
<1>2. IsFiniteSet(A) /\ IsFiniteSet(B)
  BY ServerBoundsAssumption, FS_Subset
<1>3. Cardinality(A) \in Nat /\ Cardinality(B) \in Nat
  BY <1>2, FS_CardinalityType
<1>4. \A q \in Requests \ {r} : at'[q] = at[q]
  BY DEF Local
<1>5. ASSUME at[r] \in steps <=> at'[r] \in steps
      PROVE  Cardinality(B) = Cardinality(A)
  <2>1. A = B
    BY <1>4, <1>5
  <2> QED BY <2>1
<1>6. ASSUME at[r] \notin steps, at'[r] \in steps
      PROVE  Cardinality(B) = Cardinality(A) + 1
  <2>1. B = A \cup {r} /\ r \notin A
    BY <1>4, <1>6
  <2> QED BY <1>2, <2>1, FS_AddElement
<1>7. ASSUME at[r] \in steps, at'[r] \notin steps
      PROVE  Cardinality(A) = Cardinality(B) + 1
  <2>1. A = B \cup {r} /\ r \notin B
    BY <1>4, <1>7
  <2> QED BY <1>2, <2>1, FS_AddElement
<1> HIDE DEF A, B
<1> QED BY <1>1, <1>3, <1>5, <1>6, <1>7

Balanced(r) == Local(r) /\ CountersBalance'

LEMMA TakeAlertBalanced ==
    ASSUME TInv, CountersBalance, NEW r \in Requests, TakeAlert(r)
    PROVE  Balanced(r)
<1>1. /\ at[r] \in {"none", "next"} /\ at'[r] = "upsert"
      /\ left' = left /\ held' = held /\ finished' = finished /\ written' = written
  BY GotoTyped, Names DEF TakeAlert, tallies
<1>2. Local(r)
  <2>1. r \notin held
    BY <1>1, Same, Names
  <2> QED
    BY <1>1, <2>1, GotoTyped, CountTyped, Same, Names DEF TakeAlert, Local
<1>3. /\ counters'["received"] = counters["received"] + 1
      /\ \A other \in CounterNames \ {"received"} : counters'[other] = counters[other]
  BY CountTyped, Names DEF TakeAlert
<1>4. /\ InHand(AlertSteps) \in Nat /\ InHand(AlertSteps)' = InHand(AlertSteps) + 1
      /\ InHand({"record"})' = InHand({"record"})
  BY <1>1, <1>2, HandMoves DEF AlertSteps, AlertQueries
<1>5. CountersBalance'
  BY <1>1, <1>3, <1>4, Same, Names DEF CountersBalance
<1> QED BY <1>2, <1>5 DEF Balanced

LEMMA RecordBalanced ==
    ASSUME TInv, CountersBalance, NEW r \in Requests, Record(r)
    PROVE  Balanced(r)
<1>1. /\ at[r] = "record" /\ at'[r] \in {"next", "lookup"}
      /\ \/ at'[r] = "next" /\ finished' = finished + 1
         \/ at'[r] = "lookup" /\ finished' = finished
      /\ \/ written' = written + 1 /\ counters' = counters
         \/ written' = written /\ Count("historyWrite")
  BY NextDecisionTyped DEF Record, Ends
<1>2. Local(r)
  <2>1. written' \in Nat /\ counters' \in [CounterNames -> Nat]
    BY <1>1, CountTyped, Same, Names
  <2>2. faults' \in 0..MaxFaults
    BY EndsFaults DEF Record
  <2> QED
    BY <1>1, <2>1, <2>2, NextDecisionTyped, Names DEF Record, Ends, Released, Local
<1>3. /\ InHand(AlertSteps) \in Nat /\ InHand(AlertSteps)' \in Nat
      /\ at'[r] = "next" => InHand(AlertSteps) = InHand(AlertSteps)' + 1
      /\ at'[r] = "lookup" => InHand(AlertSteps)' = InHand(AlertSteps)
      /\ InHand({"record"}) \in Nat /\ InHand({"record"})' \in Nat
      /\ InHand({"record"}) = InHand({"record"})' + 1
  BY <1>1, <1>2, HandMoves DEF AlertSteps, AlertQueries
<1>4. CountersBalance'
  <2>1. CASE written' = written + 1 /\ counters' = counters
    BY <1>1, <1>3, <2>1, Same, Names DEF CountersBalance
  <2>2. CASE written' = written /\ Count("historyWrite")
    <3>1. /\ counters'["historyWrite"] = counters["historyWrite"] + 1
          /\ \A other \in CounterNames \ {"historyWrite"} : counters'[other] = counters[other]
      BY <2>2, CountTyped, Names
    <3> QED BY <1>1, <1>3, <2>2, <3>1, Same, Names DEF CountersBalance
  <2> QED BY <1>1, <2>1, <2>2
<1> QED BY <1>2, <1>4 DEF Balanced

\* Steps the counters do not see.
LEMMA UncountedBalanced ==
    ASSUME TInv, CountersBalance, NEW r \in Requests, Local(r),
           counters' = counters, finished' = finished, written' = written,
           at[r] \in AlertSteps <=> at'[r] \in AlertSteps,
           at[r] # "record", at'[r] # "record"
    PROVE  Balanced(r)
<1>1. InHand(AlertSteps)' = InHand(AlertSteps) /\ InHand({"record"})' = InHand({"record"})
  BY HandMoves
<1>2. CountersBalance'
  BY <1>1 DEF CountersBalance
<1> QED BY <1>2 DEF Balanced

LEMMA EndBatchBalanced ==
    ASSUME TInv, CountersBalance, NEW r \in Requests, EndBatch(r)
    PROVE  Balanced(r)
<1>1. at[r] = "next" /\ at'[r] = "none"
  BY GotoTyped, Names DEF EndBatch
<1>2. Local(r)
  <2>1. r \notin held
    BY <1>1, Same, Names
  <2> QED
    BY <1>1, <2>1, GotoTyped, Same, Names DEF EndBatch, Local, tallies
<1> QED
  BY <1>1, <1>2, UncountedBalanced DEF EndBatch, AlertSteps, AlertQueries, tallies

LEMMA OpenPageBalanced ==
    ASSUME TInv, CountersBalance, NEW r \in Requests, OpenPage(r)
    PROVE  Balanced(r)
<1>1. at[r] = "none" /\ at'[r] = "list"
  BY GotoTyped, Names DEF OpenPage
<1>2. Local(r)
  <2>1. r \notin held
    BY <1>1, Same, Names
  <2> QED
    BY <1>1, <2>1, GotoTyped, Same, Names DEF OpenPage, Local, tallies
<1> QED
  BY <1>1, <1>2, UncountedBalanced DEF OpenPage, AlertSteps, AlertQueries, tallies

LEMMA UpsertBalanced ==
    ASSUME TInv, CountersBalance, NEW r \in Requests, Upsert(r)
    PROVE  Balanced(r)
<1>1. at[r] = "upsert" /\ at'[r] = "mutes"
  BY GotoTyped, Names DEF Upsert, Ends
<1>2. Local(r)
  <2>1. faults' \in 0..MaxFaults
    BY EndsFaults DEF Upsert
  <2> QED
    BY <1>1, <2>1, GotoTyped, Same, Names DEF Upsert, Ends, Released, Local, tallies
<1> QED
  BY <1>1, <1>2, UncountedBalanced DEF Upsert, AlertSteps, AlertQueries, tallies

LEMMA ListMutesBalanced ==
    ASSUME TInv, CountersBalance, NEW r \in Requests, ListMutes(r)
    PROVE  Balanced(r)
<1>1. PICK n \in 0..PageMutes : TurnPage(r, n)
  BY ServerBoundsAssumption DEF ListMutes
<1>2. n \in Nat
  BY <1>1, ServerBoundsAssumption
<1>3. at[r] = "list" /\ at'[r] \in {"none", "match"}
  BY <1>1, <1>2, TurnPageTyped DEF ListMutes, Ends
<1>4. Local(r)
  <2>1. faults' \in 0..MaxFaults
    BY EndsFaults DEF ListMutes
  <2> QED
    BY <1>1, <1>2, <2>1, TurnPageTyped, Same DEF ListMutes, Ends, Released, Local, tallies
<1> QED
  BY <1>3, <1>4, UncountedBalanced DEF ListMutes, AlertSteps, AlertQueries, tallies

LEMMA MatchAlertsBalanced ==
    ASSUME TInv, CountersBalance, NEW r \in Requests, MatchAlerts(r)
    PROVE  Balanced(r)
<1>1. at[r] = "match" /\ TurnPage(r, left[r] - 1)
  BY DEF MatchAlerts, Ends
<1>2. left[r] - 1 \in Nat
  BY <1>1, Same
<1>3. at'[r] \in {"none", "match"}
  BY <1>1, <1>2, TurnPageTyped
<1>4. Local(r)
  <2>1. faults' \in 0..MaxFaults
    BY EndsFaults DEF MatchAlerts
  <2> QED
    BY <1>1, <1>2, <2>1, TurnPageTyped, Same DEF MatchAlerts, Ends, Released, Local, tallies
<1> QED
  BY <1>1, <1>3, <1>4, UncountedBalanced DEF MatchAlerts, AlertSteps, AlertQueries, tallies

LEMMA PostBalanced ==
    ASSUME TInv, CountersBalance, NEW r \in Requests, Post(r)
    PROVE  Balanced(r)
<1>1. /\ at[r] = "post" /\ at'[r] = "record"
      /\ finished' = finished /\ written' = written
  BY GotoTyped, Names DEF Post, tallies
<1>2. PICK name \in {"success", "failure"} : Count(name)
  BY DEF Post, CountOutcome
<1>3. /\ counters' \in [CounterNames -> Nat]
      /\ counters'[name] = counters[name] + 1
      /\ \A other \in CounterNames \ {name} : counters'[other] = counters[other]
  BY <1>2, CountTyped, Names
<1>4. Local(r)
  <2>1. r \notin held
    BY <1>1, Same, Names
  <2> QED
    BY <1>1, <1>3, <2>1, GotoTyped, Same, Names DEF Post, Local
<1>5. /\ InHand({"record"}) \in Nat /\ InHand({"record"})' = InHand({"record"}) + 1
      /\ InHand(AlertSteps)' = InHand(AlertSteps)
  BY <1>1, <1>4, HandMoves DEF AlertSteps, AlertQueries
<1>6. counters'["success"] + counters'["failure"] = counters["success"] + counters["failure"] + 1
  BY <1>2, <1>3, Same, Names
<1>7. CountersBalance'
  BY <1>1, <1>2, <1>3, <1>5, <1>6, Same, Names DEF CountersBalance
<1> QED BY <1>4, <1>7 DEF Balanced

LEMMA CheckMutesBalanced ==
    ASSUME TInv, CountersBalance, NEW r \in Requests, CheckMutes(r)
    PROVE  Balanced(r)
<1>1. /\ at[r] = "mutes" /\ held' = held \ {r} /\ written' = written
      /\ UNCHANGED Rest
  BY DEF CheckMutes, Ends, Released
<1>2. faults' \in 0..MaxFaults
  BY EndsFaults DEF CheckMutes
<1>3. CASE Finish(r) /\ UNCHANGED counters
  <2>1. Local(r)
    BY <1>1, <1>2, <1>3, FinishTyped, Same DEF Local
  <2>2. /\ InHand(AlertSteps) \in Nat /\ InHand(AlertSteps)' \in Nat
        /\ InHand(AlertSteps) = InHand(AlertSteps)' + 1
        /\ InHand({"record"})' = InHand({"record"})
    BY <1>1, <1>3, <2>1, FinishTyped, HandMoves DEF AlertSteps, AlertQueries
  <2>3. CountersBalance'
    BY <1>1, <1>3, <2>2, FinishTyped, Same, Names DEF CountersBalance
  <2> QED BY <2>1, <2>3 DEF Balanced
<1>4. CASE /\ \E n \in 1..Fanout : Turns(r, n)
           /\ Goto(r, "lookup")
           /\ UNCHANGED <<counters, finished>>
  <2>1. PICK n \in Nat : Turns(r, n)
    BY <1>4, ServerBoundsAssumption
  <2>2. Local(r) /\ at'[r] = "lookup"
    BY <1>1, <1>2, <1>4, <2>1, GotoTyped, TurnsTyped, Same, Names DEF Local
  <2> QED
    BY <1>1, <1>4, <2>2, UncountedBalanced DEF AlertSteps, AlertQueries
<1>5. CASE Refuse(r) /\ Count("muteLookup")
  <2>1. /\ counters' \in [CounterNames -> Nat]
        /\ counters'["muteLookup"] = counters["muteLookup"] + 1
        /\ \A other \in CounterNames \ {"muteLookup"} : counters'[other] = counters[other]
    BY <1>5, CountTyped, Names
  <2>2. Local(r)
    BY <1>1, <1>2, <1>5, <2>1, RefuseTyped, Same DEF Local
  <2>3. /\ InHand(AlertSteps) \in Nat /\ InHand(AlertSteps)' \in Nat
        /\ InHand(AlertSteps) = InHand(AlertSteps)' + 1
        /\ InHand({"record"})' = InHand({"record"})
    BY <1>1, <1>5, <2>2, RefuseTyped, HandMoves DEF AlertSteps, AlertQueries
  <2>4. CountersBalance'
    BY <1>1, <1>5, <2>1, <2>3, RefuseTyped, Same, Names DEF CountersBalance
  <2> QED BY <2>2, <2>4 DEF Balanced
<1> QED BY <1>3, <1>4, <1>5 DEF CheckMutes

LEMMA LookUpBalanced ==
    ASSUME TInv, CountersBalance, NEW r \in Requests, LookUp(r)
    PROVE  Balanced(r)
<1>1. /\ at[r] = "lookup" /\ held' = held \ {r} /\ written' = written
      /\ UNCHANGED Rest
  BY DEF LookUp, Ends, Released
<1>2. faults' \in 0..MaxFaults
  BY EndsFaults DEF LookUp
<1>3. CASE NextDecision(r) /\ UNCHANGED counters
  <2>1. Local(r)
    BY <1>1, <1>2, <1>3, NextDecisionTyped, Same DEF Local
  <2>2. /\ InHand(AlertSteps) \in Nat /\ InHand(AlertSteps)' \in Nat
        /\ at'[r] = "next" => InHand(AlertSteps) = InHand(AlertSteps)' + 1
        /\ at'[r] = "lookup" => InHand(AlertSteps)' = InHand(AlertSteps)
        /\ InHand({"record"})' = InHand({"record"})
    BY <1>1, <1>3, <2>1, NextDecisionTyped, HandMoves DEF AlertSteps, AlertQueries
  <2>3. CountersBalance'
    BY <1>1, <1>3, <2>2, NextDecisionTyped, Same, Names DEF CountersBalance
  <2> QED BY <2>1, <2>3 DEF Balanced
<1>4. CASE Goto(r, "post") /\ UNCHANGED <<left, counters, finished>>
  <2>1. Local(r) /\ at'[r] = "post"
    BY <1>1, <1>2, <1>4, GotoTyped, Same, Names DEF Local
  <2> QED
    BY <1>1, <1>4, <2>1, UncountedBalanced DEF AlertSteps, AlertQueries
<1>5. CASE Refuse(r) /\ Count("historyLookup")
  <2>1. /\ counters' \in [CounterNames -> Nat]
        /\ counters'["historyLookup"] = counters["historyLookup"] + 1
        /\ \A other \in CounterNames \ {"historyLookup"} : counters'[other] = counters[other]
    BY <1>5, CountTyped, Names
  <2>2. Local(r)
    BY <1>1, <1>2, <1>5, <2>1, RefuseTyped, Same DEF Local
  <2>3. /\ InHand(AlertSteps) \in Nat /\ InHand(AlertSteps)' \in Nat
        /\ InHand(AlertSteps) = InHand(AlertSteps)' + 1
        /\ InHand({"record"})' = InHand({"record"})
    BY <1>1, <1>5, <2>2, RefuseTyped, HandMoves DEF AlertSteps, AlertQueries
  <2>4. CountersBalance'
    BY <1>1, <1>5, <2>1, <2>3, RefuseTyped, Same, Names DEF CountersBalance
  <2> QED BY <2>2, <2>4 DEF Balanced
<1> QED BY <1>3, <1>4, <1>5 DEF LookUp
-----------------------------------------------------------------------------
(* The invariant.                                                            *)

\* What checkSchema has found is there, and it was asked for everything before
\* the daemon serves.
SchemaFound ==
    /\ \A i \in 1..checked : RequiredTables[i] \in tables
    /\ stage \in {"serving", "draining"} => checked >= Len(RequiredTables)

\* After a clean shutdown nobody is at work any more.
NobodyLeft == exit = "clean" /\ stage = "closing" => \A r \in Requests : at[r] = "none"

IInv == TInv /\ CountersBalance /\ SchemaFound /\ NobodyLeft

LEMMA NobodyInHand ==
    ASSUME NEW steps, \A q \in Requests : at[q] \notin steps
    PROVE  InHand(steps) = 0
<1>1. {q \in Requests : at[q] \in steps} = {}
  OBVIOUS
<1> QED BY <1>1, FS_EmptySet DEF InHand

LEMMA TablesAre == {RequiredTables[i] : i \in DOMAIN RequiredTables} = {"mutes", "notifications", "alerts"}
                    /\ DOMAIN RequiredTables = 1..3 /\ Len(RequiredTables) = 3
                    /\ RequiredTables[1] = "mutes" /\ RequiredTables[2] = "notifications"
                    /\ RequiredTables[3] = "alerts"
  BY DEF RequiredTables

LEMMA InitIInv == Init => IInv
<1> SUFFICES ASSUME Init PROVE IInv
  OBVIOUS
<1>1. ServerTypeOK
  <2>1. Cardinality(held) = 0 /\ held = {}
    BY FS_EmptySet DEF Init
  <2> QED
    BY <2>1, ServerBoundsAssumption, PoolAssumption, TablesAre
    DEF Init, ServerTypeOK, Zero
<1>2. PagesHaveMutes
  BY DEF Init, PagesHaveMutes
<1>3. CountersBalance
  <2>1. InHand(AlertSteps) = 0 /\ InHand({"record"}) = 0
    BY NobodyInHand DEF Init, AlertSteps, AlertQueries
  <2> QED BY <2>1 DEF Init, CountersBalance, Zero, CounterNames
<1>4. SchemaFound /\ NobodyLeft
  BY DEF Init, SchemaFound, NobodyLeft
<1> QED BY <1>1, <1>2, <1>3, <1>4 DEF IInv, TInv

\* A step of the process that leaves the requests and the counters alone.
LEMMA QuietKeeps ==
    ASSUME TInv, CountersBalance, UNCHANGED <<requestVars, counters, tallies>>,
           tables' \subseteq {RequiredTables[i] : i \in DOMAIN RequiredTables},
           stage' \in {"starting", "checking", "serving", "draining", "closing", "stopped"},
           checked' \in 0..Len(RequiredTables), exit' \in {"none", "clean", "error"},
           faults' \in 0..MaxFaults, restarts' \in 0..MaxRestarts
    PROVE  TInv' /\ CountersBalance'
<1>1. TInv'
  BY DEF TInv, ServerTypeOK, PagesHaveMutes, requestVars, tallies
<1>2. CountersBalance'
  BY DEF CountersBalance, InHand, requestVars, tallies
<1> QED BY <1>1, <1>2

LEMMA ForgetKeeps ==
    ASSUME TInv, Forget, UNCHANGED tables, exit' \in {"none", "clean", "error"},
           faults' \in 0..MaxFaults, restarts' \in 0..MaxRestarts
    PROVE  TInv' /\ CountersBalance'
<1>1. TInv'
  <2>1. Cardinality(held') = 0 /\ held' = {}
    BY FS_EmptySet DEF Forget
  <2>2. checked' \in 0..Len(RequiredTables)
    BY TablesAre DEF Forget
  <2> QED
    BY <2>1, <2>2, PoolAssumption
    DEF TInv, ServerTypeOK, PagesHaveMutes, Forget, Zero
<1>2. CountersBalance'
  <2>1. {q \in Requests : at'[q] \in AlertSteps} = {} /\ {q \in Requests : at'[q] \in {"record"}} = {}
    BY DEF Forget, AlertSteps, AlertQueries
  <2>2. InHand(AlertSteps)' = 0 /\ InHand({"record"})' = 0
    BY <2>1, FS_EmptySet DEF InHand, AlertSteps, AlertQueries
  <2> QED BY <2>2 DEF Forget, CountersBalance, Zero, CounterNames
<1> QED BY <1>1, <1>2

LEMMA AcquireKeeps ==
    ASSUME TInv, CountersBalance, NEW r \in Requests, Acquire(r)
    PROVE  TInv' /\ CountersBalance'
<1>1. Cardinality(held \cup {r}) <= MaxOpenConns
  <2>1. /\ Cardinality(held) < MaxOpenConns /\ r \notin held
        /\ IsFiniteSet(held) /\ Cardinality(held) \in Nat
    BY HeldIsFinite DEF Acquire, Waiting, TInv
  <2>2. Cardinality(held \cup {r}) = Cardinality(held) + 1
    BY <2>1, FS_AddElement
  <2> QED BY <2>1, <2>2, PoolAssumption
<1>2. TInv'
  BY <1>1 DEF TInv, ServerTypeOK, PagesHaveMutes, Acquire, Waiting, processVars, boundVars, tallies
<1>3. CountersBalance'
  BY DEF Acquire, CountersBalance, InHand, tallies
<1> QED BY <1>2, <1>3

LEMMA RequestKeeps ==
    ASSUME IInv, NEW r \in Requests, Request(r)
    PROVE  IInv'
<1>1. TInv' /\ CountersBalance'
  <2>1. CASE Acquire(r)
    BY <2>1, AcquireKeeps DEF IInv
  <2>2. CASE ~Acquire(r)
    <3>1. Balanced(r)
      BY <2>2, TakeAlertBalanced, EndBatchBalanced, OpenPageBalanced, UpsertBalanced,
         CheckMutesBalanced, LookUpBalanced, RecordBalanced, ListMutesBalanced,
         MatchAlertsBalanced, PostBalanced
      DEF IInv, Request, DatabaseCall
    <3> QED BY <3>1, LocalKeepsTypes DEF Balanced, IInv
  <2> QED BY <2>1, <2>2
<1>2. UNCHANGED <<tables, stage, checked, exit>>
  BY DEF Request, DatabaseCall, TakeAlert, EndBatch, OpenPage, Acquire, Upsert, CheckMutes,
         LookUp, Record, ListMutes, MatchAlerts, Post, Rest, processVars
<1>3. SchemaFound'
  BY <1>2 DEF IInv, SchemaFound
\* In a process that is closing with everybody gone, nobody takes a step.
<1>4. stage = "closing" => at[r] # "none"
  BY DEF Request, DatabaseCall, TakeAlert, EndBatch, OpenPage, Acquire, Waiting, Upsert,
         CheckMutes, LookUp, Record, ListMutes, MatchAlerts, Post, Ends,
         DatabaseSteps, AlertQueries
<1>5. NobodyLeft'
  BY <1>2, <1>4 DEF IInv, NobodyLeft
<1> QED BY <1>1, <1>3, <1>5 DEF IInv

LEMMA ProcessKeeps ==
    ASSUME IInv,
           Migrate \/ Open \/ CheckTable \/ Serve \/ Signal \/ ListenFails \/ ShutDown
              \/ GraceOver \/ Restart
    PROVE  IInv'
<1>1. UNCHANGED <<requestVars, counters, tallies>>
  BY DEF Migrate, Open, CheckTable, Serve, Signal, ListenFails, ShutDown, GraceOver, Restart
<1>2. tables \subseteq tables' /\ tables' \subseteq {RequiredTables[i] : i \in DOMAIN RequiredTables}
  BY TablesAre
  DEF IInv, TInv, ServerTypeOK, Migrate, Open, CheckTable, Serve, Signal, ListenFails,
      ShutDown, GraceOver, Restart
<1>3. /\ stage' \in {"starting", "checking", "serving", "draining", "closing", "stopped"}
      /\ exit' \in {"none", "clean", "error"}
      /\ faults' \in 0..MaxFaults /\ restarts' \in 0..MaxRestarts
  BY ServerBoundsAssumption
  DEF IInv, TInv, ServerTypeOK, Migrate, Open, CheckTable, Serve, Signal, ListenFails,
      ShutDown, GraceOver, Restart, Enter, processVars, boundVars
<1>4. /\ checked' \in 0..Len(RequiredTables)
      /\ \A i \in 1..checked' : RequiredTables[i] \in tables'
      /\ stage' \in {"serving", "draining"} => checked' >= Len(RequiredTables)
  <2>1. checked \in 0..3 /\ \A i \in 1..checked : RequiredTables[i] \in tables'
    BY <1>2, TablesAre DEF IInv, TInv, ServerTypeOK, SchemaFound
  <2>2. CASE CheckTable
    BY <2>1, <2>2, TablesAre DEF CheckTable, SchemaChecked
  <2>3. CASE checked' = checked /\ ~CheckTable
    <3>1. stage' \in {"serving", "draining"} => checked >= 3
      BY <2>3, TablesAre
      DEF IInv, SchemaFound, Migrate, Open, Serve, Signal, ListenFails, ShutDown, GraceOver,
          Restart, Enter, SchemaChecked, processVars
    <3> QED BY <2>1, <2>3, <3>1, TablesAre
  <2>4. CheckTable \/ checked' = checked
    BY DEF Migrate, Open, Serve, Signal, ListenFails, ShutDown, GraceOver, Restart, processVars
  <2> QED BY <2>2, <2>3, <2>4
<1>5. NobodyLeft'
  <2>1. CASE ShutDown
    BY <1>1, <2>1 DEF NobodyLeft, ShutDown, Drained, requestVars
  <2>2. CASE ~ShutDown
    BY <1>1, <2>2
    DEF IInv, NobodyLeft, Migrate, Open, CheckTable, Serve, Signal, ListenFails, GraceOver,
        Restart, Enter, requestVars, processVars
  <2> QED BY <2>1, <2>2
<1>6. TInv' /\ CountersBalance'
  BY <1>1, <1>2, <1>3, <1>4, QuietKeeps DEF IInv
<1> QED BY <1>4, <1>5, <1>6 DEF IInv, SchemaFound

LEMMA EndKeeps ==
    ASSUME IInv, Exit \/ Crash
    PROVE  IInv'
<1>1. /\ Forget /\ UNCHANGED tables
      /\ exit' \in {"none", "clean", "error"}
      /\ faults' \in 0..MaxFaults /\ restarts' \in 0..MaxRestarts
  BY ServerBoundsAssumption DEF IInv, TInv, ServerTypeOK, Exit, Crash, boundVars
<1>2. TInv' /\ CountersBalance'
  BY <1>1, ForgetKeeps DEF IInv
<1>3. SchemaFound' /\ NobodyLeft'
  BY <1>1 DEF SchemaFound, NobodyLeft, Forget
<1> QED BY <1>2, <1>3 DEF IInv

LEMMA NextIInv == IInv /\ [Next]_vars => IInv'
<1> SUFFICES ASSUME IInv, [Next]_vars PROVE IInv'
  OBVIOUS
<1>1. CASE UNCHANGED vars
  <2>1. TInv' /\ CountersBalance'
    BY <1>1 DEF IInv, TInv, ServerTypeOK, PagesHaveMutes, CountersBalance, InHand, vars,
                processVars, requestVars, boundVars, tallies
  <2>2. SchemaFound' /\ NobodyLeft'
    BY <1>1 DEF IInv, SchemaFound, NobodyLeft, vars, processVars, requestVars
  <2> QED BY <2>1, <2>2 DEF IInv
<1>2. CASE \E r \in Requests : Request(r)
  BY <1>2, RequestKeeps
<1>3. CASE Migrate \/ Open \/ CheckTable \/ Serve \/ Signal \/ ListenFails \/ ShutDown
              \/ GraceOver \/ Restart
  BY <1>3, ProcessKeeps
<1>4. CASE Exit \/ Crash
  BY <1>4, EndKeeps
<1> QED BY <1>1, <1>2, <1>3, <1>4 DEF Next

LEMMA Invariant == Spec => []IInv
<1> QED BY InitIInv, NextIInv, PTL DEF Spec
-----------------------------------------------------------------------------
(* The theorems.                                                             *)

\* Every variable of Server keeps its type; in particular no more connections
\* are out than the pool has, and only requests in a statement hold one.
THEOREM ServerTypeCorrect == Spec => []ServerTypeOK
<1>1. IInv => ServerTypeOK
  BY DEF IInv, TInv
<1> QED BY <1>1, Invariant, PTL

\* The daemon never serves without a table its queries name, however starts,
\* failures, restarts and migrations are mixed.
THEOREM ServesWithSchemaAlways == Spec => []ServesWithSchema
<1>1. IInv => ServesWithSchema
  <2> SUFFICES ASSUME IInv, stage \in {"serving", "draining"}, NEW i \in DOMAIN RequiredTables
               PROVE  RequiredTables[i] \in tables
    BY DEF ServesWithSchema
  <2>1. i \in 1..checked
    BY TablesAre DEF IInv, TInv, ServerTypeOK, SchemaFound
  <2> QED BY <2>1 DEF IInv, SchemaFound
<1> QED BY <1>1, Invariant, PTL

\* The counters account for every alert received and every delivery made, for
\* any number of requests at once and whatever fails.
THEOREM CountersBalanceAlways == Spec => []CountersBalance
<1>1. IInv => CountersBalance
  BY DEF IInv
<1> QED BY <1>1, Invariant, PTL

\* A clean exit leaves nothing behind: nobody is at work, so the balance has
\* nothing in hand.
THEOREM CleanExitAlways == Spec => []CleanExit
<1>1. IInv => CleanExit
  <2> SUFFICES ASSUME IInv, exit = "clean", stage = "closing" PROVE CleanExit
    BY DEF CleanExit
  <2>1. InHand(AlertSteps) = 0 /\ InHand({"record"}) = 0
    BY NobodyInHand DEF IInv, NobodyLeft, AlertSteps, AlertQueries
  <2> QED BY <2>1, Same, Names DEF IInv, CountersBalance, CleanExit
<1> QED BY <1>1, Invariant, PTL
=============================================================================
