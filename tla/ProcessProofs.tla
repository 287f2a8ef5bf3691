--------------------------- MODULE ProcessProofs ---------------------------
(* Theorems about Process for any number of handlers, any rule list, any     *)
(* batches, mutes and faults: its types, what it promises about deliveries   *)
(* and mutes, and that it implements Delivery.                               *)
EXTENDS Process, RoutingProofs

InBatch == {"upsert", "mute", "evaluate", "lookup", "notify", "record"}
InLoop  == {"lookup", "notify", "record"}

\* A handler at work on an alert has one, and in the loop it has a decision.
Shape ==
    \A h \in Handlers :
        /\ pc[h] \in InBatch => queue[h] # <<>>
        /\ pc[h] \in InLoop => todo[h] # {}

TInv == TypeOK /\ Shape

-----------------------------------------------------------------------------
(* The helpers.                                                              *)

LEMMA RuleInHand ==
    ASSUME TypeOK, NEW h \in Handlers, todo[h] # {}
    PROVE  Rule(h) \in todo[h] /\ Rule(h) \in RuleIndexes
<1>1. todo[h] \in SUBSET Nat /\ todo[h] \subseteq RuleIndexes
  BY RulesAssumption DEF TypeOK, RuleIndexes
<1>2. \E i \in todo[h] : \A j \in todo[h] : i <= j
  BY <1>1, SmallestOf
<1> QED BY <1>1, <1>2 DEF Rule

LEMMA AlertInHand ==
    ASSUME TypeOK, NEW h \in Handlers, queue[h] # <<>>
    PROVE  /\ Current(h) \in Alerts
           /\ Fingerprint(Current(h)) \in LabelSets
           /\ Tail(queue[h]) \in Seq(Alerts)
<1>1. queue[h] \in Seq(Alerts)
  BY DEF TypeOK
<1>2. Current(h) \in Alerts /\ Tail(queue[h]) \in Seq(Alerts)
  BY <1>1 DEF Current
<1>3. ASSUME NEW a \in Alerts
      PROVE  Fingerprint(a) \in LabelSets
  BY DEF Fingerprint, Alerts
<1> QED BY <1>2, <1>3

LEMMA PairInHand ==
    ASSUME TypeOK, NEW h \in Handlers, queue[h] # <<>>, todo[h] # {}
    PROVE  PairOf(h) \in Pairs
<1>1. Rule(h) \in RuleIndexes /\ Fingerprint(Current(h)) \in LabelSets
  BY RuleInHand, AlertInHand
<1> QED BY <1>1 DEF PairOf, Pair, Pairs

LEMMA WantIsSent == \A h : Want(h) \in Sent
  BY DesiredIsSent DEF Want

LEMMA DecisionsAreIndexes == \A labels : Decisions(labels) \in SUBSET RuleIndexes
  BY DEF Decisions, DecisionsOf, RuleIndexes

LEMMA CoveringAreRows ==
    ASSUME TypeOK, NEW alert
    PROVE  Covering(alert) \in SUBSET MuteRows
  BY DEF Covering, TypeOK, MuteTypeOK

\* What every step that moves handler h on keeps of TInv, apart from the
\* tables: stated once for the three ways a turn of the loop can end.
Local(h) ==
    /\ pc' \in [Handlers -> {"idle", "upsert", "mute", "evaluate", "lookup",
                             "notify", "record", "ok", "error"}]
    /\ queue' \in [Handlers -> Seq(Alerts)]
    /\ now' \in [Handlers -> 0..clock]
    /\ todo' \in [Handlers -> SUBSET RuleIndexes]
    /\ held' \in [Handlers -> SUBSET MuteRows]
    /\ pc'[h] \in InBatch => queue'[h] # <<>>
    /\ pc'[h] \in InLoop => todo'[h] # {}
    /\ \A g \in Handlers \ {h} :
          pc'[g] = pc[g] /\ queue'[g] = queue[g] /\ todo'[g] = todo[g]

LEMMA FinishAlertLocal ==
    ASSUME TInv, NEW h \in Handlers, queue[h] # <<>>, FinishAlert(h)
    PROVE  Local(h)
<1>1. Tail(queue[h]) \in Seq(Alerts)
  BY AlertInHand DEF TInv
<1>2. Covering(Head(Tail(queue[h]))) \in SUBSET MuteRows
  BY CoveringAreRows DEF TInv
<1>3. clock \in Nat
  BY MaxClockAssumption DEF TInv, TypeOK, ClockTypeOK
<1>4. queue'[h] = Tail(queue[h]) /\ queue' \in [Handlers -> Seq(Alerts)]
  BY <1>1 DEF TInv, TypeOK, FinishAlert, StartNext
<1>5. /\ pc'[h] = IF Tail(queue[h]) = <<>> THEN "ok" ELSE "upsert"
      /\ pc' = [pc EXCEPT ![h] = pc'[h]]
  BY DEF TInv, TypeOK, FinishAlert, StartNext, Goto
<1>6. held' \in [Handlers -> SUBSET MuteRows]
  BY <1>2 DEF TInv, TypeOK, FinishAlert, StartNext
<1> QED
  BY <1>3, <1>4, <1>5, <1>6
  DEF TInv, TypeOK, Shape, FinishAlert, StartNext, Goto, Local, InBatch, InLoop

LEMMA AbortLocal ==
    ASSUME TInv, NEW h \in Handlers, Abort(h)
    PROVE  Local(h)
<1>1. clock \in Nat
  BY MaxClockAssumption DEF TInv, TypeOK, ClockTypeOK
<1>2. <<>> \in Seq(Alerts)
  OBVIOUS
<1> QED
  BY <1>1, <1>2 DEF TInv, TypeOK, Shape, Abort, Goto, Local, InBatch, InLoop

LEMMA NextDecisionLocal ==
    ASSUME TInv, NEW h \in Handlers, queue[h] # <<>>, NextDecision(h)
    PROVE  Local(h)
<1>1. CASE todo[h] \ {Rule(h)} = {}
  BY <1>1, FinishAlertLocal DEF NextDecision
<1>2. CASE todo[h] \ {Rule(h)} # {}
  <2>1. /\ todo' = [todo EXCEPT ![h] = todo[h] \ {Rule(h)}]
        /\ pc' = [pc EXCEPT ![h] = "lookup"]
        /\ queue' = queue /\ now' = now /\ held' = held
    BY <1>2 DEF NextDecision, Goto
  <2>2. todo[h] \ {Rule(h)} \in SUBSET RuleIndexes
    BY DEF TInv, TypeOK
  <2> QED
    BY <1>2, <2>1, <2>2 DEF TInv, TypeOK, Local, InBatch, InLoop
<1> QED BY <1>1, <1>2

\* The part of TypeOK that Local says nothing of.
RestTypeOK ==
    /\ ClockTypeOK /\ MuteTypeOK /\ AlertStoreTypeOK
    /\ live \in [Handlers -> BOOLEAN]
    /\ since \in [Handlers -> 0..clock]
    /\ status \in [Handlers -> Status \cup {None}]
    /\ told \in [Handlers -> [status : {"firing", "resolved", None},
                              alert  : {"firing", "resolved", None}]]
    /\ history \in [Pairs -> Status \cup {None}]
    /\ faults \in 0..MaxFaults
    /\ posted \subseteq Postings
    /\ last \in [Pairs -> Status \cup {None}]

LEMMA LocalRest ==
    ASSUME TInv, NEW h \in Handlers, Local(h), RestTypeOK', clock' = clock
    PROVE  TInv'
  BY DEF TInv, TypeOK, Shape, Local, RestTypeOK

LEMMA ClockIsNat == TypeOK => clock \in Nat
  BY MaxClockAssumption DEF TypeOK, ClockTypeOK

\* Faults are counted within their bound.
LEMMA FaultsCounted ==
    ASSUME TypeOK, NEW h \in Handlers, NEW kind,
           Fails(h, kind) \/ Succeeds(h) \/ Strike(kind)
    PROVE  faults' \in 0..MaxFaults
  BY FaultsAssumption DEF TypeOK, Fails, Succeeds, Strike

LEMMA UpsertedType ==
    ASSUME AlertStoreTypeOK, NEW alert \in Alerts, NEW t \in Nat
    PROVE  /\ DOMAIN Upserted(observed, alert, t) \subseteq LabelSets
           /\ Upserted(observed, alert, t)
                 \in [DOMAIN Upserted(observed, alert, t) -> AlertRows]
<1>1. Fingerprint(alert) \in LabelSets
  BY DEF Fingerprint, Alerts
<1>2. UpsertedRow(observed, alert, t) \in AlertRows
  BY DEF AlertStoreTypeOK, UpsertedRow, AlertRows, Alerts
<1> QED BY <1>1, <1>2 DEF AlertStoreTypeOK, Upserted

-----------------------------------------------------------------------------
(* Every step of a handler keeps the types.                                  *)

LEMMA AcceptTInv ==
    ASSUME TInv, NEW h \in Handlers, NEW batch \in Seq(Alerts), Accept(h, batch)
    PROVE  TInv'
<1>1. Local(h)
  <2>1. batch \in Seq(Alerts) /\ Covering(Head(batch)) \in SUBSET MuteRows
    BY CoveringAreRows DEF TInv
  <2> QED
    BY <2>1 DEF Accept, StartNext, Goto, TInv, TypeOK, Shape, Local, InBatch, InLoop
<1>2. RestTypeOK' /\ clock' = clock
  BY ClockIsNat
  DEF Accept, Stamp, TInv, TypeOK, RestTypeOK, muteVars, ClockTypeOK, MuteTypeOK,
      AlertStoreTypeOK
<1> QED BY <1>1, <1>2, LocalRest

LEMMA UpsertAlertTInv ==
    ASSUME TInv, NEW h \in Handlers, UpsertAlert(h)
    PROVE  TInv'
<1>1. queue[h] # <<>>
  BY DEF UpsertAlert, At, TInv, Shape, InBatch
<1>2. Local(h)
  BY <1>1 DEF UpsertAlert, Goto, ghosts, TInv, TypeOK, Shape, Local, InBatch, InLoop
<1>3. AlertStoreTypeOK'
  <2>1. CASE UNCHANGED observed
    BY <2>1 DEF TInv, TypeOK, AlertStoreTypeOK
  <2>2. CASE \E t \in since[h]..clock : observed' = Upserted(observed, Current(h), t)
    <3>1. PICK t \in since[h]..clock : observed' = Upserted(observed, Current(h), t)
      BY <2>2
    <3>2. t \in Nat /\ Current(h) \in Alerts
      BY <1>1, ClockIsNat, AlertInHand DEF TInv, TypeOK
    <3> QED BY <3>1, <3>2, UpsertedType DEF TInv, TypeOK, AlertStoreTypeOK
  <2> QED BY <2>1, <2>2 DEF UpsertAlert
<1>4. faults' \in 0..MaxFaults
  BY FaultsCounted DEF UpsertAlert, TInv
<1>5. RestTypeOK' /\ clock' = clock
  BY <1>3, <1>4, ClockIsNat
  DEF UpsertAlert, Stamp, ghosts, TInv, TypeOK, RestTypeOK, muteVars, ClockTypeOK,
      MuteTypeOK
<1> QED BY <1>2, <1>5, LocalRest

LEMMA CheckMutesTInv ==
    ASSUME TInv, NEW h \in Handlers, CheckMutes(h)
    PROVE  TInv'
<1>1. queue[h] # <<>>
  BY DEF CheckMutes, At, TInv, Shape, InBatch
<1>2. Local(h)
  <2>1. CASE FinishAlert(h)
    BY <1>1, <2>1, FinishAlertLocal
  <2>2. CASE Abort(h)
    BY <2>2, AbortLocal
  <2>3. CASE Goto(h, "evaluate") /\ UNCHANGED <<queue, now, todo, held>>
    BY <1>1, <2>3 DEF Goto, TInv, TypeOK, Local, InBatch, InLoop
  <2> QED BY <2>1, <2>2, <2>3 DEF CheckMutes
<1>3. faults' \in 0..MaxFaults
  BY FaultsCounted DEF CheckMutes, TInv
<1>4. RestTypeOK' /\ clock' = clock
  BY <1>3, ClockIsNat
  DEF CheckMutes, Stamp, TInv, TypeOK, RestTypeOK, muteVars, ClockTypeOK, MuteTypeOK,
      AlertStoreTypeOK
<1> QED BY <1>2, <1>4, LocalRest

LEMMA EvaluateTInv ==
    ASSUME TInv, NEW h \in Handlers, Evaluate(h)
    PROVE  TInv'
<1>1. queue[h] # <<>>
  BY DEF Evaluate, At, TInv, Shape, InBatch
<1>2. Local(h)
  <2>1. CASE FinishAlert(h)
    BY <1>1, <2>1, FinishAlertLocal
  <2>2. CASE ~FinishAlert(h)
    <3>1. PICK D \in SUBSET RuleIndexes :
            /\ D # {}
            /\ todo' = [todo EXCEPT ![h] = D]
            /\ now' = [now EXCEPT ![h] = clock]
            /\ pc' = [pc EXCEPT ![h] = "lookup"]
            /\ UNCHANGED <<queue, held>>
      BY <2>2, DecisionsAreIndexes DEF Evaluate, Goto
    <3> QED
      BY <1>1, <3>1, ClockIsNat DEF TInv, TypeOK, Local, InBatch, InLoop
  <2> QED BY <2>1, <2>2
<1>3. RestTypeOK' /\ clock' = clock
  BY ClockIsNat
  DEF Evaluate, Stamp, TInv, TypeOK, RestTypeOK, muteVars, ClockTypeOK, MuteTypeOK,
      AlertStoreTypeOK
<1> QED BY <1>2, <1>3, LocalRest

LEMMA LastAttemptTInv ==
    ASSUME TInv, NEW h \in Handlers, LastAttempt(h)
    PROVE  TInv'
<1>1. queue[h] # <<>> /\ todo[h] # {}
  BY DEF LastAttempt, At, TInv, Shape, InBatch, InLoop
<1>2. Local(h)
  <2>1. CASE NextDecision(h)
    BY <1>1, <2>1, NextDecisionLocal
  <2>2. CASE Abort(h)
    BY <2>2, AbortLocal
  <2>3. CASE Goto(h, "notify") /\ UNCHANGED <<queue, now, todo, held>>
    BY <1>1, <2>3 DEF Goto, TInv, TypeOK, Local, InBatch, InLoop
  <2> QED BY <2>1, <2>2, <2>3 DEF LastAttempt
<1>3. faults' \in 0..MaxFaults
  BY FaultsCounted DEF LastAttempt, TInv
<1>4. RestTypeOK' /\ clock' = clock
  BY <1>3, ClockIsNat
  DEF LastAttempt, Stamp, TInv, TypeOK, RestTypeOK, muteVars, ClockTypeOK, MuteTypeOK,
      AlertStoreTypeOK
<1> QED BY <1>2, <1>4, LocalRest

LEMMA OutcomeIsStatus == \A h : \A acked : Outcome(h, acked) \in Status
  BY WantIsSent, FailedIsNotSent DEF Outcome, Status

LEMMA NotifyTInv ==
    ASSUME TInv, NEW h \in Handlers, Notify(h)
    PROVE  TInv'
<1>1. queue[h] # <<>> /\ todo[h] # {}
  BY DEF Notify, At, TInv, Shape, InBatch, InLoop
<1>2. Local(h)
  BY <1>1 DEF Notify, Goto, TInv, TypeOK, Shape, Local, InBatch, InLoop
<1>3. PICK acked \in BOOLEAN :
        /\ PostEnds(h, acked)
        /\ status' = [status EXCEPT ![h] = Outcome(h, acked)]
        /\ last' = [last EXCEPT ![PairOf(h)] = Outcome(h, acked)]
        /\ posted' = posted \cup
              {[pair |-> PairOf(h), want |-> Want(h), acked |-> acked]}
  BY DEF Notify
<1>4. faults' \in 0..MaxFaults
  <2>1. CASE UNCHANGED faults
    BY <2>1 DEF TInv, TypeOK
  <2>2. CASE Fails(h, "webhook") \/ Succeeds(h)
    BY <2>2, FaultsCounted DEF TInv
  <2> QED BY <1>3, <2>1, <2>2 DEF PostEnds
<1>5. posted' \subseteq Postings
  BY <1>1, <1>3, PairInHand, WantIsSent DEF TInv, TypeOK, Postings
<1>6. status' \in [Handlers -> Status \cup {None}] /\ last' \in [Pairs -> Status \cup {None}]
  BY <1>3, OutcomeIsStatus DEF TInv, TypeOK
<1>7. told' \in [Handlers -> [status : {"firing", "resolved", None},
                              alert  : {"firing", "resolved", None}]]
  <2>1. \A a, t : AlertStatus(a, t) \in {"firing", "resolved"}
    BY DEF AlertStatus
  <2>2. PICK t1 \in since[h]..clock : \E t2 \in t1..clock :
          told' = [told EXCEPT ![h] = [status |-> AlertStatus(Current(h), t1),
                                       alert  |-> AlertStatus(Current(h), t2)]]
    BY DEF Notify
  <2> QED BY <2>1, <2>2 DEF TInv, TypeOK
<1>8. RestTypeOK' /\ clock' = clock
  BY <1>4, <1>5, <1>6, <1>7, ClockIsNat
  DEF Notify, Stamp, TInv, TypeOK, RestTypeOK, muteVars, ClockTypeOK, MuteTypeOK,
      AlertStoreTypeOK
<1> QED BY <1>2, <1>8, LocalRest

LEMMA RecordAttemptTInv ==
    ASSUME TInv, NEW h \in Handlers, RecordAttempt(h)
    PROVE  TInv'
<1>1. queue[h] # <<>> /\ todo[h] # {}
  BY DEF RecordAttempt, At, TInv, Shape, InBatch, InLoop
<1>2. Local(h)
  BY <1>1, NextDecisionLocal DEF RecordAttempt
<1>3. history' \in [Pairs -> Status \cup {None}]
  BY DEF RecordAttempt, Recorded, TInv, TypeOK
<1>4. faults' \in 0..MaxFaults
  BY FaultsCounted DEF RecordAttempt, TInv
<1>5. RestTypeOK' /\ clock' = clock
  BY <1>3, <1>4, ClockIsNat
  DEF RecordAttempt, Stamp, NothingTold, TInv, TypeOK, RestTypeOK, muteVars, ClockTypeOK,
      MuteTypeOK, AlertStoreTypeOK
<1> QED BY <1>2, <1>5, LocalRest

LEMMA LeaveTInv ==
    ASSUME TInv, NEW h \in Handlers, Leave(h), faults' \in 0..MaxFaults,
           UNCHANGED <<clock, muteVars, observed, history, posted, last>>
    PROVE  TInv'
<1>1. Local(h)
  <2>1. <<>> \in Seq(Alerts)
    OBVIOUS
  <2> QED
    BY <2>1, ClockIsNat DEF Leave, Goto, TInv, TypeOK, Shape, Local, InBatch, InLoop
<1>2. RestTypeOK' /\ clock' = clock
  BY ClockIsNat
  DEF Leave, NothingTold, TInv, TypeOK, RestTypeOK, muteVars, ClockTypeOK, MuteTypeOK,
      AlertStoreTypeOK
<1> QED BY <1>1, <1>2, LocalRest

LEMMA RespondTInv ==
    ASSUME TInv, NEW h \in Handlers, Respond(h)
    PROVE  TInv'
  BY LeaveTInv DEF Respond, TInv, TypeOK

LEMMA CrashTInv ==
    ASSUME TInv, NEW h \in Handlers, Crash(h)
    PROVE  TInv'
  BY LeaveTInv, FaultsCounted DEF Crash, TInv

LEMMA HangupTInv ==
    ASSUME TInv, NEW h \in Handlers, Cancel(h)
    PROVE  TInv'
<1>1. faults' \in 0..MaxFaults
  BY FaultsCounted DEF Cancel, TInv, TypeOK
<1>2. Hangup(h)
  BY DEF Cancel
<1> QED
  BY <1>1, <1>2
  DEF Hangup, ghosts, muteVars, TInv, TypeOK, Shape, ClockTypeOK, MuteTypeOK,
      AlertStoreTypeOK

-----------------------------------------------------------------------------
(* The surroundings keep the types.                                          *)

LEMMA TickTInv == TInv /\ Tick => TInv'
<1> SUFFICES ASSUME TInv, Tick PROVE TInv'
  OBVIOUS
<1>1. clock' \in 1..MaxClock /\ clock <= clock'
  BY MaxClockAssumption DEF Tick, ClockTick, TInv, TypeOK, ClockTypeOK
<1>2. since' \in [Handlers -> 0..clock'] /\ now' \in [Handlers -> 0..clock']
  <2>1. 0..clock \subseteq 0..clock'
    BY <1>1, ClockIsNat DEF TInv
  <2> QED BY <2>1 DEF Tick, processVars, locals, TInv, TypeOK
<1> QED
  BY <1>1, <1>2
  DEF Tick, processVars, locals, muteVars, TInv, TypeOK, Shape, ClockTypeOK,
      MuteTypeOK, AlertStoreTypeOK

\* What the operators' calls leave alone, and all TInv asks of them.
LEMMA OperatorsTInvFrom ==
    ASSUME TInv, MuteTypeOK', UNCHANGED <<clock, processVars>>,
           held' \in [Handlers -> SUBSET MuteRows]
    PROVE  TInv'
  BY DEF processVars, locals, TInv, TypeOK, Shape, ClockTypeOK, AlertStoreTypeOK

LEMMA OperatorsTInv == TInv /\ Operators => TInv'
<1> SUFFICES ASSUME TInv, Operators PROVE TInv'
  OBVIOUS
<1>1. MuteTypeOK /\ held \in [Handlers -> SUBSET MuteRows] /\ clock \in Nat
  BY ClockIsNat DEF TInv, TypeOK
<1>2. CASE CreateAnyMute
  <2>1. MuteTypeOK'
    BY <1>1, <1>2, MuteRequestsAssumption
    DEF CreateAnyMute, CreateMute, MuteTypeOK, MuteRows, MuteRequestRows
  <2> QED BY <1>1, <1>2, <2>1, OperatorsTInvFrom DEF CreateAnyMute
<1>3. CASE ExpireAnyCall
  <2>1. MuteTypeOK'
    BY <1>1, <1>3 DEF ExpireAnyCall, ExpireCall, MuteTypeOK
  <2> QED BY <1>1, <1>3, <2>1, OperatorsTInvFrom DEF ExpireAnyCall
<1>4. CASE ExpireAnyUpdate
  <2>1. PICK call \in expiring :
          /\ ExpireUpdate(call)
          /\ held' = [h \in Handlers |-> {m \in held[h] : m.id # call.id}]
    BY <1>4 DEF ExpireAnyUpdate
  <2>2. call.now \in Nat
    BY <1>1 DEF MuteTypeOK
  <2>3. MuteTypeOK'
    <3>1. \A m \in mutes : ExpiredRow(m, call) \in MuteRows
      BY <1>1, <2>2 DEF MuteTypeOK, ExpiredRow, MuteRows
    <3> QED BY <1>1, <2>1, <3>1 DEF ExpireUpdate, MuteTypeOK
  <2> QED BY <1>1, <1>4, <2>1, <2>3, OperatorsTInvFrom DEF ExpireAnyUpdate
<1>5. CASE ExpireAnyFail
  <2>1. MuteTypeOK'
    BY <1>1, <1>5 DEF ExpireAnyFail, ExpireFail, MuteTypeOK
  <2> QED BY <1>1, <1>5, <2>1, OperatorsTInvFrom DEF ExpireAnyFail
<1> QED BY <1>2, <1>3, <1>4, <1>5 DEF Operators

LEMMA InitTInv == Init => TInv
<1> SUFFICES ASSUME Init PROVE TInv
  OBVIOUS
<1>1. <<>> \in Seq(Alerts)
  OBVIOUS
<1>2. clock \in Nat /\ clock = 1 /\ 1 \in 1..MaxClock
  BY MaxClockAssumption DEF Init, ClockInit
<1>3. MuteTypeOK /\ AlertStoreTypeOK
  BY DEF Init, MuteInit, AlertStoreInit, MuteTypeOK, AlertStoreTypeOK
<1> QED
  BY <1>1, <1>2, <1>3, FaultsAssumption
  DEF Init, TInv, TypeOK, Shape, ClockTypeOK, NothingTold, InBatch, InLoop

-----------------------------------------------------------------------------
(* The steps, for requests that carry any alerts at all: what Process        *)
(* promises does not depend on what the senders post.                        *)

AnyAccept(h) == \E batch \in Seq(Alerts) : Accept(h, batch)

Environment(h) == Cancel(h) \/ Crash(h)

HandlerStep(h) == AnyAccept(h) \/ Process(h) \/ Environment(h)

ProcessStep == (\E h \in Handlers : HandlerStep(h)) \/ Operators \/ Tick

LEMMA NextIsProcessStep == [Next]_vars => [ProcessStep]_vars
<1>1. ASSUME NEW h \in Handlers, NEW batch \in Batches, Accept(h, batch)
      PROVE  AnyAccept(h)
  BY <1>1, BatchesAssumption DEF AnyAccept
<1> QED BY <1>1 DEF Next, ProcessStep, HandlerStep, Environment

LEMMA StepTInv == TInv /\ [ProcessStep]_vars => TInv'
<1> SUFFICES ASSUME TInv, [ProcessStep]_vars PROVE TInv'
  OBVIOUS
<1>1. ASSUME NEW h \in Handlers, AnyAccept(h)
      PROVE  TInv'
  BY <1>1, AcceptTInv DEF AnyAccept
<1>2. ASSUME NEW h \in Handlers, Process(h)
      PROVE  TInv'
  BY <1>2, UpsertAlertTInv, CheckMutesTInv, EvaluateTInv, LastAttemptTInv,
     NotifyTInv, RecordAttemptTInv, RespondTInv DEF Process
<1>3. ASSUME NEW h \in Handlers, Environment(h)
      PROVE  TInv'
  BY <1>3, HangupTInv, CrashTInv DEF Environment
<1>4. CASE Operators
  BY <1>4, OperatorsTInv
<1>5. CASE Tick
  BY <1>5, TickTInv
<1>6. CASE UNCHANGED vars
  BY <1>6
  DEF vars, locals, ghosts, muteVars, TInv, TypeOK, Shape, ClockTypeOK, MuteTypeOK,
      AlertStoreTypeOK
<1> QED BY <1>1, <1>2, <1>3, <1>4, <1>5, <1>6 DEF ProcessStep, HandlerStep

THEOREM TypeCorrect == Spec => []TypeOK
<1>1. Init => TInv
  BY InitTInv
<1>2. TInv /\ [Next]_vars => TInv'
  BY NextIsProcessStep, StepTInv
<1>3. TInv => TypeOK
  BY DEF TInv
<1> QED BY <1>1, <1>2, <1>3, PTL DEF Spec
-----------------------------------------------------------------------------
(* Safety.  Each invariant is a conjunction over the handlers of facts about *)
(* one handler's locals and the shared state, so a step is checked for the   *)
(* handler that takes it and every other handler keeps what it had.          *)

\* Handler g does not move.
Same(g) ==
    /\ pc'[g] = pc[g] /\ queue'[g] = queue[g] /\ now'[g] = now[g]
    /\ todo'[g] = todo[g] /\ status'[g] = status[g] /\ told'[g] = told[g]
    /\ since'[g] = since[g] /\ held'[g] = held[g]

LEMMA NextDecisionSame ==
    ASSUME TInv, NEW h \in Handlers, NEW g \in Handlers \ {h},
           NextDecision(h) \/ FinishAlert(h) \/ Abort(h)
    PROVE  /\ pc'[g] = pc[g] /\ queue'[g] = queue[g] /\ now'[g] = now[g]
           /\ todo'[g] = todo[g] /\ held'[g] = held[g]
<1>1. CASE FinishAlert(h)
  BY <1>1 DEF FinishAlert, StartNext, Goto, TInv, TypeOK
<1>2. CASE Abort(h)
  BY <1>2 DEF Abort, Goto, TInv, TypeOK
<1>3. CASE NextDecision(h) /\ ~FinishAlert(h)
  <2>1. /\ todo' = [todo EXCEPT ![h] = todo[h] \ {Rule(h)}]
        /\ pc' = [pc EXCEPT ![h] = "lookup"]
        /\ queue' = queue /\ now' = now /\ held' = held
    BY <1>3 DEF NextDecision, Goto
  <2> QED BY <2>1 DEF TInv, TypeOK
<1> QED BY <1>1, <1>2, <1>3

\* A handler's step touches its own locals only; it never forgets a POST and
\* leaves the mutes and the clock alone.
LEMMA HandlerStepSame ==
    ASSUME TInv, NEW h \in Handlers, HandlerStep(h)
    PROVE  /\ \A g \in Handlers \ {h} : Same(g)
           /\ posted \subseteq posted'
           /\ clock' = clock /\ mutes' = mutes
<1>1. ASSUME AnyAccept(h)
      PROVE  \A g \in Handlers \ {h} : Same(g)
  BY <1>1 DEF AnyAccept, Accept, StartNext, Goto, Stamp, Same, TInv, TypeOK
<1>2. ASSUME UpsertAlert(h)
      PROVE  \A g \in Handlers \ {h} : Same(g)
  BY <1>2 DEF UpsertAlert, Goto, Stamp, ghosts, Same, TInv, TypeOK
<1>3. ASSUME CheckMutes(h), NEW g \in Handlers \ {h}
      PROVE  Same(g)
  <2>1. CASE FinishAlert(h) \/ Abort(h)
    BY <1>3, <2>1, NextDecisionSame DEF CheckMutes, Stamp, Same, TInv, TypeOK
  <2>2. CASE ~(FinishAlert(h) \/ Abort(h))
    BY <1>3, <2>2 DEF CheckMutes, Goto, Stamp, Same, TInv, TypeOK
  <2> QED BY <2>1, <2>2
<1>4. ASSUME Evaluate(h), NEW g \in Handlers \ {h}
      PROVE  Same(g)
  <2>1. CASE FinishAlert(h)
    BY <1>4, <2>1, NextDecisionSame DEF Evaluate, Stamp, Same, TInv, TypeOK
  <2>2. CASE ~FinishAlert(h)
    BY <1>4, <2>2 DEF Evaluate, Goto, Stamp, Same, TInv, TypeOK
  <2> QED BY <2>1, <2>2
<1>5. ASSUME LastAttempt(h), NEW g \in Handlers \ {h}
      PROVE  Same(g)
  <2>1. CASE NextDecision(h) \/ Abort(h)
    BY <1>5, <2>1, NextDecisionSame DEF LastAttempt, Stamp, Same, TInv, TypeOK
  <2>2. CASE ~(NextDecision(h) \/ Abort(h))
    BY <1>5, <2>2 DEF LastAttempt, Goto, Stamp, Same, TInv, TypeOK
  <2> QED BY <2>1, <2>2
<1>6. ASSUME Notify(h), NEW g \in Handlers \ {h}
      PROVE  Same(g)
  <2>1. PICK t1 \in since[h]..clock, acked \in BOOLEAN : \E t2 \in t1..clock :
          /\ told' = [told EXCEPT ![h] = [status |-> AlertStatus(Current(h), t1),
                                          alert  |-> AlertStatus(Current(h), t2)]]
          /\ status' = [status EXCEPT ![h] = Outcome(h, acked)]
    BY <1>6 DEF Notify
  <2> QED BY <1>6, <2>1 DEF Notify, Goto, Stamp, Same, TInv, TypeOK
<1>7. ASSUME RecordAttempt(h), NEW g \in Handlers \ {h}
      PROVE  Same(g)
  BY <1>7, NextDecisionSame DEF RecordAttempt, Stamp, Same, TInv, TypeOK
<1>8. ASSUME Leave(h), NEW g \in Handlers \ {h}
      PROVE  Same(g)
  BY <1>8 DEF Leave, Goto, Same, TInv, TypeOK
<1>9. ASSUME Hangup(h), NEW g \in Handlers \ {h}
      PROVE  Same(g)
  BY <1>9 DEF Hangup, ghosts, Same
<1>10. posted \subseteq posted'
  BY DEF HandlerStep, AnyAccept, Accept, Process, UpsertAlert, CheckMutes, Evaluate, LastAttempt,
         Notify, RecordAttempt, Respond, Environment, Cancel, Crash, Hangup, ghosts
<1>11. clock' = clock /\ mutes' = mutes
  BY DEF HandlerStep, AnyAccept, Accept, Process, UpsertAlert, CheckMutes, Evaluate, LastAttempt,
         Notify, RecordAttempt, Respond, Environment, Cancel, Crash, Hangup, muteVars
<1> QED
  BY <1>1, <1>2, <1>3, <1>4, <1>5, <1>6, <1>7, <1>8, <1>9, <1>10, <1>11
  DEF HandlerStep, Process, Respond, Environment, Cancel, Crash

\* A step of the surroundings moves no handler; at most it lifts rows from held.
LEMMA OtherStepSame ==
    ASSUME TInv, Operators \/ Tick \/ UNCHANGED vars, NEW g \in Handlers
    PROVE  /\ pc'[g] = pc[g] /\ queue'[g] = queue[g] /\ now'[g] = now[g]
           /\ todo'[g] = todo[g] /\ status'[g] = status[g] /\ told'[g] = told[g]
           /\ since'[g] = since[g] /\ held'[g] \subseteq held[g]
           /\ posted' = posted /\ history' = history
  BY DEF Operators, CreateAnyMute, ExpireAnyCall, ExpireAnyUpdate, ExpireAnyFail,
         Tick, processVars, locals, vars, ghosts

-----------------------------------------------------------------------------
(* Deliveries.                                                               *)

Asked(p, w) == \E n \in posted : n.pair = p /\ n.want = w

\* An attempt about to be recorded as sent was acknowledged, and whatever its
\* outcome it was made.
AttemptInHand(h) ==
    At(h, "record") =>
        /\ Asked(PairOf(h), Want(h))
        /\ status[h] \in Sent =>
              [pair |-> PairOf(h), want |-> status[h], acked |-> TRUE] \in posted

\* The decisions the loop is through with have been asked for.
LoopSoFar(h) ==
    pc[h] \in InLoop =>
        \A i \in Decisions(Current(h).labels) \ todo[h] :
            Asked(Pair(i, Current(h)), Want(h))

DInv ==
    /\ SentIsAcked
    /\ \A h \in Handlers : AttemptInHand(h) /\ LoopSoFar(h)

\* Facts about POSTs outlast any step that leaves the handler where it is.
LEMMA DeliveryStays ==
    ASSUME DInv, posted \subseteq posted', NEW g \in Handlers,
           pc'[g] = pc[g], queue'[g] = queue[g], now'[g] = now[g],
           todo'[g] = todo[g], status'[g] = status[g]
    PROVE  AttemptInHand(g)' /\ LoopSoFar(g)'
<1>1. Current(g)' = Current(g) /\ Rule(g)' = Rule(g)
  BY DEF Current, Rule
<1>2. Want(g)' = Want(g) /\ PairOf(g)' = PairOf(g)
  BY <1>1 DEF Want, PairOf
<1>3. AttemptInHand(g) /\ LoopSoFar(g)
  BY DEF DInv
<1> QED
  BY <1>1, <1>2, <1>3 DEF AttemptInHand, LoopSoFar, Asked, At

LEMMA RecordedIsAsked ==
    ASSUME TInv, DInv, NEW h \in Handlers, queue[h] # <<>>, todo[h] # {}, Delivered(h)
    PROVE  Asked(PairOf(h), Want(h))
<1>1. PairOf(h) \in Pairs /\ history[PairOf(h)] \in Sent
  BY PairInHand, WantIsSent DEF TInv, Delivered
<1> QED
  BY <1>1 DEF DInv, SentIsAcked, Asked, Delivered

\* The turn of the loop that just ended was for a decision asked for.
LEMMA NextDecisionDelivery ==
    ASSUME TInv, DInv, NEW h \in Handlers, pc[h] \in InLoop, NextDecision(h),
           posted' = posted, Asked(PairOf(h), Want(h))
    PROVE  AttemptInHand(h)' /\ LoopSoFar(h)'
<1>1. CASE FinishAlert(h)
  <2>1. pc'[h] \in {"ok", "upsert"}
    BY <1>1 DEF FinishAlert, StartNext, Goto, TInv, TypeOK
  <2> QED BY <2>1 DEF AttemptInHand, LoopSoFar, InLoop, At
<1>2. CASE ~FinishAlert(h)
  <2>1. /\ todo' = [todo EXCEPT ![h] = todo[h] \ {Rule(h)}]
        /\ pc'[h] = "lookup" /\ queue' = queue /\ now' = now
    BY <1>2 DEF NextDecision, Goto, TInv, TypeOK
  <2>2. todo'[h] = todo[h] \ {Rule(h)}
    BY <2>1 DEF TInv, TypeOK
  <2>3. Current(h)' = Current(h) /\ Want(h)' = Want(h)
    BY <2>1 DEF Current, Want
  <2>4. LoopSoFar(h)'
    <3> SUFFICES ASSUME NEW i \in Decisions(Current(h).labels) \ todo'[h]
                 PROVE  Asked(Pair(i, Current(h)), Want(h))'
      BY <2>1, <2>3 DEF LoopSoFar, InLoop
    <3>1. Asked(Pair(i, Current(h)), Want(h))
      <4>1. CASE i = Rule(h)
        BY <4>1 DEF PairOf
      <4>2. CASE i # Rule(h)
        BY <2>2, <4>2 DEF DInv, LoopSoFar
      <4> QED BY <4>1, <4>2
    <3> QED BY <2>3, <3>1 DEF Asked
  <2> QED BY <2>1, <2>4 DEF AttemptInHand, At
<1> QED BY <1>1, <1>2

LEMMA OutOfLoop ==
    ASSUME NEW h \in Handlers, pc'[h] \notin InLoop
    PROVE  AttemptInHand(h)' /\ LoopSoFar(h)'
  BY DEF AttemptInHand, LoopSoFar, InLoop, At

LEMMA EvaluateDelivery ==
    ASSUME TInv, DInv, NEW h \in Handlers, Evaluate(h)
    PROVE  AttemptInHand(h)' /\ LoopSoFar(h)'
<1>1. CASE FinishAlert(h)
  <2>1. pc'[h] \notin InLoop
    BY <1>1 DEF FinishAlert, StartNext, Goto, InLoop, TInv, TypeOK
  <2> QED BY <2>1, OutOfLoop
<1>2. CASE ~FinishAlert(h)
  <2>1. /\ todo'[h] = Decisions(Current(h).labels)
        /\ pc'[h] = "lookup" /\ queue' = queue
    BY <1>2 DEF Evaluate, Goto, TInv, TypeOK
  <2> QED BY <2>1 DEF AttemptInHand, LoopSoFar, At, Current
<1> QED BY <1>1, <1>2

LEMMA LastAttemptDelivery ==
    ASSUME TInv, DInv, NEW h \in Handlers, LastAttempt(h)
    PROVE  AttemptInHand(h)' /\ LoopSoFar(h)'
<1>1. queue[h] # <<>> /\ todo[h] # {} /\ pc[h] \in InLoop /\ posted' = posted
  BY DEF LastAttempt, At, TInv, Shape, InBatch, InLoop
<1>2. CASE Delivered(h) /\ NextDecision(h)
  BY <1>1, <1>2, RecordedIsAsked, NextDecisionDelivery
<1>3. CASE Goto(h, "notify") /\ UNCHANGED <<queue, now, todo, held>>
  <2>1. pc'[h] = "notify" /\ Current(h)' = Current(h) /\ Want(h)' = Want(h)
    BY <1>3 DEF Goto, Current, Want, TInv, TypeOK
  <2> QED
    BY <1>1, <1>3, <2>1 DEF DInv, AttemptInHand, LoopSoFar, Asked, At
<1>4. CASE Abort(h)
  <2>1. pc'[h] \notin InLoop
    BY <1>4 DEF Abort, Goto, InLoop, TInv, TypeOK
  <2> QED BY <2>1, OutOfLoop
<1> QED BY <1>2, <1>3, <1>4 DEF LastAttempt

LEMMA NotifyDelivery ==
    ASSUME TInv, DInv, NEW h \in Handlers, Notify(h)
    PROVE  AttemptInHand(h)' /\ LoopSoFar(h)'
<1>1. pc[h] \in InLoop /\ pc'[h] = "record"
  BY DEF Notify, At, Goto, InLoop, TInv, TypeOK
<1>2. PICK acked \in BOOLEAN :
        /\ status' = [status EXCEPT ![h] = Outcome(h, acked)]
        /\ posted' = posted \cup
              {[pair |-> PairOf(h), want |-> Want(h), acked |-> acked]}
  BY DEF Notify
<1>3. /\ Current(h)' = Current(h) /\ Rule(h)' = Rule(h)
      /\ Want(h)' = Want(h) /\ PairOf(h)' = PairOf(h)
  BY DEF Notify, Current, Rule, Want, PairOf
<1>4. status'[h] = Outcome(h, acked)
  BY <1>2 DEF TInv, TypeOK
<1>5. Outcome(h, acked) \in Sent => acked = TRUE /\ Outcome(h, acked) = Want(h)
  <2>1. CASE acked = TRUE
    BY <2>1 DEF Outcome
  <2>2. CASE acked = FALSE
    BY <2>2, WantIsSent, FailedIsNotSent DEF Outcome
  <2> QED BY <2>1, <2>2
<1>6. AttemptInHand(h)'
  <2> DEFINE n == [pair |-> PairOf(h), want |-> Want(h), acked |-> acked]
  <2>1. n \in posted' /\ n.pair = PairOf(h) /\ n.want = Want(h)
    BY <1>2
  <2>2. Asked(PairOf(h), Want(h))'
    BY <1>3, <2>1 DEF Asked
  <2>3. status'[h] \in Sent =>
          [pair |-> PairOf(h), want |-> status'[h], acked |-> TRUE] \in posted'
    <3> SUFFICES ASSUME status'[h] \in Sent
                 PROVE  [pair |-> PairOf(h), want |-> status'[h], acked |-> TRUE] = n
      BY <2>1
    <3>1. acked = TRUE /\ status'[h] = Want(h)
      BY <1>4, <1>5
    <3> QED BY <3>1
  <2> QED BY <1>3, <2>2, <2>3 DEF AttemptInHand
<1>7. LoopSoFar(h)'
  BY <1>1, <1>2, <1>3 DEF DInv, LoopSoFar, Asked, InLoop, Notify
<1> QED BY <1>6, <1>7

LEMMA RecordAttemptDelivery ==
    ASSUME TInv, DInv, NEW h \in Handlers, RecordAttempt(h)
    PROVE  /\ AttemptInHand(h)' /\ LoopSoFar(h)'
           /\ SentIsAcked'
<1>1. At(h, "record") /\ pc[h] \in InLoop /\ posted' = posted /\ NextDecision(h)
  BY DEF RecordAttempt, At, InLoop
<1>2. AttemptInHand(h)
  BY DEF DInv
<1>3. AttemptInHand(h)' /\ LoopSoFar(h)'
  BY <1>1, <1>2, NextDecisionDelivery DEF AttemptInHand
<1>4. SentIsAcked'
  <2>1. CASE UNCHANGED history
    BY <1>1, <2>1 DEF DInv, SentIsAcked
  <2>2. CASE history' = [history EXCEPT ![PairOf(h)] = status[h]]
    BY <1>1, <1>2, <2>2 DEF DInv, SentIsAcked, AttemptInHand, TInv, TypeOK
  <2> QED BY <2>1, <2>2 DEF RecordAttempt, Recorded
<1> QED BY <1>3, <1>4

LEMMA HandlerDelivery ==
    ASSUME TInv, DInv, NEW h \in Handlers, HandlerStep(h)
    PROVE  AttemptInHand(h)' /\ LoopSoFar(h)' /\ SentIsAcked'
<1>1. ASSUME AnyAccept(h)
      PROVE  AttemptInHand(h)' /\ LoopSoFar(h)'
  <2>1. pc'[h] \notin InLoop
    BY <1>1 DEF AnyAccept, Accept, StartNext, Goto, InLoop, TInv, TypeOK
  <2> QED BY <2>1, OutOfLoop
<1>2. CASE UpsertAlert(h)
  <2>1. pc'[h] \notin InLoop
    BY <1>2 DEF UpsertAlert, Goto, InLoop, TInv, TypeOK
  <2> QED BY <1>2, <2>1, OutOfLoop DEF UpsertAlert, ghosts, DInv, SentIsAcked
<1>3. CASE CheckMutes(h)
  <2>1. pc'[h] \notin InLoop
    BY <1>3 DEF CheckMutes, FinishAlert, StartNext, Abort, Goto, InLoop, TInv, TypeOK
  <2> QED BY <1>3, <2>1, OutOfLoop DEF CheckMutes, DInv, SentIsAcked
<1>4. CASE Evaluate(h)
  BY <1>4, EvaluateDelivery DEF Evaluate, DInv, SentIsAcked
<1>5. CASE LastAttempt(h)
  BY <1>5, LastAttemptDelivery DEF LastAttempt, DInv, SentIsAcked
<1>6. CASE Notify(h)
  BY <1>6, NotifyDelivery DEF Notify, DInv, SentIsAcked
<1>7. CASE RecordAttempt(h)
  BY <1>7, RecordAttemptDelivery
<1>8. CASE Respond(h) \/ Crash(h)
  <2>1. pc'[h] \notin InLoop
    BY <1>8 DEF Respond, Crash, Leave, Goto, InLoop, TInv, TypeOK
  <2> QED BY <1>8, <2>1, OutOfLoop DEF Respond, Crash, DInv, SentIsAcked
<1>9. CASE Cancel(h)
  <2>1. Hangup(h)
    BY <1>9 DEF Cancel
  <2> QED BY <2>1, DeliveryStays DEF Hangup, ghosts, DInv, SentIsAcked
<1> QED
  BY <1>1, <1>2, <1>3, <1>4, <1>5, <1>6, <1>7, <1>8, <1>9
  DEF HandlerStep, Process, Environment, AnyAccept, Accept, DInv, SentIsAcked

LEMMA StepDInv == TInv /\ DInv /\ [ProcessStep]_vars => DInv'
<1> SUFFICES ASSUME TInv, DInv, [ProcessStep]_vars PROVE DInv'
  OBVIOUS
<1>1. ASSUME NEW h \in Handlers, HandlerStep(h)
      PROVE  DInv'
  <2>1. AttemptInHand(h)' /\ LoopSoFar(h)' /\ SentIsAcked'
    BY <1>1, HandlerDelivery
  <2>2. ASSUME NEW g \in Handlers \ {h}
        PROVE  AttemptInHand(g)' /\ LoopSoFar(g)'
    BY <1>1, HandlerStepSame, DeliveryStays DEF Same
  <2> QED BY <2>1, <2>2 DEF DInv
<1>2. CASE Operators \/ Tick \/ UNCHANGED vars
  <2>1. ASSUME NEW g \in Handlers
        PROVE  AttemptInHand(g)' /\ LoopSoFar(g)'
    BY <1>2, OtherStepSame, DeliveryStays
  <2>2. SentIsAcked'
    BY <1>2
    DEF DInv, SentIsAcked, Operators, CreateAnyMute, ExpireAnyCall, ExpireAnyUpdate,
        ExpireAnyFail, Tick, processVars, locals, vars, ghosts
  <2> QED BY <2>1, <2>2 DEF DInv
<1> QED BY <1>1, <1>2 DEF ProcessStep

LEMMA InitDInv == Init => DInv
  BY DEF Init, DInv, SentIsAcked, AttemptInHand, LoopSoFar, InLoop, At, Sent, None

\* A status recorded as sent stands for a POST of that status that the receiver
\* of the pair acknowledged, whatever fails, crashes or runs side by side.
THEOREM SentIsAckedAlways == Spec => []SentIsAcked
<1>1. Init => TInv /\ DInv
  BY InitTInv, InitDInv
<1>2. TInv /\ DInv /\ [ProcessStep]_vars => TInv' /\ DInv'
  BY StepTInv, StepDInv
<1>3. DInv => SentIsAcked
  BY DEF DInv
<1> QED BY <1>1, <1>2, <1>3, NextIsProcessStep, PTL DEF Spec

LEMMA LastTurnAsked ==
    ASSUME TInv, DInv, NEW h \in Handlers, pc[h] \in InLoop, NextDecision(h),
           LoopEnds(h), posted \subseteq posted', Asked(PairOf(h), Want(h))
    PROVE  AllAsked(h)
<1>1. todo[h] \ {Rule(h)} = {}
  BY DEF NextDecision, Goto, LoopEnds, TInv, TypeOK
<1>2. ASSUME NEW i \in Decisions(Current(h).labels)
      PROVE  Asked(Pair(i, Current(h)), Want(h))
  <2>1. CASE i \in todo[h]
    BY <1>1, <2>1 DEF PairOf
  <2>2. CASE i \notin todo[h]
    BY <2>2 DEF DInv, LoopSoFar
  <2> QED BY <2>1, <2>2
<1> QED BY <1>2 DEF AllAsked, Asked

LEMMA FanOutStep ==
    ASSUME TInv, DInv, [ProcessStep]_vars, NEW h \in Handlers, LoopEnds(h)
    PROVE  AllAsked(h)
<1>1. pc'[h] # pc[h] /\ pc'[h] \in {"upsert", "ok"} /\ pc[h] \in {"lookup", "record"}
  BY DEF LoopEnds
<1>2. CASE LastAttempt(h)
  <2>1. queue[h] # <<>> /\ todo[h] # {} /\ pc[h] \in InLoop /\ posted' = posted
    BY <1>2 DEF LastAttempt, At, TInv, Shape, InBatch, InLoop
  <2>2. Delivered(h) /\ NextDecision(h)
    BY <1>1, <1>2 DEF LastAttempt, Abort, Goto, TInv, TypeOK
  <2> QED BY <2>1, <2>2, RecordedIsAsked, LastTurnAsked
<1>3. CASE RecordAttempt(h)
  <2>1. pc[h] \in InLoop /\ posted' = posted /\ NextDecision(h)
    BY <1>3 DEF RecordAttempt, At, InLoop
  <2>2. Asked(PairOf(h), Want(h))
    BY <1>3 DEF RecordAttempt, DInv, AttemptInHand
  <2> QED BY <2>1, <2>2, LastTurnAsked
<1>4. CASE \E g \in Handlers : g # h /\ HandlerStep(g)
  BY <1>1, <1>4, HandlerStepSame DEF Same
<1>5. CASE Operators \/ Tick \/ UNCHANGED vars
  BY <1>1, <1>5, OtherStepSame
<1>6. CASE HandlerStep(h) /\ ~LastAttempt(h) /\ ~RecordAttempt(h)
  BY <1>1, <1>6
  DEF HandlerStep, Process, Environment, AnyAccept, Accept, UpsertAlert, CheckMutes, Evaluate,
      Notify, Respond, Cancel, Hangup, Crash, Leave, At, Goto, TInv, TypeOK
<1> QED
  BY <1>2, <1>3, <1>4, <1>5, <1>6 DEF ProcessStep

\* Process never leaves an unmuted alert with a rule that applies to it and
\* whose status was never put to its receiver.
THEOREM FanOutCompleteAlways == Spec => FanOutComplete
<1>1. Init => TInv /\ DInv
  BY InitTInv, InitDInv
<1>2. TInv /\ DInv /\ [ProcessStep]_vars => TInv' /\ DInv'
  BY StepTInv, StepDInv
<1>3. TInv /\ DInv /\ [ProcessStep]_vars => [\A h \in Handlers : LoopEnds(h) => AllAsked(h)]_vars
  BY FanOutStep
<1> QED BY <1>1, <1>2, <1>3, NextIsProcessStep, PTL DEF Spec, FanOutComplete

-----------------------------------------------------------------------------
(* Mutes.                                                                    *)

\* Until the check a held row is in the table, started, and about this alert;
\* past the check it had run out by the time the handler had reached.
HeldInForce(h) ==
    /\ pc[h] \in {"upsert", "mute"} =>
          \A m \in held[h] :
              m \in mutes /\ m.startsAt <= since[h] /\ MatchesAlert(m, Current(h))
    /\ At(h, "evaluate") => \A m \in held[h] : m.endsAt < since[h]
    /\ pc[h] \in InLoop => \A m \in held[h] : m.endsAt < now[h]

MInv == \A h \in Handlers : HeldInForce(h)

LEMMA HeldStays ==
    ASSUME MInv, NEW g \in Handlers, pc'[g] = pc[g], queue'[g] = queue[g],
           now'[g] = now[g], since'[g] = since[g], held'[g] \subseteq held[g],
           \A m \in held'[g] : m \in mutes => m \in mutes'
    PROVE  HeldInForce(g)'
<1>1. Current(g)' = Current(g)
  BY DEF Current
<1> QED BY <1>1 DEF MInv, HeldInForce, At, MatchesAlert

\* A fresh alert is held by rows of the table, in force at this moment.
LEMMA StartNextHeld ==
    ASSUME TInv, NEW h \in Handlers, NEW rest, StartNext(h, rest), Stamp(h),
           mutes' = mutes
    PROVE  HeldInForce(h)'
<1>1. CASE rest = <<>>
  <2>1. pc'[h] = "ok"
    BY <1>1 DEF StartNext, Goto, TInv, TypeOK
  <2> QED BY <2>1 DEF HeldInForce, InLoop, At
<1>2. CASE rest # <<>>
  <2>1. /\ pc'[h] = "upsert" /\ queue'[h] = rest /\ since'[h] = clock
        /\ held'[h] = Covering(Head(rest))
    BY <1>2 DEF StartNext, Goto, Stamp, TInv, TypeOK
  <2>2. \A m \in Covering(Head(rest)) :
           m \in mutes /\ m.startsAt <= clock /\ MatchAll(m.matchers, Head(rest).labels)
    <3>1. \A m \in mutes : m.startsAt \in Nat /\ m.endsAt \in Nat
      BY DEF TInv, TypeOK, MuteTypeOK, MuteRows
    <3> QED BY <3>1, ClockIsNat DEF Covering, TInv
  <2>3. Current(h)' = Head(rest)
    BY <2>1 DEF Current
  <2> QED
    BY <2>1, <2>2, <2>3 DEF HeldInForce, InLoop, At, MatchesAlert
<1> QED BY <1>1, <1>2

LEMMA FinishAlertHeld ==
    ASSUME TInv, NEW h \in Handlers, FinishAlert(h), Stamp(h), mutes' = mutes
    PROVE  HeldInForce(h)'
  BY StartNextHeld DEF FinishAlert

LEMMA OutOfBatchHeld ==
    ASSUME NEW h \in Handlers, pc'[h] \notin InBatch
    PROVE  HeldInForce(h)'
  BY DEF HeldInForce, InBatch, InLoop, At

LEMMA NextDecisionHeld ==
    ASSUME TInv, MInv, NEW h \in Handlers, pc[h] \in InLoop, NextDecision(h), Stamp(h),
           mutes' = mutes
    PROVE  HeldInForce(h)'
<1>1. CASE FinishAlert(h)
  BY <1>1, FinishAlertHeld
<1>2. CASE ~FinishAlert(h)
  <2>1. pc'[h] = "lookup" /\ now' = now /\ held' = held
    BY <1>2 DEF NextDecision, Goto, TInv, TypeOK
  <2> QED BY <2>1 DEF MInv, HeldInForce, InLoop, At
<1> QED BY <1>1, <1>2

\* The check only lets an alert through when no row it finds in the table is in
\* force at a time no earlier than the alert's turn.
LEMMA CheckMutesHeld ==
    ASSUME TInv, MInv, NEW h \in Handlers, CheckMutes(h)
    PROVE  HeldInForce(h)'
<1>1. mutes' = mutes /\ Stamp(h) /\ At(h, "mute")
  BY DEF CheckMutes, muteVars
<1>2. CASE FinishAlert(h)
  BY <1>1, <1>2, FinishAlertHeld
<1>3. CASE Abort(h)
  <2>1. pc'[h] \notin InBatch
    BY <1>3 DEF Abort, Goto, InBatch, TInv, TypeOK
  <2> QED BY <2>1, OutOfBatchHeld
<1>4. CASE ~FinishAlert(h) /\ ~Abort(h)
  <2>1. PICK t \in since[h]..clock : ~Matches(Current(h), t)
    BY <1>4 DEF CheckMutes
  <2>2. pc'[h] = "evaluate" /\ held' = held
    BY <1>4 DEF CheckMutes, Goto, TInv, TypeOK
  <2>3. since'[h] = clock
    BY <1>1 DEF Stamp, TInv, TypeOK
  <2>4. ASSUME NEW m \in held[h]
        PROVE  m.endsAt < clock
    <3>1. m \in mutes /\ m.startsAt <= since[h] /\ MatchesAlert(m, Current(h))
      BY <1>1 DEF MInv, HeldInForce, At
    <3>2. m.startsAt \in Nat /\ m.endsAt \in Nat /\ since[h] \in Nat /\ clock \in Nat
      BY <3>1, ClockIsNat DEF TInv, TypeOK, MuteTypeOK, MuteRows
    <3>3. ~Active(m, t)
      BY <2>1, <3>1 DEF Matches, Matching
    <3> QED BY <2>1, <3>1, <3>2, <3>3 DEF Active
  <2> QED BY <2>2, <2>3, <2>4 DEF HeldInForce, InLoop, At
<1> QED BY <1>2, <1>3, <1>4

LEMMA EvaluateHeld ==
    ASSUME TInv, MInv, NEW h \in Handlers, Evaluate(h)
    PROVE  HeldInForce(h)'
<1>1. mutes' = mutes /\ Stamp(h) /\ At(h, "evaluate")
  BY DEF Evaluate, muteVars
<1>2. CASE FinishAlert(h)
  BY <1>1, <1>2, FinishAlertHeld
<1>3. CASE ~FinishAlert(h)
  <2>1. pc'[h] = "lookup" /\ held' = held /\ now'[h] = clock
    BY <1>3 DEF Evaluate, Goto, TInv, TypeOK
  <2>2. ASSUME NEW m \in held[h]
        PROVE  m.endsAt < clock
    <3>1. m.endsAt < since[h]
      BY <1>1 DEF MInv, HeldInForce, At
    <3>2. m.endsAt \in Nat /\ since[h] \in 0..clock /\ clock \in Nat
      BY ClockIsNat DEF TInv, TypeOK, MuteRows
    <3> QED BY <3>1, <3>2
  <2> QED BY <2>1, <2>2 DEF HeldInForce, InLoop, At
<1> QED BY <1>2, <1>3

LEMMA HandlerHeld ==
    ASSUME TInv, MInv, NEW h \in Handlers, HandlerStep(h)
    PROVE  HeldInForce(h)'
<1>0. mutes' = mutes
  BY HandlerStepSame
<1>1. ASSUME AnyAccept(h)
      PROVE  HeldInForce(h)'
  BY <1>0, <1>1, StartNextHeld DEF AnyAccept, Accept
<1>2. CASE UpsertAlert(h)
  <2>1. /\ pc[h] = "upsert" /\ pc'[h] = "mute" /\ queue' = queue /\ held' = held
        /\ since'[h] = clock
    BY <1>2 DEF UpsertAlert, At, Goto, Stamp, ghosts, TInv, TypeOK
  <2>2. ASSUME NEW m \in held[h]
        PROVE  m \in mutes /\ m.startsAt <= clock /\ MatchesAlert(m, Current(h))
    <3>1. m \in mutes /\ m.startsAt <= since[h] /\ MatchesAlert(m, Current(h))
      BY <2>1 DEF MInv, HeldInForce
    <3>2. m.startsAt \in Nat /\ since[h] \in 0..clock /\ clock \in Nat
      BY ClockIsNat DEF TInv, TypeOK, MuteRows
    <3> QED BY <3>1, <3>2
  <2>3. Current(h)' = Current(h)
    BY <2>1 DEF Current
  <2> QED
    BY <1>0, <2>1, <2>2, <2>3 DEF HeldInForce, InLoop, At, MatchesAlert
<1>3. CASE CheckMutes(h)
  BY <1>3, CheckMutesHeld
<1>4. CASE Evaluate(h)
  BY <1>4, EvaluateHeld
<1>5. CASE LastAttempt(h)
  <2>1. pc[h] \in InLoop /\ Stamp(h)
    BY <1>5 DEF LastAttempt, At, InLoop
  <2>2. CASE NextDecision(h)
    BY <1>0, <2>1, <2>2, NextDecisionHeld
  <2>3. CASE Goto(h, "notify") /\ UNCHANGED <<queue, now, todo, held>>
    BY <2>1, <2>3 DEF Goto, MInv, HeldInForce, InLoop, At, TInv, TypeOK
  <2>4. CASE Abort(h)
    <3>1. pc'[h] \notin InBatch
      BY <2>4 DEF Abort, Goto, InBatch, TInv, TypeOK
    <3> QED BY <3>1, OutOfBatchHeld
  <2> QED BY <1>5, <2>2, <2>3, <2>4 DEF LastAttempt
<1>6. CASE Notify(h)
  BY <1>6 DEF Notify, Goto, MInv, HeldInForce, InLoop, At, TInv, TypeOK
<1>7. CASE RecordAttempt(h)
  BY <1>0, <1>7, NextDecisionHeld DEF RecordAttempt, At, InLoop
<1>8. CASE Respond(h) \/ Crash(h)
  <2>1. pc'[h] \notin InBatch
    BY <1>8 DEF Respond, Crash, Leave, Goto, InBatch, TInv, TypeOK
  <2> QED BY <2>1, OutOfBatchHeld
<1>9. CASE Cancel(h)
  <2>1. Hangup(h)
    BY <1>9 DEF Cancel
  <2> QED BY <1>0, <2>1, HeldStays DEF Hangup, ghosts
<1> QED
  BY <1>1, <1>2, <1>3, <1>4, <1>5, <1>6, <1>7, <1>8, <1>9
  DEF HandlerStep, Process, Environment

\* A row leaves the table as it was only under the id an operator ended, and
\* rows of that id hold nothing any more.
LEMMA OtherHeld ==
    ASSUME TInv, MInv, Operators \/ Tick \/ UNCHANGED vars, NEW g \in Handlers
    PROVE  HeldInForce(g)'
<1>1. \A m \in held'[g] : m \in mutes => m \in mutes'
  <2>1. CASE ExpireAnyUpdate
    <3>1. PICK call \in expiring :
            /\ ExpireUpdate(call)
            /\ held' = [h \in Handlers |-> {m \in held[h] : m.id # call.id}]
      BY <2>1 DEF ExpireAnyUpdate
    <3>2. ASSUME NEW m \in held'[g], m \in mutes
          PROVE  m \in mutes'
      <4>1. ExpiredRow(m, call) = m
        BY <3>1, <3>2 DEF ExpiredRow
      <4> QED BY <3>1, <3>2, <4>1 DEF ExpireUpdate
    <3> QED BY <3>2
  <2>2. CASE CreateAnyMute
    BY <2>2 DEF CreateAnyMute, CreateMute
  <2>3. CASE ExpireAnyCall \/ ExpireAnyFail \/ Tick \/ UNCHANGED vars
    BY <2>3 DEF ExpireAnyCall, ExpireCall, ExpireAnyFail, ExpireFail, Tick, muteVars, vars
  <2> QED BY <2>1, <2>2, <2>3 DEF Operators
<1> QED BY <1>1, OtherStepSame, HeldStays

LEMMA StepMInv == TInv /\ MInv /\ [ProcessStep]_vars => MInv'
<1> SUFFICES ASSUME TInv, MInv, [ProcessStep]_vars PROVE MInv'
  OBVIOUS
<1>1. ASSUME NEW h \in Handlers, HandlerStep(h)
      PROVE  MInv'
  <2>1. HeldInForce(h)'
    BY <1>1, HandlerHeld
  <2>2. ASSUME NEW g \in Handlers \ {h}
        PROVE  HeldInForce(g)'
    BY <1>1, HandlerStepSame, HeldStays DEF Same
  <2> QED BY <2>1, <2>2 DEF MInv
<1>2. CASE Operators \/ Tick \/ UNCHANGED vars
  BY <1>2, OtherHeld DEF MInv
<1> QED BY <1>1, <1>2 DEF ProcessStep

\* No alert is notified while a mute that was in force when its turn came, and
\* that no operator ended, still runs.
THEOREM MuteRespectedAlways == Spec => []MuteRespected
<1>1. Init => TInv /\ MInv
  BY InitTInv DEF Init, MInv, HeldInForce, InLoop, At
<1>2. TInv /\ MInv /\ [ProcessStep]_vars => TInv' /\ MInv'
  BY StepTInv, StepMInv
<1>3. MInv => MuteRespected
  BY DEF MInv, HeldInForce, MuteRespected, InLoop
<1> QED BY <1>1, <1>2, <1>3, NextIsProcessStep, PTL DEF Spec

\* The mutes a check that began at since[h] may drop an alert for.
ReasonToDrop(h) ==
    \E m \in mutes :
        /\ MatchAll(m.matchers, Current(h).labels)
        /\ m.startsAt <= clock /\ since[h] <= m.endsAt

Drops(h) == At(h, "mute") /\ pc'[h] \in {"upsert", "ok"}

LEMMA CheckMutesDrops ==
    ASSUME TInv, NEW h \in Handlers, Drops(h), CheckMutes(h)
    PROVE  ReasonToDrop(h)
<1>1. PICK t \in since[h]..clock : Matches(Current(h), t)
  <2>1. pc'[h] \notin {"evaluate", "error"}
    BY DEF Drops
  <2> QED BY <2>1 DEF CheckMutes, Abort, Goto, TInv, TypeOK
<1>2. PICK m \in mutes : Active(m, t) /\ MatchAll(m.matchers, Current(h).labels)
  BY <1>1 DEF Matches, Matching, MatchesAlert
<1>3. /\ t \in Nat /\ since[h] <= t /\ t <= clock /\ since[h] \in Nat /\ clock \in Nat
      /\ m.startsAt \in Nat /\ m.endsAt \in Nat
  BY <1>1, <1>2, ClockIsNat DEF TInv, TypeOK, MuteTypeOK, MuteRows
<1>4. m.startsAt <= clock /\ since[h] <= m.endsAt
  BY <1>2, <1>3 DEF Active
<1> QED BY <1>2, <1>4 DEF ReasonToDrop

LEMMA DropStep ==
    ASSUME TInv, [ProcessStep]_vars, NEW h \in Handlers, Drops(h)
    PROVE  ReasonToDrop(h)
<1>1. pc[h] = "mute" /\ pc'[h] # pc[h] /\ pc'[h] \in {"upsert", "ok"}
  BY DEF Drops, At
<1>2. CASE CheckMutes(h)
  BY <1>2, CheckMutesDrops
<1>3. CASE \E g \in Handlers : g # h /\ HandlerStep(g)
  BY <1>1, <1>3, HandlerStepSame DEF Same
<1>4. CASE Operators \/ Tick \/ UNCHANGED vars
  BY <1>1, <1>4, OtherStepSame
<1>5. CASE HandlerStep(h) /\ ~CheckMutes(h)
  BY <1>1, <1>5
  DEF HandlerStep, Process, Environment, AnyAccept, Accept, UpsertAlert, Evaluate, LastAttempt,
      Notify, RecordAttempt, Respond, Cancel, Hangup, Crash, Leave, At, Goto,
      TInv, TypeOK
<1> QED
  BY <1>2, <1>3, <1>4, <1>5 DEF ProcessStep

\* The other direction: whatever creates and expires rows while a handler
\* checks, it drops an alert only for a row that covers it, had started, and had
\* not run out before the check began.
THEOREM SuppressedOnlyInForceAlways == Spec => SuppressedOnlyInForce
<1>1. TInv /\ [ProcessStep]_vars => [\A h \in Handlers : Drops(h) => ReasonToDrop(h)]_vars
  BY DropStep
<1> QED
  BY <1>1, InitTInv, StepTInv, NextIsProcessStep, PTL
  DEF Spec, SuppressedOnlyInForce, Drops, ReasonToDrop

-----------------------------------------------------------------------------
(* The two readings of the clock.                                            *)

\* The reading a payload is built from is no earlier than Process's own.
ClockOrder(h) ==
    /\ pc[h] \in InLoop => now[h] <= since[h]
    /\ At(h, "record") /\ Want(h) = "resolved-sent" =>
          told[h] = [status |-> "resolved", alert |-> "resolved"]

CInv == \A h \in Handlers : ClockOrder(h)

LEMMA ClockOrderStays ==
    ASSUME CInv, NEW g \in Handlers, pc'[g] = pc[g], queue'[g] = queue[g],
           now'[g] = now[g], since'[g] = since[g], told'[g] = told[g]
    PROVE  ClockOrder(g)'
<1>1. Want(g)' = Want(g)
  BY DEF Want, Current
<1> QED BY <1>1 DEF CInv, ClockOrder, At

LEMMA NextDecisionOrder ==
    ASSUME TInv, NEW h \in Handlers, NextDecision(h), Stamp(h)
    PROVE  ClockOrder(h)'
<1>1. CASE FinishAlert(h)
  <2>1. pc'[h] \notin InLoop
    BY <1>1 DEF FinishAlert, StartNext, Goto, InLoop, TInv, TypeOK
  <2> QED BY <2>1 DEF ClockOrder, InLoop, At
<1>2. CASE ~FinishAlert(h)
  <2>1. pc'[h] = "lookup" /\ now' = now /\ since'[h] = clock
    BY <1>2 DEF NextDecision, Goto, Stamp, TInv, TypeOK
  <2>2. now[h] <= clock
    BY ClockIsNat DEF TInv, TypeOK
  <2> QED BY <2>1, <2>2 DEF ClockOrder, InLoop, At
<1> QED BY <1>1, <1>2

LEMMA NotifyOrder ==
    ASSUME TInv, CInv, NEW h \in Handlers, Notify(h)
    PROVE  ClockOrder(h)'
<1>1. /\ pc[h] = "notify" /\ queue[h] # <<>> /\ now[h] <= since[h]
      /\ now' = now /\ queue' = queue /\ since'[h] = clock
  BY DEF Notify, At, Stamp, CInv, ClockOrder, InLoop, InBatch, TInv, TypeOK, Shape
<1>2. now[h] \in Nat /\ since[h] \in 0..clock /\ clock \in Nat /\ now[h] <= clock
  BY ClockIsNat DEF TInv, TypeOK
<1>3. PICK t1 \in since[h]..clock : \E t2 \in t1..clock :
        told' = [told EXCEPT ![h] = [status |-> AlertStatus(Current(h), t1),
                                     alert  |-> AlertStatus(Current(h), t2)]]
  BY DEF Notify
<1>4. PICK t2 \in t1..clock :
        told' = [told EXCEPT ![h] = [status |-> AlertStatus(Current(h), t1),
                                     alert  |-> AlertStatus(Current(h), t2)]]
  BY <1>3
<1>5. t1 \in Nat /\ t2 \in Nat /\ now[h] <= t1 /\ now[h] <= t2
  BY <1>1, <1>2, <1>3, <1>4
<1>6. ASSUME Want(h) = "resolved-sent"
      PROVE  told'[h] = [status |-> "resolved", alert |-> "resolved"]
  <2>1. Current(h) \in Alerts /\ Ended(Current(h), now[h])
    BY <1>1, <1>6, AlertInHand DEF Want, Desired, TInv
  <2>2. Ended(Current(h), t1) /\ Ended(Current(h), t2)
    BY <1>2, <1>5, <2>1, EndedStays
  <2> QED BY <1>4, <2>2 DEF AlertStatus, TInv, TypeOK
<1>7. Want(h)' = Want(h)
  BY <1>1 DEF Want, Current
<1> QED BY <1>1, <1>2, <1>6, <1>7 DEF ClockOrder

LEMMA OutOfLoopOrder ==
    ASSUME NEW h \in Handlers, pc'[h] \notin InLoop
    PROVE  ClockOrder(h)'
  BY DEF ClockOrder, InLoop, At

LEMMA HandlerOrder ==
    ASSUME TInv, CInv, NEW h \in Handlers, HandlerStep(h)
    PROVE  ClockOrder(h)'
<1>1. CASE Notify(h)
  BY <1>1, NotifyOrder
<1>2. CASE RecordAttempt(h)
  BY <1>2, NextDecisionOrder DEF RecordAttempt
<1>3. CASE LastAttempt(h)
  <2>1. CASE NextDecision(h)
    BY <1>3, <2>1, NextDecisionOrder DEF LastAttempt
  <2>2. CASE Goto(h, "notify") /\ UNCHANGED <<queue, now, todo, held>>
    <3>1. pc'[h] = "notify" /\ now' = now /\ since'[h] = clock /\ now[h] <= clock
      BY <1>3, <2>2, ClockIsNat DEF LastAttempt, Goto, Stamp, TInv, TypeOK
    <3> QED BY <3>1 DEF ClockOrder, At
  <2>3. CASE Abort(h)
    <3>1. pc'[h] \notin InLoop
      BY <2>3 DEF Abort, Goto, InLoop, TInv, TypeOK
    <3> QED BY <3>1, OutOfLoopOrder
  <2> QED BY <1>3, <2>1, <2>2, <2>3 DEF LastAttempt
<1>4. CASE Evaluate(h)
  <2>1. CASE FinishAlert(h)
    <3>1. pc'[h] \notin InLoop
      BY <2>1 DEF FinishAlert, StartNext, Goto, InLoop, TInv, TypeOK
    <3> QED BY <3>1, OutOfLoopOrder
  <2>2. CASE ~FinishAlert(h)
    <3>1. pc'[h] = "lookup" /\ now'[h] = clock /\ since'[h] = clock /\ clock \in Nat
      BY <1>4, <2>2, ClockIsNat DEF Evaluate, Goto, Stamp, TInv, TypeOK
    <3> QED BY <3>1 DEF ClockOrder, At
  <2> QED BY <2>1, <2>2
<1>5. CASE Cancel(h)
  <2>1. Hangup(h)
    BY <1>5 DEF Cancel
  <2> QED BY <2>1, ClockOrderStays DEF Hangup
<1>6. CASE AnyAccept(h) \/ UpsertAlert(h) \/ CheckMutes(h)
             \/ Respond(h) \/ Crash(h)
  <2>1. pc'[h] \notin InLoop
    BY <1>6
    DEF AnyAccept, Accept, UpsertAlert, CheckMutes, FinishAlert, StartNext, Abort, Respond, Crash,
        Leave, Goto, InLoop, TInv, TypeOK
  <2> QED BY <2>1, OutOfLoopOrder
<1> QED
  BY <1>1, <1>2, <1>3, <1>4, <1>5, <1>6 DEF HandlerStep, Process, Environment

LEMMA StepCInv == TInv /\ CInv /\ [ProcessStep]_vars => CInv'
<1> SUFFICES ASSUME TInv, CInv, [ProcessStep]_vars PROVE CInv'
  OBVIOUS
<1>1. ASSUME NEW h \in Handlers, HandlerStep(h)
      PROVE  CInv'
  <2>1. ClockOrder(h)'
    BY <1>1, HandlerOrder
  <2>2. ASSUME NEW g \in Handlers \ {h}
        PROVE  ClockOrder(g)'
    BY <1>1, HandlerStepSame, ClockOrderStays DEF Same
  <2> QED BY <2>1, <2>2 DEF CInv
<1>2. CASE Operators \/ Tick \/ UNCHANGED vars
  BY <1>2, OtherStepSame, ClockOrderStays DEF CInv
<1> QED BY <1>1, <1>2 DEF ProcessStep

\* An attempt recorded as resolved told its receiver so: the later readings of
\* the clock that fill the payload cannot undo the first.
THEOREM ResolvedIsToldResolvedAlways == Spec => []ResolvedIsToldResolved
<1>1. Init => TInv /\ CInv
  BY InitTInv DEF Init, CInv, ClockOrder, InLoop, At
<1>2. TInv /\ CInv /\ [ProcessStep]_vars => TInv' /\ CInv'
  BY StepTInv, StepCInv
<1>3. CInv => ResolvedIsToldResolved
  BY DEF CInv, ClockOrder, ResolvedIsToldResolved
<1> QED BY <1>1, <1>2, <1>3, NextIsProcessStep, PTL DEF Spec

-----------------------------------------------------------------------------
(* Process implements Delivery: every behaviour of the handlers, whatever    *)
(* the batches, mutes, faults and other handlers, is one that Delivery       *)
(* allows, step by step.                                                     *)

\* The refinement mapping, as in Promise.
Rows  == [p \in Pairs |-> OutcomeOf(history[p])]
Works == [h \in Handlers |-> WorkOf(h)]
AcksIn(posts) == {<<n.pair, WantOf(n.want)>> : n \in {m \in posts : m.acked}}
Acks  == AcksIn(posted)

IdleJob == [step |-> "idle"]

-----------------------------------------------------------------------------
(* Statuses and outcomes.                                                    *)

LEMMA WantOfSent ==
    ASSUME NEW s \in Sent
    PROVE  /\ WantOf(s) \in {"firing", "resolved"}
           /\ WantOf(Failed(s)) = WantOf(s)
           /\ Failed(s) \notin Sent
<1>1. CASE s = "firing-sent"
  BY <1>1 DEF Sent, WantOf, Failed
<1>2. CASE s = "resolved-sent"
  BY <1>2 DEF Sent, WantOf, Failed
<1> QED BY <1>1, <1>2 DEF Sent

LEMMA OutcomeOfNone == OutcomeOf(None) = [want |-> "none", delivered |-> FALSE]
<1>1. WantOf(None) = "none" /\ (None \in Sent) = FALSE
  BY DEF WantOf, None, Sent
<1> QED BY <1>1 DEF OutcomeOf

\* One more POST.
LEMMA AcksGrow ==
    ASSUME NEW posts, NEW post, post.acked
    PROVE  AcksIn(posts \cup {post}) =
             AcksIn(posts) \cup {<<post.pair, WantOf(post.want)>>}
<1>1. {m \in posts \cup {post} : m.acked} = {m \in posts : m.acked} \cup {post}
  OBVIOUS
<1> QED BY <1>1 DEF AcksIn

LEMMA AcksStay ==
    ASSUME NEW posts, NEW post, ~post.acked
    PROVE  AcksIn(posts \cup {post}) = AcksIn(posts)
<1>1. {m \in posts \cup {post} : m.acked} = {m \in posts : m.acked}
  OBVIOUS
<1> QED BY <1>1 DEF AcksIn

\* The table says delivered of a wish just when it holds the wished status.
LEMMA OutcomeTellsStatus ==
    ASSUME NEW s \in Status \cup {None}, NEW want \in Sent,
           OutcomeOf(s) = [want |-> WantOf(want), delivered |-> TRUE]
    PROVE  s = want
<1>1. s \in Sent /\ WantOf(s) = WantOf(want)
  BY DEF OutcomeOf
<1> QED BY <1>1 DEF Sent, WantOf

-----------------------------------------------------------------------------
(* The work of the handlers.                                                 *)

LEMMA WorkByPlace ==
    ASSUME NEW h
    PROVE  /\ pc[h] = "notify" =>
                WorkOf(h) = [step |-> "taken", key |-> PairOf(h),
                             want |-> WantOf(Want(h))]
           /\ pc[h] = "record" =>
                WorkOf(h) = [step |-> "attempted", key |-> PairOf(h),
                             outcome |-> OutcomeOf(status[h])]
           /\ pc[h] \notin {"notify", "record"} => WorkOf(h) = IdleJob
  BY DEF WorkOf, At, IdleJob

LEMMA WorkByPlaceNext ==
    ASSUME NEW h
    PROVE  /\ pc'[h] = "notify" =>
                WorkOf(h)' = [step |-> "taken", key |-> PairOf(h)',
                              want |-> WantOf(Want(h)')]
           /\ pc'[h] = "record" =>
                WorkOf(h)' = [step |-> "attempted", key |-> PairOf(h)',
                              outcome |-> OutcomeOf(status'[h])]
           /\ pc'[h] \notin {"notify", "record"} => WorkOf(h)' = IdleJob
  BY DEF WorkOf, At, IdleJob, WantOf, OutcomeOf

\* The pair and the wish depend on these locals only.
LEMMA InHandStays ==
    ASSUME NEW h, queue'[h] = queue[h], now'[h] = now[h], todo'[h] = todo[h]
    PROVE  PairOf(h)' = PairOf(h) /\ Want(h)' = Want(h)
<1>1. Current(h)' = Current(h) /\ Rule(h)' = Rule(h)
  BY DEF Current, Rule
<1> QED BY <1>1 DEF PairOf, Want

LEMMA WorkStays ==
    ASSUME NEW h, pc'[h] = pc[h], queue'[h] = queue[h], now'[h] = now[h],
           todo'[h] = todo[h], status'[h] = status[h]
    PROVE  WorkOf(h)' = WorkOf(h)
<1>1. PairOf(h)' = PairOf(h) /\ Want(h)' = Want(h)
  BY InHandStays
<1> QED
  BY <1>1, WorkByPlace, WorkByPlaceNext

\* A handler's step changes its own work only.
LEMMA WorksStep ==
    ASSUME TInv, NEW h \in Handlers, HandlerStep(h)
    PROVE  Works' = [Works EXCEPT ![h] = WorkOf(h)']
<1>1. ASSUME NEW g \in Handlers \ {h}
      PROVE  WorkOf(g)' = WorkOf(g)
  BY HandlerStepSame, WorkStays DEF Same
<1> QED BY <1>1 DEF Works

\* A handler that keeps its work, while the tables stay, is a stutter.
LEMMA StutterStep ==
    ASSUME TInv, NEW h \in Handlers, HandlerStep(h),
           WorkOf(h)' = WorkOf(h), history' = history, posted' = posted
    PROVE  UNCHANGED <<Rows, Works, Acks>>
<1>1. Works' = Works
  BY WorksStep DEF Works
<1> QED BY <1>1 DEF Rows, Acks, AcksIn

\* A handler that drops its work.
LEMMA LoseStep ==
    ASSUME TInv, NEW h \in Handlers, HandlerStep(h),
           WorkOf(h)' = IdleJob, history' = history, posted' = posted
    PROVE  Promise!Lose(h) \/ UNCHANGED <<Rows, Works, Acks>>
<1>1. CASE WorkOf(h) = IdleJob
  BY <1>1, StutterStep
<1>2. CASE WorkOf(h) # IdleJob
  <2>1. Works' = [Works EXCEPT ![h] = IdleJob]
    BY WorksStep
  <2>2. Works[h] # IdleJob
    BY <1>2 DEF Works
  <2> QED
    BY <2>1, <2>2 DEF Promise!Lose, Promise!Idle, Works, Rows, Acks, AcksIn, IdleJob
<1> QED BY <1>1, <1>2
-----------------------------------------------------------------------------
(* One lemma per step that has work in hand.                                 *)

LEMMA LastAttemptTakes ==
    ASSUME TInv, NEW h \in Handlers, LastAttempt(h)
    PROVE  Promise!Take(h) \/ UNCHANGED <<Rows, Works, Acks>>
<1>1. HandlerStep(h) /\ history' = history /\ posted' = posted /\ pc[h] = "lookup"
  BY DEF LastAttempt, HandlerStep, Process, At
<1>2. WorkOf(h) = IdleJob
  BY <1>1, WorkByPlace
<1>3. CASE pc'[h] \notin {"notify", "record"}
  <2>1. WorkOf(h)' = IdleJob
    BY <1>3, WorkByPlaceNext
  <2> QED BY <1>1, <1>2, <2>1, StutterStep
<1>4. CASE pc'[h] \in {"notify", "record"}
  <2>1. /\ ~Delivered(h) /\ Goto(h, "notify")
        /\ UNCHANGED <<queue, now, todo, held>>
    <3>1. ASSUME NextDecision(h) \/ Abort(h)
          PROVE  FALSE
      BY <1>4, <3>1
      DEF NextDecision, FinishAlert, StartNext, Abort, Goto, TInv, TypeOK
    <3> QED BY <3>1 DEF LastAttempt
  <2>2. pc'[h] = "notify"
    BY <2>1 DEF Goto, TInv, TypeOK
  <2>3. PairOf(h)' = PairOf(h) /\ Want(h)' = Want(h)
    BY <2>1, InHandStays
  <2>4. /\ PairOf(h) \in Pairs /\ Want(h) \in Sent
        /\ history[PairOf(h)] \in Status \cup {None}
    BY <1>1, PairInHand, WantIsSent DEF TInv, TypeOK, Shape, InBatch, InLoop
  <2> DEFINE job == [step |-> "taken", key |-> PairOf(h), want |-> WantOf(Want(h))]
  <2>5. WorkOf(h)' = job
    BY <2>2, <2>3, WorkByPlaceNext
  <2>6. job \in Promise!Jobs
    BY <2>4, WantOfSent DEF Promise!Jobs, Promise!Wants
  <2>7. Rows[PairOf(h)] # [want |-> WantOf(Want(h)), delivered |-> TRUE]
    BY <2>1, <2>4, OutcomeTellsStatus DEF Rows, Delivered
  <2>8. Works' = [Works EXCEPT ![h] = job] /\ Works'[h] = job /\ Works[h] = IdleJob
    BY <1>1, <1>2, <2>5, WorksStep DEF Works
  <2>9. Rows' = Rows /\ Acks' = Acks
    BY <1>1 DEF Rows, Acks, AcksIn
  <2>10. job.key = PairOf(h) /\ job.want = WantOf(Want(h))
    OBVIOUS
  <2> HIDE DEF job
  <2>11. Promise!Take(h)
    BY <2>6, <2>7, <2>8, <2>9, <2>10
    DEF Promise!Take, Promise!Idle, Works, Rows, Acks, AcksIn, IdleJob
  <2> QED BY <2>11
<1> QED BY <1>3, <1>4

LEMMA NotifyAttempts ==
    ASSUME TInv, NEW h \in Handlers, Notify(h)
    PROVE  Promise!Attempt(h)
<1>1. HandlerStep(h) /\ history' = history /\ pc[h] = "notify"
  BY DEF Notify, HandlerStep, Process, At
<1>2. PICK acked \in BOOLEAN :
        /\ status' = [status EXCEPT ![h] = Outcome(h, acked)]
        /\ posted' = posted \cup
              {[pair |-> PairOf(h), want |-> Want(h), acked |-> acked]}
  BY DEF Notify
<1>3. pc'[h] = "record" /\ status'[h] = Outcome(h, acked)
  BY <1>2 DEF Notify, Goto, TInv, TypeOK
<1>4. PairOf(h)' = PairOf(h) /\ Want(h) \in Sent
  BY InHandStays, WantIsSent DEF Notify
<1>5. /\ Works[h] = [step |-> "taken", key |-> PairOf(h), want |-> WantOf(Want(h))]
      /\ Works[h].step = "taken" /\ Works[h].key = PairOf(h)
      /\ Works[h].want = WantOf(Want(h))
  BY <1>1, WorkByPlace DEF Works
<1>6. OutcomeOf(status'[h]) = [want |-> WantOf(Want(h)), delivered |-> acked]
  BY <1>3, <1>4, WantOfSent DEF Outcome, OutcomeOf
<1>7. Works' = [Works EXCEPT ![h] =
                  [step |-> "attempted", key |-> PairOf(h),
                   outcome |-> [want |-> WantOf(Want(h)), delivered |-> acked]]]
  BY <1>1, <1>3, <1>4, <1>6, WorksStep, WorkByPlaceNext
<1>8. Rows' = Rows
  BY <1>1 DEF Rows
<1>9. Acks' = AcksIn(posted')
  BY DEF Acks, AcksIn, WantOf
<1> DEFINE post == [pair |-> PairOf(h), want |-> Want(h), acked |-> acked]
<1>10. /\ posted' = posted \cup {post}
       /\ post.pair = PairOf(h) /\ post.want = Want(h) /\ post.acked = acked
  BY <1>2
<1> HIDE DEF post
<1>11. CASE acked = TRUE
  <2>1. AcksIn(posted') = AcksIn(posted) \cup {<<PairOf(h), WantOf(Want(h))>>}
    <3>1. AcksIn(posted \cup {post}) =
            AcksIn(posted) \cup {<<post.pair, WantOf(post.want)>>}
      BY <1>10, <1>11, AcksGrow
    <3> QED BY <1>10, <3>1
  <2>2. Acks' = Acks \cup {<<PairOf(h), WantOf(Want(h))>>}
    BY <1>9, <2>1 DEF Acks
  <2> QED
    BY <1>5, <1>7, <1>8, <1>11, <2>2
    DEF Promise!Attempt, Promise!Attempted, Works, Rows, Acks, AcksIn
<1>12. CASE acked = FALSE
  <2>1. Acks' = Acks
    BY <1>9, <1>10, <1>12, AcksStay DEF Acks
  <2> QED
    BY <1>5, <1>7, <1>8, <1>12, <2>1
    DEF Promise!Attempt, Promise!Attempted, Works, Rows, Acks, AcksIn
<1> QED BY <1>11, <1>12

LEMMA RecordAttemptRecords ==
    ASSUME TInv, NEW h \in Handlers, RecordAttempt(h)
    PROVE  Promise!Record(h) \/ Promise!Lose(h) \/ UNCHANGED <<Rows, Works, Acks>>
<1>1. HandlerStep(h) /\ posted' = posted /\ pc[h] = "record"
  BY DEF RecordAttempt, HandlerStep, Process, At
<1>2. pc'[h] \notin {"notify", "record"}
  BY DEF RecordAttempt, NextDecision, FinishAlert, StartNext, Goto, TInv, TypeOK
<1>3. WorkOf(h)' = IdleJob
  BY <1>2, WorkByPlaceNext
<1>4. CASE history' = history
  BY <1>1, <1>3, <1>4, LoseStep
<1>5. CASE history' = Recorded(h)
  <2>1. PairOf(h) \in Pairs
    BY <1>1, PairInHand DEF TInv, Shape, InBatch, InLoop
  <2>2. /\ Works[h].step = "attempted" /\ Works[h].key = PairOf(h)
        /\ Works[h].outcome = OutcomeOf(status[h])
    BY <1>1, WorkByPlace DEF Works
  <2>3. history' = [history EXCEPT ![PairOf(h)] = status[h]]
    BY <1>5 DEF Recorded
  <2>4. ASSUME NEW p \in Pairs
        PROVE  Rows'[p] = IF p = PairOf(h) THEN OutcomeOf(status[h]) ELSE Rows[p]
    <3>1. history'[p] = IF p = PairOf(h) THEN status[h] ELSE history[p]
      BY <2>1, <2>3 DEF TInv, TypeOK
    <3> QED BY <3>1 DEF Rows, OutcomeOf, WantOf
  <2>5. Rows' = [Rows EXCEPT ![Works[h].key] = Works[h].outcome]
    BY <2>1, <2>2, <2>4 DEF Rows
  <2>6. Works' = [Works EXCEPT ![h] = IdleJob] /\ Acks' = Acks
    BY <1>1, <1>3, WorksStep DEF Acks, AcksIn
  <2>7. Promise!Record(h)
    BY <2>2, <2>5, <2>6 DEF Promise!Record, Promise!Idle, Works, Rows, Acks, AcksIn, IdleJob
  <2> QED BY <2>7
<1> QED BY <1>4, <1>5 DEF RecordAttempt

\* The steps that have no work in hand, before or after.
LEMMA OtherHandlerSteps ==
    ASSUME TInv, NEW h \in Handlers,
           \/ AnyAccept(h)
           \/ UpsertAlert(h) \/ CheckMutes(h) \/ Evaluate(h) \/ Respond(h)
    PROVE  UNCHANGED <<Rows, Works, Acks>>
<1>1. HandlerStep(h) /\ history' = history /\ posted' = posted
  BY DEF AnyAccept, Accept, UpsertAlert, CheckMutes, Evaluate, Respond, ghosts, HandlerStep,
         Process
<1>2. pc[h] \notin {"notify", "record"}
  BY DEF AnyAccept, Accept, UpsertAlert, CheckMutes, Evaluate, Respond, At
<1>3. pc'[h] \notin {"notify", "record"}
  BY DEF AnyAccept, Accept, UpsertAlert, CheckMutes, Evaluate, Respond, Leave, FinishAlert,
         StartNext, Abort, Goto, TInv, TypeOK
<1>4. WorkOf(h) = IdleJob /\ WorkOf(h)' = IdleJob
  BY <1>2, <1>3, WorkByPlace, WorkByPlaceNext
<1> QED BY <1>1, <1>4, StutterStep

LEMMA EnvironmentLoses ==
    ASSUME TInv, NEW h \in Handlers, Environment(h)
    PROVE  Promise!Lose(h) \/ UNCHANGED <<Rows, Works, Acks>>
<1>1. HandlerStep(h)
  BY DEF HandlerStep
<1>2. CASE Crash(h)
  <2>1. pc'[h] = "idle" /\ history' = history /\ posted' = posted
    BY <1>2 DEF Crash, Leave, Goto, TInv, TypeOK
  <2>2. WorkOf(h)' = IdleJob
    BY <2>1, WorkByPlaceNext
  <2> QED BY <1>1, <2>1, <2>2, LoseStep
<1>3. CASE Hangup(h)
  <2>1. /\ pc'[h] = pc[h] /\ queue'[h] = queue[h] /\ now'[h] = now[h]
        /\ todo'[h] = todo[h] /\ status'[h] = status[h]
        /\ history' = history /\ posted' = posted
    BY <1>3 DEF Hangup, ghosts
  <2>2. WorkOf(h)' = WorkOf(h)
    BY <2>1, WorkStays
  <2> QED BY <1>1, <2>1, <2>2, StutterStep
<1> QED BY <1>2, <1>3 DEF Environment, Cancel
-----------------------------------------------------------------------------
LEMMA InitMaps == Init => Promise!DeliveryInit
<1> SUFFICES ASSUME Init PROVE Promise!DeliveryInit
  OBVIOUS
<1>1. ASSUME NEW p \in Pairs
      PROVE  OutcomeOf(history[p]) = [want |-> "none", delivered |-> FALSE]
  BY OutcomeOfNone DEF Init
<1>2. ASSUME NEW h \in Handlers
      PROVE  WorkOf(h) = IdleJob
  BY WorkByPlace DEF Init
<1>3. Acks = {}
  BY DEF Init, Acks, AcksIn
<1> QED
  BY <1>1, <1>2, <1>3
  DEF Promise!DeliveryInit, Promise!NoAttempt, Promise!Idle, IdleJob, Acks, AcksIn

LEMMA StepMaps ==
    TInv /\ [ProcessStep]_vars => [Promise!DeliveryNext]_(Promise!deliveryVars)
<1> SUFFICES ASSUME TInv, [ProcessStep]_vars
             PROVE  Promise!DeliveryNext \/ UNCHANGED <<Rows, Works, Acks>>
  BY DEF Promise!deliveryVars, Rows, Works, Acks, AcksIn
<1>1. ASSUME NEW h \in Handlers, HandlerStep(h)
      PROVE  \/ Promise!Take(h) \/ Promise!Attempt(h) \/ Promise!Record(h)
             \/ Promise!Lose(h) \/ UNCHANGED <<Rows, Works, Acks>>
  BY <1>1, LastAttemptTakes, NotifyAttempts, RecordAttemptRecords, OtherHandlerSteps,
     EnvironmentLoses DEF HandlerStep, Process
<1>2. ASSUME Operators \/ Tick \/ UNCHANGED vars
      PROVE  UNCHANGED <<Rows, Works, Acks>>
  <2>1. history' = history /\ posted' = posted
    BY <1>2 DEF Operators, CreateAnyMute, ExpireAnyCall, ExpireAnyUpdate, ExpireAnyFail,
                Tick, processVars, vars, ghosts
  <2>2. ASSUME NEW h \in Handlers
        PROVE  WorkOf(h)' = WorkOf(h)
    BY <1>2, OtherStepSame, WorkStays
  <2> QED BY <2>1, <2>2 DEF Rows, Works, Acks, AcksIn
<1> QED
  BY <1>1, <1>2 DEF ProcessStep, Promise!DeliveryNext

\* The daemon keeps the promise of Delivery, for any number of handlers, any
\* rules, batches, mutes and faults: each handler attempts a pair only after it
\* found it open, and writes only how its own attempt ended.
THEOREM PromiseKept == Spec => KeepsPromise
<1>1. Init => TInv
  BY InitTInv
<1>2. TInv /\ [ProcessStep]_vars => TInv'
  BY StepTInv
<1> QED
  BY <1>1, <1>2, InitMaps, StepMaps, NextIsProcessStep, PTL
  DEF Spec, KeepsPromise, Promise!DeliverySpec
=============================================================================
