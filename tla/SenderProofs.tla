---------------------------- MODULE SenderProofs ----------------------------
(* What a Prometheus-like sender may count on, for any number of handlers,   *)
(* any rule list and any other alerts beside its own.                        *)
EXTENDS Sender, ProcessProofs

-----------------------------------------------------------------------------
(* The sender's steps are Process's, with pushes of the sender's own.        *)

SenderStep == [SenderNext]_<<vars, senderVars>>

SInv == TInv /\ SenderTypeOK

LEMMA SenderFacts ==
    ASSUME SInv
    PROVE  /\ clock \in Nat /\ clock \in 1..MaxClock /\ occurrence \in Nat
           /\ began \in Nat /\ ended \in Nat
           /\ settled \subseteq Nat
           /\ \A h \in Handlers :
                 carried[h].occurrence \in Nat /\ carried[h].over \in BOOLEAN
  BY ClockIsNat, SenderBoundsAssumption DEF SInv, TInv, SenderTypeOK, TypeOK, ClockTypeOK

LEMMA PushIsBatch ==
    ASSUME SInv
    PROVE  <<State>> \o Companions \in Seq(Alerts)
<1>1. State \in Alerts
  BY SenderFacts, WatchedAssumption, SenderBoundsAssumption DEF State, Alerts
<1> QED BY <1>1, WatchedAssumption

LEMMA HandleIsHandlerStep ==
    ASSUME NEW h, Handle(h)
    PROVE  HandlerStep(h)
  BY DEF Handle, HandlerStep, Environment

LEMMA OtherPushIsHandlerStep ==
    ASSUME NEW h, OtherPush(h)
    PROVE  HandlerStep(h)
  BY BatchesAssumption DEF OtherPush, HandlerStep, AnyAccept

LEMMA PushIsHandlerStep ==
    ASSUME SInv, NEW h, Push(h)
    PROVE  HandlerStep(h)
  BY PushIsBatch DEF Push, HandlerStep, AnyAccept

LEMMA SenderStepIsProcessStep == SInv /\ SenderStep => [ProcessStep]_vars
<1> SUFFICES ASSUME SInv, SenderStep PROVE [ProcessStep]_vars
  OBVIOUS
<1>1. CASE Fire \/ Resolve \/ UNCHANGED <<vars, senderVars>>
  BY <1>1 DEF Fire, Resolve
<1>2. ASSUME NEW h \in Handlers, Push(h) \/ OtherPush(h) \/ Handle(h)
      PROVE  ProcessStep
  BY <1>2, PushIsHandlerStep, OtherPushIsHandlerStep, HandleIsHandlerStep DEF ProcessStep
<1>3. CASE Operators \/ Tick
  BY <1>3 DEF ProcessStep
<1> QED BY <1>1, <1>2, <1>3 DEF SenderStep, SenderNext

LEMMA ClockForward ==
    ASSUME TInv, [ProcessStep]_vars
    PROVE  clock' \in Nat /\ clock <= clock'
<1>1. ASSUME NEW h \in Handlers, HandlerStep(h)
      PROVE  clock' = clock
  BY <1>1, HandlerStepSame
<1>2. CASE Operators \/ Tick \/ UNCHANGED vars
  BY <1>2, ClockIsNat
  DEF Operators, CreateAnyMute, ExpireAnyCall, ExpireAnyUpdate, ExpireAnyFail, Tick,
      ClockTick, vars, TInv
<1> QED BY <1>1, <1>2, ClockIsNat DEF ProcessStep, TInv

LEMMA InitSInv == SenderInit => SInv
<1> SUFFICES ASSUME SenderInit PROVE SInv
  OBVIOUS
<1>1. TInv /\ clock = 1
  BY InitTInv DEF SenderInit, Init, ClockInit
<1>2. TypeOK /\ began \in 0..clock /\ ended \in 0..clock
  BY <1>1 DEF TInv, SenderInit
<1>3. Nothing \in [occurrence : 0..MaxOccurrences, over : BOOLEAN]
  BY SenderBoundsAssumption DEF Nothing
<1>4. carried \in [Handlers -> [occurrence : 0..MaxOccurrences, over : BOOLEAN]]
  BY <1>3, Zenon DEF SenderInit
<1>5. firing \in BOOLEAN /\ occurrence = 0 /\ settled = {0} /\ heard = {}
  BY Zenon DEF SenderInit
<1>6. occurrence \in 0..MaxOccurrences /\ settled \subseteq 0..MaxOccurrences
  BY <1>5, SenderBoundsAssumption
<1> QED BY <1>1, <1>2, <1>4, <1>5, <1>6 DEF SInv, SenderTypeOK

\* What the sender's own steps do to its own variables.
LEMMA StepSenderTypes ==
    ASSUME SInv, SenderNext
    PROVE  /\ firing' \in BOOLEAN
           /\ occurrence' \in 0..MaxOccurrences
           /\ began' \in 0..clock /\ ended' \in 0..clock
           /\ carried' \in [Handlers -> [occurrence : 0..MaxOccurrences, over : BOOLEAN]]
           /\ settled' \subseteq 0..MaxOccurrences
           /\ heard' \subseteq Pairs
<1>0. SenderTypeOK /\ MaxOccurrences \in Nat /\ clock \in Nat
  BY SenderFacts, SenderBoundsAssumption DEF SInv
<1>1. ASSUME Fire \/ Resolve
      PROVE  /\ firing' \in BOOLEAN
             /\ occurrence' \in 0..MaxOccurrences
             /\ began' \in 0..clock /\ ended' \in 0..clock
             /\ carried' = carried /\ settled' = settled
             /\ heard' \subseteq heard
  <2>1. firing' \in BOOLEAN
    BY <1>1, Zenon DEF Fire, Resolve
  <2>2. \/ occurrence' = occurrence
        \/ occurrence < MaxOccurrences /\ occurrence' = occurrence + 1
    BY <1>1, Zenon DEF Fire, Resolve
  <2>3. /\ began' \in {began, clock} /\ ended' \in {ended, clock} /\ heard' \in {heard, {}}
        /\ carried' = carried /\ settled' = settled
    BY <1>1, Zenon DEF Fire, Resolve
  <2>4. occurrence \in 0..MaxOccurrences /\ began \in 0..clock /\ ended \in 0..clock
    BY <1>0 DEF SenderTypeOK
  <2> QED BY <1>0, <2>1, <2>2, <2>3, <2>4
<1>2. ASSUME NEW h \in Handlers, Push(h)
      PROVE  carried' \in [Handlers -> [occurrence : 0..MaxOccurrences, over : BOOLEAN]]
  BY <1>0, <1>2 DEF Push, SenderTypeOK
<1>3. ASSUME NEW h \in Handlers, Handle(h)
      PROVE  /\ carried' \in [Handlers -> [occurrence : 0..MaxOccurrences, over : BOOLEAN]]
             /\ settled' \subseteq 0..MaxOccurrences
             /\ heard' \subseteq Pairs
  <2>1. Announces(h) => PairOf(h) \in Pairs
    BY PairInHand DEF Announces, At, SInv, TInv, Shape, InBatch, InLoop
  <2>2. carried[h].occurrence \in 0..MaxOccurrences
    BY <1>0 DEF SenderTypeOK
  <2>3. carried' \in [Handlers -> [occurrence : 0..MaxOccurrences, over : BOOLEAN]]
    BY <1>0, <1>3 DEF Handle, Nothing, SenderTypeOK
  <2> QED BY <1>0, <1>3, <2>1, <2>2, <2>3 DEF Handle, SenderTypeOK
<1>4. CASE UNCHANGED senderVars
  BY <1>0, <1>4 DEF senderVars, SenderTypeOK
<1> QED
  BY <1>0, <1>1, <1>2, <1>3, <1>4
  DEF SenderNext, Push, OtherPush, Handle, Fire, Resolve, SenderTypeOK

LEMMA StepSInv == SInv /\ SenderStep => SInv'
<1> SUFFICES ASSUME SInv, SenderStep PROVE SInv'
  OBVIOUS
<1>1. TInv' /\ clock' \in Nat /\ clock <= clock' /\ clock \in Nat
  BY SenderStepIsProcessStep, StepTInv, ClockForward, SenderFacts DEF SInv
<1>2. CASE UNCHANGED <<vars, senderVars>>
  BY <1>1, <1>2 DEF senderVars, SInv, TInv, SenderTypeOK
<1>3. CASE SenderNext
  BY <1>1, <1>3, StepSenderTypes DEF SInv, TInv, SenderTypeOK
<1> QED BY <1>2, <1>3 DEF SenderStep

\* The sender's bookkeeping and Process's state keep their types together,
\* pushes of the sender's own included.
THEOREM SenderTypeCorrect == SenderSpec => []SenderTypeOK
<1>1. SInv => SenderTypeOK
  BY DEF SInv
<1> QED BY <1>1, InitSInv, StepSInv, PTL DEF SenderSpec, SenderStep

-----------------------------------------------------------------------------
(* The alert that fires again.                                               *)

\* Nobody else pushes the watched alert, and each push carries it once.
SoleSender ==
    /\ \A k \in DOMAIN Companions : Companions[k].labels # Watched
    /\ \A batch \in Batches : \A k \in DOMAIN batch : batch[k].labels # Watched

\* No operator asks for a mute that would cover it.
NeverMuted == \A req \in MuteRequests : ~MatchAll(req.matchers, Watched)

\* The database takes every row it is asked to write.
RecordsLand == "write" \notin Faults

Carries(h) == carried[h] # Nothing

\* The handler is at work on the watched alert, or on one of its companions.
OnWatched(h) == queue[h] # <<>> /\ CarriesWatched(h)

WatchedPair(i) == <<Rules[i].name, Watched>>

\* The history would not silence the next occurrence.
Open(i) == history[WatchedPair(i)] # "firing-sent"

\* One push at a time, each about an occurrence no older than the ones settled.
PushesInOrder ==
    /\ \A g, h \in Handlers : Carries(g) /\ Carries(h) => g = h
    /\ \A h \in Handlers : Carries(h) =>
          /\ pc[h] # "idle"
          /\ carried[h].occurrence \in 1..occurrence
          /\ carried[h].over => carried[h].occurrence < occurrence \/ ~firing
          /\ \A s \in settled :
                /\ s <= carried[h].occurrence
                /\ s = carried[h].occurrence => carried[h].over

OccurrencesInOrder ==
    /\ settled \subseteq 0..occurrence
    /\ firing => occurrence \notin settled
    /\ occurrence > 0 /\ ~firing => ended \in 1..clock

\* The watched alert is the first of its batch, and nobody's but the push's.
WatchedFirst(h) ==
    \A k \in DOMAIN queue[h] : queue[h][k].labels = Watched => k = 1 /\ Carries(h)

\* A push that says the alert is over asks for resolved-sent.
OverIsEnded(h) ==
    OnWatched(h) /\ carried[h].over =>
        /\ Ended(Current(h), clock)
        /\ pc[h] \in InLoop => Want(h) = "resolved-sent"

StatusOfWish(h) == At(h, "record") => status[h] \in {Want(h), Failed(Want(h))}

\* What the push that says so has done about the end of the occurrence.
EndSoFar(h) ==
    carried[h].over /\ live[h] =>
        /\ pc[h] = "ok" \/ (pc[h] \in InBatch /\ ~OnWatched(h)) =>
              \A i \in Decisions(Watched) : Open(i)
        /\ pc[h] \in InLoop /\ OnWatched(h) =>
              \A i \in Decisions(Watched) \ todo[h] : Open(i)

\* What a push about the present occurrence has announced.
ToldSoFar(h) ==
    /\ OnWatched(h) /\ ~carried[h].over /\ carried[h].occurrence = occurrence
    /\ pc[h] \in InLoop /\ Want(h) = "firing-sent"
    => /\ occurrence - 1 \in settled =>
             \A i \in Decisions(Watched) \ todo[h] : WatchedPair(i) \in heard
       /\ At(h, "record") => PairOf(h) \in heard

\* Once an end is settled no row says firing but by an announcement since.
RowsTellTruth ==
    /\ occurrence - 1 \in settled =>
          \A i \in Decisions(Watched) : Open(i) \/ WatchedPair(i) \in heard
    /\ occurrence \in settled => \A i \in Decisions(Watched) : Open(i)

Unmuted == \A m \in mutes : ~MatchAll(m.matchers, Watched)

OInv ==
    /\ PushesInOrder /\ OccurrencesInOrder /\ RowsTellTruth /\ Unmuted
    /\ \A h \in Handlers :
          /\ WatchedFirst(h) /\ OverIsEnded(h) /\ StatusOfWish(h)
          /\ EndSoFar(h) /\ ToldSoFar(h)

-----------------------------------------------------------------------------
(* What the watched alert's rows and the handlers' own facts rest on.        *)

HandlerOK(h) ==
    /\ WatchedFirst(h) /\ OverIsEnded(h) /\ StatusOfWish(h)
    /\ EndSoFar(h) /\ ToldSoFar(h)

LEMMA OInvParts ==
    OInv <=> /\ PushesInOrder /\ OccurrencesInOrder /\ RowsTellTruth /\ Unmuted
             /\ \A h \in Handlers : HandlerOK(h)
  BY DEF OInv, HandlerOK

LEMMA NothingIsOver == Nothing.over = FALSE /\ Nothing.occurrence = 0
  BY DEF Nothing

LEMMA OverCarries ==
    ASSUME NEW h, carried[h].over
    PROVE  Carries(h)
  BY NothingIsOver DEF Carries

\* At work on the watched alert is only the handler of the push.
LEMMA HeadIsWatched ==
    ASSUME SInv, NEW h \in Handlers, WatchedFirst(h), queue[h] # <<>>,
           Current(h).labels = Watched
    PROVE  OnWatched(h) /\ Carries(h)
<1>1. queue[h] \in Seq(Alerts)
  BY DEF SInv, TInv, TypeOK
<1>2. 1 \in DOMAIN queue[h] /\ Current(h) = queue[h][1]
  BY <1>1 DEF Current
<1> QED BY <1>2 DEF WatchedFirst, OnWatched, CarriesWatched, Carries

LEMMA PairInHandIsWatched ==
    ASSUME SInv, NEW h \in Handlers, WatchedFirst(h), queue[h] # <<>>,
           NEW i, PairOf(h) = WatchedPair(i)
    PROVE  OnWatched(h) /\ Carries(h)
<1>1. Current(h).labels = Watched
  BY DEF PairOf, Pair, WatchedPair, Fingerprint
<1> QED BY <1>1, HeadIsWatched

LEMMA OnWatchedPair ==
    ASSUME NEW h, OnWatched(h)
    PROVE  PairOf(h) = WatchedPair(Rule(h)) /\ Current(h).labels = Watched
  BY DEF OnWatched, CarriesWatched, PairOf, Pair, WatchedPair, Fingerprint

\* The rest of a batch has no watched alert.
LEMMA RestIsOther ==
    ASSUME SInv, NEW h \in Handlers, WatchedFirst(h), queue[h] # <<>>
    PROVE  \A k \in DOMAIN Tail(queue[h]) : Tail(queue[h])[k].labels # Watched
<1>1. queue[h] \in Seq(Alerts)
  BY DEF SInv, TInv, TypeOK
<1> SUFFICES ASSUME NEW k \in DOMAIN Tail(queue[h])
             PROVE  Tail(queue[h])[k].labels # Watched
  OBVIOUS
<1>2. k + 1 \in DOMAIN queue[h] /\ Tail(queue[h])[k] = queue[h][k + 1] /\ k + 1 # 1
  BY <1>1
<1> QED BY <1>2 DEF WatchedFirst

LEMMA EndedLater ==
    ASSUME NEW alert \in Alerts, NEW s \in Nat, NEW t \in Nat, s <= t, Ended(alert, s)
    PROVE  Ended(alert, t)
  BY DEF Ended, Alerts

-----------------------------------------------------------------------------
(* Where a handler can be after its step.                                    *)

\* Another alert has come up, or the batch is done.
LEMMA AfterFinish ==
    ASSUME SInv, NEW h \in Handlers, HandlerOK(h), queue[h] # <<>>, FinishAlert(h),
           carried'[h] = carried[h],
           carried[h].over /\ live'[h] => \A i \in Decisions(Watched) : Open(i)'
    PROVE  HandlerOK(h)'
<1>1. queue'[h] = Tail(queue[h]) /\ pc'[h] \in {"ok", "upsert"}
  BY DEF FinishAlert, StartNext, Goto, SInv, TInv, TypeOK
<1>2. \A k \in DOMAIN queue'[h] : queue'[h][k].labels # Watched
  BY <1>1, RestIsOther DEF HandlerOK
<1>3. ~OnWatched(h)'
  <2>1. CASE queue'[h] = <<>>
    BY <2>1 DEF OnWatched
  <2>2. CASE queue'[h] # <<>>
    <3>1. Tail(queue[h]) \in Seq(Alerts)
      BY AlertInHand DEF SInv, TInv
    <3>2. 1 \in DOMAIN queue'[h] /\ Head(queue'[h]) = queue'[h][1]
      BY <1>1, <2>2, <3>1
    <3> QED BY <1>2, <3>2 DEF OnWatched, CarriesWatched, Current
  <2> QED BY <2>1, <2>2
<1> QED
  BY <1>1, <1>2, <1>3
  DEF HandlerOK, WatchedFirst, OverIsEnded, StatusOfWish, EndSoFar, ToldSoFar, InLoop, At

\* The batch is dropped, or the handler is gone.
LEMMA AfterLeave ==
    ASSUME NEW h \in Handlers, queue'[h] = <<>>, pc'[h] \in {"error", "idle"}
    PROVE  HandlerOK(h)'
<1>1. ~OnWatched(h)' /\ DOMAIN queue'[h] = {}
  BY DEF OnWatched
<1> QED
  BY <1>1
  DEF HandlerOK, WatchedFirst, OverIsEnded, StatusOfWish, EndSoFar, ToldSoFar, InLoop,
      InBatch, At

\* The handler stays with its alert.
LEMMA AfterStay ==
    ASSUME SInv, NEW h \in Handlers, HandlerOK(h),
           queue'[h] = queue[h], carried'[h] = carried[h],
           clock' = clock, pc'[h] \in InBatch,
           pc'[h] \in InLoop /\ OnWatched(h) /\ carried[h].over => Want(h)' = "resolved-sent",
           pc'[h] = "record" => status'[h] \in {Want(h)', Failed(Want(h))'},
           carried[h].over /\ live'[h] /\ OnWatched(h) /\ pc'[h] \in InLoop =>
              \A i \in Decisions(Watched) \ todo'[h] : Open(i)',
           carried[h].over /\ live'[h] /\ ~OnWatched(h) =>
              \A i \in Decisions(Watched) : Open(i)',
           ToldSoFar(h)'
    PROVE  HandlerOK(h)'
<1>1. OnWatched(h)' = OnWatched(h) /\ Current(h)' = Current(h) /\ Carries(h)' = Carries(h)
  BY DEF OnWatched, CarriesWatched, Current, Carries
<1>2. WatchedFirst(h)'
  BY <1>1 DEF HandlerOK, WatchedFirst
<1>3. OverIsEnded(h)'
  BY <1>1 DEF HandlerOK, OverIsEnded
<1>4. StatusOfWish(h)'
  BY DEF StatusOfWish, At
<1>5. EndSoFar(h)'
  BY <1>1 DEF EndSoFar, InBatch
<1> QED BY <1>2, <1>3, <1>4, <1>5 DEF HandlerOK

-----------------------------------------------------------------------------
(* The rows of the watched alert.                                            *)

LEMMA WatchedRows == \A i \in RuleIndexes : WatchedPair(i) \in Pairs
  BY WatchedAssumption DEF WatchedPair, Pairs

LEMMA RowsWritten ==
    ASSUME SInv, NEW h \in Handlers, HandlerStep(h)
    PROVE  \/ history' = history
           \/ RecordAttempt(h) /\ history' = [history EXCEPT ![PairOf(h)] = status[h]]
  BY DEF HandlerStep, AnyAccept, Accept, Process, UpsertAlert, CheckMutes, Evaluate,
         LastAttempt, Notify, RecordAttempt, Recorded, Respond, Environment, Cancel,
         Crash, Hangup

\* A handler at work on another alert leaves them alone.
LEMMA OtherRowsStay ==
    ASSUME SInv, NEW h \in Handlers, HandlerOK(h), HandlerStep(h), ~OnWatched(h),
           NEW i \in RuleIndexes
    PROVE  Open(i)' = Open(i)
<1>1. CASE history' = history
  BY <1>1 DEF Open, WatchedPair
<1>2. CASE /\ RecordAttempt(h)
           /\ history' = [history EXCEPT ![PairOf(h)] = status[h]]
  <2>1. queue[h] # <<>>
    BY <1>2 DEF RecordAttempt, At, SInv, TInv, Shape, InBatch
  <2>2. PairOf(h) # WatchedPair(i)
    BY <2>1, PairInHandIsWatched DEF HandlerOK
  <2> QED
    BY <1>2, <2>2, WatchedRows DEF Open, WatchedPair, SInv, TInv, TypeOK
<1> QED BY <1>1, <1>2, RowsWritten

\* What a push that says the alert is over writes silences nothing.
LEMMA EndWritten ==
    ASSUME SInv, NEW h \in Handlers, HandlerOK(h), RecordAttempt(h), OnWatched(h),
           carried[h].over
    PROVE  status[h] # "firing-sent"
<1>1. Want(h) = "resolved-sent" /\ status[h] \in {Want(h), Failed(Want(h))}
  BY DEF HandlerOK, OverIsEnded, StatusOfWish, RecordAttempt, At, InLoop
<1> QED BY <1>1 DEF Failed

LEMMA EndKeepsOpen ==
    ASSUME SInv, NEW h \in Handlers, HandlerOK(h), HandlerStep(h),
           OnWatched(h) => carried[h].over, NEW i \in RuleIndexes, Open(i)
    PROVE  Open(i)'
<1>1. CASE ~OnWatched(h)
  BY <1>1, OtherRowsStay
<1>2. CASE OnWatched(h) /\ history' = history
  BY <1>2 DEF Open, WatchedPair
<1>3. CASE /\ OnWatched(h) /\ RecordAttempt(h)
           /\ history' = [history EXCEPT ![PairOf(h)] = status[h]]
  <2>1. status[h] # "firing-sent"
    BY <1>3, EndWritten
  <2> QED
    BY <1>3, <2>1, WatchedRows DEF Open, WatchedPair, SInv, TInv, TypeOK
<1> QED BY <1>1, <1>2, <1>3, RowsWritten

LEMMA WatchedDecisions == Decisions(Watched) \subseteq RuleIndexes
  BY DecisionsAreIndexes

-----------------------------------------------------------------------------
(* The handler's own step.                                                   *)

SenderStays == UNCHANGED <<occurrence, settled, heard>>

\* A turn of the loop has ended, for a decision that is now done with.
LEMMA AfterTurn ==
    ASSUME SInv, NEW h \in Handlers, HandlerOK(h), pc[h] \in InLoop, HandlerStep(h),
           NextDecision(h), carried'[h] = carried[h], live'[h] = live[h], SenderStays,
           OnWatched(h) /\ carried[h].over /\ live[h] =>
              history'[WatchedPair(Rule(h))] # "firing-sent",
           OnWatched(h) /\ ~carried[h].over /\ carried[h].occurrence = occurrence
              /\ Want(h) = "firing-sent" /\ occurrence - 1 \in settled
              /\ Rule(h) \in Decisions(Watched)
              => PairOf(h) \in heard
    PROVE  HandlerOK(h)'
<1>1. queue[h] # <<>> /\ todo[h] # {} /\ clock' = clock
  BY HandlerStepSame DEF SInv, TInv, Shape, InBatch, InLoop
<1>2. ASSUME carried[h].over, live[h]
      PROVE  /\ ~OnWatched(h) => \A i \in Decisions(Watched) : Open(i)'
             /\ OnWatched(h) =>
                   \A i \in Decisions(Watched) \ (todo[h] \ {Rule(h)}) : Open(i)'
  <2>1. \A i \in Decisions(Watched) : Open(i) => Open(i)'
    BY <1>2, EndKeepsOpen, WatchedDecisions
  <2>2. /\ ~OnWatched(h) => \A i \in Decisions(Watched) : Open(i)
        /\ OnWatched(h) => \A i \in Decisions(Watched) \ todo[h] : Open(i)
    BY <1>2 DEF HandlerOK, EndSoFar, InLoop, InBatch
  <2>3. OnWatched(h) => \A i \in Decisions(Watched) : i = Rule(h) => Open(i)'
    BY <1>2 DEF Open, WatchedPair
  <2> QED BY <2>1, <2>2, <2>3
<1>3. CASE todo[h] \ {Rule(h)} = {}
  <2>1. FinishAlert(h)
    BY <1>3 DEF NextDecision
  <2> QED BY <1>1, <1>2, <1>3, <2>1, AfterFinish
<1>4. CASE todo[h] \ {Rule(h)} # {}
  <2>1. /\ todo' = [todo EXCEPT ![h] = todo[h] \ {Rule(h)}]
        /\ pc'[h] = "lookup" /\ queue'[h] = queue[h] /\ now'[h] = now[h]
    BY <1>4 DEF NextDecision, Goto, SInv, TInv, TypeOK
  <2>2. todo'[h] = todo[h] \ {Rule(h)}
    BY <2>1 DEF SInv, TInv, TypeOK
  <2>3. Want(h)' = Want(h) /\ OnWatched(h)' = OnWatched(h)
    BY <2>1 DEF Want, Current, OnWatched, CarriesWatched
  <2>4. ToldSoFar(h)'
    <3> SUFFICES ASSUME OnWatched(h), ~carried[h].over,
                        carried[h].occurrence = occurrence,
                        Want(h) = "firing-sent", occurrence - 1 \in settled
                 PROVE  \A i \in Decisions(Watched) \ todo'[h] : WatchedPair(i) \in heard
      BY <2>1, <2>3 DEF ToldSoFar, SenderStays, WatchedPair, At
    <3>1. \A i \in Decisions(Watched) \ todo[h] : WatchedPair(i) \in heard
      BY DEF HandlerOK, ToldSoFar
    <3>2. Rule(h) \in Decisions(Watched) => WatchedPair(Rule(h)) \in heard
      BY OnWatchedPair
    <3> QED BY <2>2, <3>1, <3>2
  <2>5. OnWatched(h) /\ carried[h].over => Want(h)' = "resolved-sent"
    BY <2>3 DEF HandlerOK, OverIsEnded
  <2> QED BY <1>1, <1>2, <2>1, <2>2, <2>4, <2>5, AfterStay DEF InLoop, InBatch
<1> QED BY <1>3, <1>4

\* What Handle leaves of the sender's bookkeeping while the handler goes on.
LEMMA HandleKeeps ==
    ASSUME SInv, NEW h \in Handlers, Handle(h)
    PROVE  /\ UNCHANGED <<firing, occurrence, began, ended>>
           /\ pc'[h] # "idle" => carried' = carried
           /\ \A g \in Handlers : g # h \/ pc'[h] # "idle" => carried'[g] = carried[g]
           /\ pc'[h] = "idle" => carried'[h] = Nothing
           /\ pc[h] # "ok" => settled' = settled
           /\ pc[h] # "notify" => heard' = heard
           /\ heard \subseteq heard'
  BY DEF Handle, Settles, Announces, At, SInv, SenderTypeOK

LEMMA UpsertAlertOK ==
    ASSUME SInv, NEW h \in Handlers, HandlerOK(h), Handle(h), UpsertAlert(h)
    PROVE  HandlerOK(h)'
<1>1. /\ pc[h] = "upsert" /\ pc'[h] = "mute" /\ queue' = queue /\ live' = live
      /\ clock' = clock
  BY DEF UpsertAlert, Goto, At, SInv, TInv, TypeOK
<1>2. carried'[h] = carried[h]
  BY <1>1, HandleKeeps
<1>3. carried[h].over /\ live[h] /\ ~OnWatched(h) => \A i \in Decisions(Watched) : Open(i)'
  BY <1>1, HandleIsHandlerStep, EndKeepsOpen, WatchedDecisions
  DEF HandlerOK, EndSoFar, InBatch
<1>4. ToldSoFar(h)'
  BY <1>1 DEF ToldSoFar, InLoop
<1> QED BY <1>1, <1>2, <1>3, <1>4, AfterStay DEF InBatch, InLoop

LEMMA CheckMutesOK ==
    ASSUME SInv, NEW h \in Handlers, HandlerOK(h), Unmuted, Handle(h), CheckMutes(h)
    PROVE  HandlerOK(h)'
<1>1. /\ pc[h] = "mute" /\ queue[h] # <<>> /\ live' = live /\ clock' = clock
      /\ pc'[h] # "idle"
  BY DEF CheckMutes, FinishAlert, StartNext, Abort, Goto, At, SInv, TInv, TypeOK, Shape,
         InBatch
<1>2. carried'[h] = carried[h]
  BY <1>1, HandleKeeps
<1>3. carried[h].over /\ live[h] /\ ~OnWatched(h) => \A i \in Decisions(Watched) : Open(i)'
  BY <1>1, HandleIsHandlerStep, EndKeepsOpen, WatchedDecisions
  DEF HandlerOK, EndSoFar, InBatch
<1>4. CASE \E t : Matches(Current(h), t) /\ FinishAlert(h)
  <2>1. ~OnWatched(h)
    BY <1>4 DEF Matches, Matching, MatchesAlert, Unmuted, OnWatched, CarriesWatched
  <2> QED BY <1>1, <1>2, <1>3, <1>4, <2>1, AfterFinish
<1>5. CASE Abort(h)
  <2>1. queue'[h] = <<>> /\ pc'[h] = "error"
    BY <1>5 DEF Abort, Goto, SInv, TInv, TypeOK
  <2> QED BY <2>1, AfterLeave
<1>6. CASE Goto(h, "evaluate") /\ UNCHANGED <<queue, now, todo, held>>
  <2>1. pc'[h] = "evaluate" /\ queue' = queue
    BY <1>6 DEF Goto, SInv, TInv, TypeOK
  <2>2. ToldSoFar(h)'
    BY <2>1 DEF ToldSoFar, InLoop
  <2> QED BY <1>1, <1>2, <1>3, <2>1, <2>2, AfterStay DEF InBatch, InLoop
<1> QED BY <1>4, <1>5, <1>6 DEF CheckMutes

LEMMA EvaluateOK ==
    ASSUME SInv, NEW h \in Handlers, HandlerOK(h), Handle(h), Evaluate(h)
    PROVE  HandlerOK(h)'
<1>1. /\ pc[h] = "evaluate" /\ queue[h] # <<>> /\ live' = live /\ clock' = clock
      /\ pc'[h] # "idle"
  BY DEF Evaluate, FinishAlert, StartNext, Goto, At, SInv, TInv, TypeOK, Shape, InBatch
<1>2. carried'[h] = carried[h]
  BY <1>1, HandleKeeps
<1>3. carried[h].over /\ live[h] /\ ~OnWatched(h) => \A i \in Decisions(Watched) : Open(i)'
  BY <1>1, HandleIsHandlerStep, EndKeepsOpen, WatchedDecisions
  DEF HandlerOK, EndSoFar, InBatch
<1>4. OnWatched(h) => Current(h).labels = Watched
  BY DEF OnWatched, CarriesWatched
<1>5. CASE Decisions(Current(h).labels) = {} /\ FinishAlert(h)
  BY <1>1, <1>2, <1>3, <1>4, <1>5, AfterFinish
<1>6. CASE ~(Decisions(Current(h).labels) = {} /\ FinishAlert(h))
  <2>1. /\ todo'[h] = Decisions(Current(h).labels)
        /\ pc'[h] = "lookup" /\ queue' = queue /\ now'[h] = clock
    BY <1>6 DEF Evaluate, Goto, SInv, TInv, TypeOK
  <2>2. Current(h)' = Current(h) /\ Want(h)' = Desired(Current(h), clock)
    BY <2>1 DEF Current, Want
  <2>3. OnWatched(h) /\ carried[h].over => Want(h)' = "resolved-sent"
    BY <2>2 DEF HandlerOK, OverIsEnded, Desired
  <2>4. OnWatched(h)' = OnWatched(h)
    BY <1>2, <2>1 DEF OnWatched, CarriesWatched, Current
  <2>5. ToldSoFar(h)'
    BY <1>4, <2>1, <2>4 DEF ToldSoFar, At
  <2> QED
    BY <1>1, <1>2, <1>3, <1>4, <2>1, <2>3, <2>5, AfterStay DEF InBatch, InLoop
<1> QED BY <1>5, <1>6

LEMMA LastAttemptOK ==
    ASSUME SInv, NEW h \in Handlers, HandlerOK(h), RowsTellTruth, Handle(h),
           LastAttempt(h)
    PROVE  HandlerOK(h)'
<1>1. /\ pc[h] = "lookup" /\ queue[h] # <<>> /\ todo[h] # {} /\ live' = live
      /\ clock' = clock /\ pc'[h] # "idle" /\ pc[h] \in InLoop
  BY DEF LastAttempt, NextDecision, FinishAlert, StartNext, Abort, Goto, At, SInv, TInv,
         TypeOK, Shape, InBatch, InLoop
<1>2. carried'[h] = carried[h] /\ SenderStays
  BY <1>1, HandleKeeps DEF SenderStays
<1>3. CASE Delivered(h) /\ NextDecision(h)
  <2>1. OnWatched(h) /\ carried[h].over =>
          history'[WatchedPair(Rule(h))] # "firing-sent"
    BY <1>1, <1>3, OnWatchedPair DEF Delivered, HandlerOK, OverIsEnded, LastAttempt
  <2>2. OnWatched(h) /\ Want(h) = "firing-sent" /\ occurrence - 1 \in settled
          /\ Rule(h) \in Decisions(Watched) => PairOf(h) \in heard
    BY <1>3, OnWatchedPair DEF Delivered, RowsTellTruth, Open
  <2> QED BY <1>1, <1>2, <1>3, <2>1, <2>2, HandleIsHandlerStep, AfterTurn
<1>4. CASE Abort(h)
  <2>1. queue'[h] = <<>> /\ pc'[h] = "error"
    BY <1>4 DEF Abort, Goto, SInv, TInv, TypeOK
  <2> QED BY <2>1, AfterLeave
<1>5. CASE Goto(h, "notify") /\ UNCHANGED <<queue, now, todo, held>>
  <2>1. /\ pc'[h] = "notify" /\ queue' = queue /\ now' = now /\ todo' = todo
        /\ history' = history
    BY <1>5 DEF Goto, LastAttempt, SInv, TInv, TypeOK
  <2>2. Want(h)' = Want(h) /\ OnWatched(h)' = OnWatched(h)
    BY <1>2, <2>1 DEF Want, Current, OnWatched, CarriesWatched
  <2>3. \A i : Open(i)' = Open(i)
    BY <2>1 DEF Open, WatchedPair
  <2>4. ToldSoFar(h)'
    BY <1>1, <1>2, <2>1, <2>2 DEF HandlerOK, ToldSoFar, SenderStays, WatchedPair, At
  <2>5. OnWatched(h) /\ carried[h].over => Want(h)' = "resolved-sent"
    BY <1>1, <2>2 DEF HandlerOK, OverIsEnded
  <2>6. /\ carried[h].over /\ live[h] /\ ~OnWatched(h) =>
              \A i \in Decisions(Watched) : Open(i)'
        /\ carried[h].over /\ live[h] /\ OnWatched(h) =>
              \A i \in Decisions(Watched) \ todo[h] : Open(i)'
    BY <1>1, <2>3 DEF HandlerOK, EndSoFar, InBatch, InLoop
  <2> QED
    BY <1>1, <1>2, <2>1, <2>4, <2>5, <2>6, AfterStay DEF InBatch, InLoop
<1> QED BY <1>3, <1>4, <1>5 DEF LastAttempt

LEMMA NotifyOK ==
    ASSUME SInv, NEW h \in Handlers, HandlerOK(h), Handle(h), Notify(h)
    PROVE  HandlerOK(h)'
<1>1. /\ pc[h] = "notify" /\ pc'[h] = "record" /\ live' = live /\ clock' = clock
      /\ queue' = queue /\ todo' = todo /\ now' = now /\ history' = history
      /\ pc[h] \in InLoop
  BY DEF Notify, Goto, At, SInv, TInv, TypeOK, InLoop
<1>2. /\ carried'[h] = carried[h] /\ occurrence' = occurrence /\ settled' = settled
      /\ heard \subseteq heard'
  BY <1>1, HandleKeeps
<1>3. /\ Current(h)' = Current(h) /\ Want(h)' = Want(h) /\ PairOf(h)' = PairOf(h)
      /\ OnWatched(h)' = OnWatched(h)
  BY <1>1, <1>2 DEF Want, Current, PairOf, Rule, OnWatched, CarriesWatched
<1>4. status'[h] \in {Want(h), Failed(Want(h))}
  BY DEF Notify, Outcome, SInv, TInv, TypeOK
<1>5. Failed(Want(h))' = Failed(Want(h))
  BY <1>3 DEF Failed
<1>6. \A i : Open(i)' = Open(i)
  BY <1>1 DEF Open, WatchedPair
<1>7. /\ carried[h].over /\ live[h] /\ ~OnWatched(h) =>
            \A i \in Decisions(Watched) : Open(i)'
      /\ carried[h].over /\ live[h] /\ OnWatched(h) =>
            \A i \in Decisions(Watched) \ todo[h] : Open(i)'
  BY <1>1, <1>6 DEF HandlerOK, EndSoFar, InBatch, InLoop
<1>8. ToldSoFar(h)'
  <2> SUFFICES ASSUME OnWatched(h), ~carried[h].over,
                      carried[h].occurrence = occurrence, Want(h) = "firing-sent"
               PROVE  /\ occurrence - 1 \in settled =>
                            \A i \in Decisions(Watched) \ todo[h] :
                                WatchedPair(i) \in heard'
                      /\ PairOf(h) \in heard'
    BY <1>1, <1>2, <1>3 DEF ToldSoFar, WatchedPair, At
  <2>1. Announces(h)
    BY <1>1 DEF Announces, OnWatched, At
  <2>2. PairOf(h) \in heard'
    BY <2>1 DEF Handle
  <2>3. occurrence - 1 \in settled =>
          \A i \in Decisions(Watched) \ todo[h] : WatchedPair(i) \in heard
    BY <1>1 DEF HandlerOK, ToldSoFar
  <2> QED BY <1>2, <2>2, <2>3
<1>9. OnWatched(h) /\ carried[h].over => Want(h)' = "resolved-sent"
  BY <1>1, <1>3 DEF HandlerOK, OverIsEnded
<1> QED
  BY <1>1, <1>2, <1>3, <1>4, <1>5, <1>7, <1>8, <1>9, AfterStay DEF InBatch, InLoop

LEMMA RecordAttemptOK ==
    ASSUME SInv, RecordsLand, NEW h \in Handlers, HandlerOK(h), Handle(h),
           RecordAttempt(h)
    PROVE  HandlerOK(h)'
<1>1. /\ pc[h] = "record" /\ queue[h] # <<>> /\ todo[h] # {} /\ live' = live
      /\ pc[h] \in InLoop /\ pc'[h] # "idle" /\ NextDecision(h)
  BY DEF RecordAttempt, NextDecision, FinishAlert, StartNext, Goto, At, SInv, TInv,
         TypeOK, Shape, InBatch, InLoop
<1>2. carried'[h] = carried[h] /\ SenderStays
  BY <1>1, HandleKeeps DEF SenderStays
<1>3. OnWatched(h) /\ carried[h].over /\ live[h] =>
        history'[WatchedPair(Rule(h))] # "firing-sent"
  <2> SUFFICES ASSUME OnWatched(h), carried[h].over, live[h]
               PROVE  history'[WatchedPair(Rule(h))] # "firing-sent"
    OBVIOUS
  <2>1. history' = [history EXCEPT ![PairOf(h)] = status[h]]
    BY DEF RecordAttempt, Recorded, Fails, Strike, RecordsLand
  <2>2. PairOf(h) = WatchedPair(Rule(h)) /\ PairOf(h) \in Pairs
    BY <1>1, OnWatchedPair, PairInHand DEF SInv, TInv
  <2> QED BY <2>1, <2>2, EndWritten DEF SInv, TInv, TypeOK
<1>4. OnWatched(h) /\ ~carried[h].over /\ carried[h].occurrence = occurrence
        /\ Want(h) = "firing-sent" => PairOf(h) \in heard
  BY <1>1 DEF HandlerOK, ToldSoFar, At
<1> QED BY <1>1, <1>2, <1>3, <1>4, HandleIsHandlerStep, AfterTurn

LEMMA HangupOK ==
    ASSUME SInv, NEW h \in Handlers, HandlerOK(h), Handle(h), Cancel(h)
    PROVE  HandlerOK(h)'
<1>1. /\ pc' = pc /\ queue' = queue /\ now' = now /\ todo' = todo /\ status' = status
      /\ history' = history /\ clock' = clock /\ pc[h] # "idle" /\ ~live'[h]
  BY DEF Cancel, Hangup, Busy, SInv, TInv, TypeOK
<1>2. /\ carried'[h] = carried[h] /\ occurrence' = occurrence
      /\ heard \subseteq heard'
  BY <1>1, HandleKeeps
<1>3. pc[h] # "ok" /\ settled' = settled
  BY <1>1, HandleKeeps DEF Cancel, Hangup, Busy
<1>4. /\ Current(h)' = Current(h) /\ Want(h)' = Want(h) /\ PairOf(h)' = PairOf(h)
      /\ OnWatched(h)' = OnWatched(h) /\ Failed(Want(h))' = Failed(Want(h))
  BY <1>1, <1>2 DEF Want, Current, PairOf, Rule, OnWatched, CarriesWatched, Failed
<1>5. ToldSoFar(h)'
  BY <1>1, <1>2, <1>3, <1>4 DEF HandlerOK, ToldSoFar, WatchedPair, At
<1>6. pc[h] = "record" => status'[h] \in {Want(h), Failed(Want(h))}
  BY <1>1 DEF HandlerOK, StatusOfWish, At
<1>7. pc[h] \in InLoop /\ OnWatched(h) /\ carried[h].over => Want(h)' = "resolved-sent"
  BY <1>4 DEF HandlerOK, OverIsEnded
<1>8. pc[h] \in InBatch
  BY DEF Cancel, Hangup, Busy, SInv, TInv, TypeOK, InBatch
<1> QED
  BY <1>1, <1>2, <1>4, <1>5, <1>6, <1>7, <1>8, AfterStay

LEMMA LeavesOK ==
    ASSUME SInv, NEW h \in Handlers, Respond(h) \/ Crash(h)
    PROVE  HandlerOK(h)'
<1>1. queue'[h] = <<>> /\ pc'[h] = "idle"
  BY DEF Respond, Crash, Leave, Goto, SInv, TInv, TypeOK
<1> QED BY <1>1, AfterLeave

\* A handler that moves on with its alert keeps what it owes the sender.
LEMMA HandleOK ==
    ASSUME SInv, RecordsLand, Unmuted, RowsTellTruth,
           NEW h \in Handlers, HandlerOK(h), Handle(h)
    PROVE  HandlerOK(h)'
  BY UpsertAlertOK, CheckMutesOK, EvaluateOK, LastAttemptOK, NotifyOK, RecordAttemptOK,
     HangupOK, LeavesOK DEF Handle, Process

-----------------------------------------------------------------------------
(* The other handlers.                                                       *)

LEMMA LiveStays ==
    ASSUME SInv, NEW h \in Handlers, HandlerStep(h), NEW g \in Handlers, g # h
    PROVE  live'[g] = live[g]
<1>1. live \in [Handlers -> BOOLEAN]
  BY DEF SInv, TInv, TypeOK
<1>2. live' = live \/ \E b : live' = [live EXCEPT ![h] = b]
  BY DEF HandlerStep, AnyAccept, Accept, Process, UpsertAlert, CheckMutes, Evaluate,
         LastAttempt, Notify, RecordAttempt, Respond, Environment, Cancel,
         Hangup, Crash, Leave
<1> QED BY <1>1, <1>2

\* A handler that does not move keeps its facts while the rows it has opened
\* stay open and what was heard stays heard.
LEMMA StandStill ==
    ASSUME SInv, NEW g \in Handlers, HandlerOK(g), clock <= clock', clock' \in Nat,
           pc'[g] = pc[g], queue'[g] = queue[g], now'[g] = now[g], todo'[g] = todo[g],
           status'[g] = status[g], live'[g] = live[g], carried'[g] = carried[g],
           carried[g].over => \A i \in RuleIndexes : Open(i) => Open(i)',
           Carries(g) /\ carried'[g].occurrence = occurrence' =>
              /\ occurrence' = occurrence /\ heard \subseteq heard'
              /\ settled' = settled
    PROVE  HandlerOK(g)'
<1>1. /\ Current(g)' = Current(g) /\ Want(g)' = Want(g) /\ PairOf(g)' = PairOf(g)
      /\ OnWatched(g)' = OnWatched(g) /\ Failed(Want(g))' = Failed(Want(g))
      /\ Carries(g)' = Carries(g)
  BY DEF Want, Current, PairOf, Rule, OnWatched, CarriesWatched, Failed, Carries
<1>2. WatchedFirst(g)'
  BY <1>1 DEF HandlerOK, WatchedFirst
<1>3. OverIsEnded(g)'
  <2> SUFFICES ASSUME OnWatched(g), carried[g].over
               PROVE  /\ Ended(Current(g), clock')
                      /\ pc[g] \in InLoop => Want(g) = "resolved-sent"
    BY <1>1 DEF OverIsEnded, Ended
  <2>1. Current(g) \in Alerts /\ clock \in Nat
    BY AlertInHand, SenderFacts DEF OnWatched, SInv, TInv
  <2> QED BY <2>1, EndedLater DEF HandlerOK, OverIsEnded
<1>4. StatusOfWish(g)'
  BY <1>1 DEF HandlerOK, StatusOfWish, At
<1>5. EndSoFar(g)'
  <2> SUFFICES ASSUME carried[g].over, live[g]
               PROVE  /\ pc[g] = "ok" \/ (pc[g] \in InBatch /\ ~OnWatched(g)) =>
                            \A i \in Decisions(Watched) : Open(i)'
                      /\ pc[g] \in InLoop /\ OnWatched(g) =>
                            \A i \in Decisions(Watched) \ todo[g] : Open(i)'
    BY <1>1 DEF EndSoFar
  <2>1. \A i \in Decisions(Watched) : Open(i) => Open(i)'
    BY WatchedDecisions
  <2> QED BY <2>1 DEF HandlerOK, EndSoFar
<1>6. ToldSoFar(g)'
  <2> SUFFICES ASSUME OnWatched(g), ~carried[g].over,
                      carried[g].occurrence = occurrence', pc[g] \in InLoop,
                      Want(g) = "firing-sent"
               PROVE  /\ occurrence' - 1 \in settled' =>
                            \A i \in Decisions(Watched) \ todo[g] :
                                WatchedPair(i) \in heard'
                      /\ pc[g] = "record" => PairOf(g) \in heard'
    BY <1>1 DEF ToldSoFar, WatchedPair, At
  <2>1. occurrence' = occurrence /\ heard \subseteq heard' /\ settled' = settled
    BY DEF OnWatched, CarriesWatched, Carries
  <2>2. /\ occurrence - 1 \in settled =>
              \A i \in Decisions(Watched) \ todo[g] : WatchedPair(i) \in heard
        /\ pc[g] = "record" => PairOf(g) \in heard
    BY <2>1 DEF HandlerOK, ToldSoFar, At
  <2> QED BY <2>1, <2>2
<1> QED BY <1>2, <1>3, <1>4, <1>5, <1>6 DEF HandlerOK

\* The handlers beside the one that takes a step: at most one handler carries
\* the sender's push, and only the carrier writes the watched rows.
LEMMA OthersOK ==
    ASSUME SInv, OInv, NEW h \in Handlers, HandlerStep(h),
           UNCHANGED occurrence, heard \subseteq heard',
           ~Carries(h) => settled' = settled,
           NEW g \in Handlers, g # h, carried'[g] = carried[g]
    PROVE  HandlerOK(g)'
<1>1. /\ HandlerOK(g) /\ HandlerOK(h)
      /\ Carries(g) => ~Carries(h)
  BY OInvParts DEF PushesInOrder
<1>2. Same(g) /\ live'[g] = live[g] /\ clock' = clock /\ clock \in Nat
  BY HandlerStepSame, LiveStays, SenderFacts DEF SInv
<1>3. Carries(g) => ~OnWatched(h)
  BY <1>1 DEF OnWatched, CarriesWatched, Carries
<1>4. carried[g].over => \A i \in RuleIndexes : Open(i) => Open(i)'
  BY <1>1, <1>3, OtherRowsStay, OverCarries
<1>5. Carries(g) => settled' = settled
  BY <1>1
<1> QED BY <1>1, <1>2, <1>4, <1>5, StandStill DEF Same

-----------------------------------------------------------------------------
(* The sender's bookkeeping and the rows, when a handler takes a step.       *)

LEMMA CarriesAfterHandle ==
    ASSUME SInv, NEW h \in Handlers, Handle(h), NEW g \in Handlers, Carries(g)'
    PROVE  /\ Carries(g) /\ carried'[g] = carried[g]
           /\ pc'[g] # "idle" \/ g # h
<1>1. carried'[g] # Nothing
  BY DEF Carries, Nothing
<1> QED BY <1>1, HandleKeeps DEF Carries

\* The push that settles an occurrence is done with.
LEMMA SettlesLeaves ==
    ASSUME SInv, NEW h \in Handlers, Handle(h), settled' # settled
    PROVE  /\ settled' = settled \cup {carried[h].occurrence}
           /\ At(h, "ok") /\ live[h] /\ carried[h].over /\ Carries(h)
           /\ pc'[h] = "idle" /\ history' = history /\ heard' = heard
<1>1. Settles(h) /\ settled' = settled \cup {carried[h].occurrence}
  BY DEF Handle
<1>2. pc[h] = "ok" /\ live[h] /\ carried[h].over
  BY <1>1 DEF Settles, At
<1>3. Respond(h)
  BY <1>2
  DEF Handle, Process, UpsertAlert, CheckMutes, Evaluate, LastAttempt, Notify,
      RecordAttempt, Cancel, Hangup, Crash, Busy, At
<1>4. pc'[h] = "idle" /\ history' = history /\ heard' = heard
  BY <1>2, <1>3, HandleKeeps DEF Respond, Leave, Goto, SInv, TInv, TypeOK
<1> QED BY <1>1, <1>2, <1>4, OverCarries DEF At

LEMMA HandlePushes ==
    ASSUME SInv, OInv, NEW h \in Handlers, Handle(h)
    PROVE  PushesInOrder'
<1>1. ASSUME NEW f \in Handlers, NEW g \in Handlers, Carries(f)', Carries(g)'
      PROVE  f = g
  BY <1>1, CarriesAfterHandle DEF OInv, PushesInOrder
<1>2. ASSUME NEW g \in Handlers, Carries(g)'
      PROVE  /\ pc'[g] # "idle"
             /\ carried'[g].occurrence \in 1..occurrence'
             /\ carried'[g].over => carried'[g].occurrence < occurrence' \/ ~firing'
             /\ \A s \in settled' :
                   /\ s <= carried'[g].occurrence
                   /\ s = carried'[g].occurrence => carried'[g].over
  <2>1. /\ Carries(g) /\ carried'[g] = carried[g]
        /\ pc'[g] # "idle" \/ g # h
    BY <1>2, CarriesAfterHandle
  <2>2. pc'[g] # "idle"
    BY <2>1, HandleIsHandlerStep, HandlerStepSame DEF Same, SInv, OInv, PushesInOrder
  <2>3. settled' = settled
    BY <2>1, <2>2, SettlesLeaves DEF OInv, PushesInOrder
  <2>4. occurrence' = occurrence /\ firing' = firing
    BY HandleKeeps
  <2> QED BY <2>1, <2>2, <2>3, <2>4 DEF OInv, PushesInOrder
<1> QED BY <1>1, <1>2 DEF PushesInOrder

LEMMA HandleOccurrences ==
    ASSUME SInv, OInv, NEW h \in Handlers, Handle(h)
    PROVE  OccurrencesInOrder'
<1>1. UNCHANGED <<firing, occurrence, ended, clock>>
  BY HandleKeeps, HandleIsHandlerStep, HandlerStepSame DEF SInv
<1>2. CASE settled' = settled
  BY <1>1, <1>2 DEF OInv, OccurrencesInOrder
<1>3. CASE settled' # settled
  <2>1. /\ settled' = settled \cup {carried[h].occurrence}
        /\ carried[h].over /\ Carries(h)
    BY <1>3, SettlesLeaves
  <2>2. /\ carried[h].occurrence \in 1..occurrence /\ occurrence \in Nat
        /\ carried[h].occurrence < occurrence \/ ~firing
    BY <2>1, SenderFacts DEF OInv, PushesInOrder
  <2>3. settled' \subseteq 0..occurrence
    <3>1. settled \subseteq 0..occurrence
      BY DEF OInv, OccurrencesInOrder
    <3>2. carried[h].occurrence \in 0..occurrence
      BY <2>2
    <3> QED BY <2>1, <3>1, <3>2
  <2>4. firing => occurrence \notin settled'
    BY <2>1, <2>2 DEF OInv, OccurrencesInOrder
  <2> QED BY <1>1, <2>3, <2>4 DEF OInv, OccurrencesInOrder
<1> QED BY <1>2, <1>3

\* A row that comes to say firing was written for an occurrence announced.
LEMMA FiringWritten ==
    ASSUME SInv, OInv, NEW h \in Handlers, Handle(h), NEW i \in RuleIndexes,
           Open(i), ~Open(i)'
    PROVE  /\ Carries(h) /\ ~carried[h].over
           /\ carried[h].occurrence = occurrence => WatchedPair(i) \in heard
<1>1. HandlerStep(h) /\ HandlerOK(h)
  BY HandleIsHandlerStep, OInvParts
<1>2. OnWatched(h) /\ ~carried[h].over
  BY <1>1, EndKeepsOpen
<1>3. Carries(h)
  BY <1>2 DEF OnWatched, CarriesWatched, Carries
<1>4. RecordAttempt(h) /\ history' = [history EXCEPT ![PairOf(h)] = status[h]]
  BY <1>1, RowsWritten DEF Open, WatchedPair
<1>5. PairOf(h) = WatchedPair(i) /\ status[h] = "firing-sent"
  BY <1>4, WatchedRows DEF Open, WatchedPair, SInv, TInv, TypeOK
<1>6. Want(h) = "firing-sent"
  <2>1. status[h] \in {Want(h), Failed(Want(h))}
    BY <1>1, <1>4 DEF HandlerOK, StatusOfWish, RecordAttempt
  <2>2. Want(h) \in Sent /\ Failed(Want(h)) \notin Sent
    BY WantIsSent, FailedIsNotSent
  <2> QED BY <1>5, <2>1, <2>2 DEF Sent
<1>7. At(h, "record") /\ pc[h] \in InLoop
  BY <1>4 DEF RecordAttempt, At, InLoop
<1> QED
  BY <1>1, <1>2, <1>3, <1>5, <1>6, <1>7 DEF HandlerOK, ToldSoFar

LEMMA HandleRows ==
    ASSUME SInv, OInv, NEW h \in Handlers, Handle(h)
    PROVE  RowsTellTruth'
<1>0. /\ occurrence' = occurrence /\ occurrence \in Nat
      /\ heard \subseteq heard'
  BY HandleKeeps, SenderFacts
<1>1. CASE settled' = settled
  <2>1. ASSUME NEW i \in Decisions(Watched), occurrence - 1 \in settled
        PROVE  Open(i)' \/ WatchedPair(i) \in heard'
    <3>1. i \in RuleIndexes /\ (Open(i) \/ WatchedPair(i) \in heard)
      BY <2>1, WatchedDecisions DEF OInv, RowsTellTruth
    <3>2. ASSUME Open(i), ~Open(i)'
          PROVE  WatchedPair(i) \in heard
      <4>1. /\ Carries(h) /\ ~carried[h].over
            /\ carried[h].occurrence = occurrence => WatchedPair(i) \in heard
        BY <3>1, <3>2, FiringWritten
      <4>2. carried[h].occurrence \in 1..occurrence
            /\ occurrence - 1 <= carried[h].occurrence
            /\ occurrence - 1 # carried[h].occurrence
        BY <2>1, <4>1 DEF OInv, PushesInOrder
      <4> QED BY <1>0, <4>1, <4>2
    <3> QED BY <1>0, <3>1, <3>2
  <2>2. ASSUME NEW i \in Decisions(Watched), occurrence \in settled
        PROVE  Open(i)'
    <3>1. i \in RuleIndexes /\ Open(i)
      BY <2>2, WatchedDecisions DEF OInv, RowsTellTruth
    <3>2. ASSUME ~Open(i)'
          PROVE  FALSE
      <4>1. Carries(h) /\ ~carried[h].over
        BY <3>1, <3>2, FiringWritten
      <4>2. /\ carried[h].occurrence \in 1..occurrence
            /\ occurrence <= carried[h].occurrence
            /\ occurrence # carried[h].occurrence
        BY <2>2, <4>1 DEF OInv, PushesInOrder
      <4> QED BY <1>0, <4>2
    <3> QED BY <3>2
  <2> QED BY <1>0, <1>1, <2>1, <2>2 DEF RowsTellTruth, WatchedPair
<1>2. CASE settled' # settled
  <2>1. /\ At(h, "ok") /\ live[h] /\ carried[h].over /\ history' = history
    BY <1>2, SettlesLeaves
  <2>2. \A i \in Decisions(Watched) : Open(i)
    BY <2>1, OInvParts DEF HandlerOK, EndSoFar, At
  <2> QED BY <2>1, <2>2 DEF RowsTellTruth, Open, WatchedPair
<1> QED BY <1>1, <1>2

LEMMA HandleOInv ==
    ASSUME SInv, OInv, RecordsLand, NEW h \in Handlers, Handle(h)
    PROVE  OInv'
<1>1. HandlerStep(h) /\ HandlerOK(h) /\ Unmuted /\ RowsTellTruth
  BY HandleIsHandlerStep, OInvParts DEF OInv
<1>2. HandlerOK(h)'
  BY <1>1, HandleOK
<1>3. ASSUME NEW g \in Handlers, g # h
      PROVE  HandlerOK(g)'
  <2>1. ~Carries(h) => settled' = settled
    BY SettlesLeaves
  <2> QED BY <1>1, <1>3, <2>1, HandleKeeps, OthersOK
<1>4. Unmuted'
  BY <1>1, HandlerStepSame DEF Unmuted, SInv
<1> QED
  BY <1>2, <1>3, <1>4, HandlePushes, HandleOccurrences, HandleRows
  DEF OInv, HandlerOK

-----------------------------------------------------------------------------
(* The pushes.                                                               *)

\* What a request leaves to the handlers and the sender's bookkeeping.
LEMMA AcceptKeeps ==
    ASSUME SInv, NEW h \in Handlers, NEW batch \in Seq(Alerts), Accept(h, batch)
    PROVE  /\ pc[h] = "idle" /\ pc'[h] \in {"ok", "upsert"} /\ queue'[h] = batch
           /\ pc'[h] = "ok" => batch = <<>>
           /\ history' = history /\ mutes' = mutes /\ clock' = clock
  BY DEF Accept, StartNext, Goto, At, muteVars, SInv, TInv, TypeOK

LEMMA RowsKept ==
    ASSUME RowsTellTruth, history' = history, occurrence' = occurrence,
           settled' = settled, heard' = heard
    PROVE  RowsTellTruth'
  BY DEF RowsTellTruth, Open, WatchedPair

LEMMA OtherPushOInv ==
    ASSUME SInv, OInv, SoleSender, NEW h \in Handlers, OtherPush(h)
    PROVE  OInv'
<1>1. PICK batch \in Batches : Accept(h, batch)
  BY DEF OtherPush
<1>2. batch \in Seq(Alerts) /\ \A k \in DOMAIN batch : batch[k].labels # Watched
  BY <1>1, BatchesAssumption DEF SoleSender
<1>3. /\ pc[h] = "idle" /\ pc'[h] \in {"ok", "upsert"} /\ queue'[h] = batch
      /\ history' = history /\ mutes' = mutes /\ clock' = clock
  BY <1>1, <1>2, AcceptKeeps
<1>4. HandlerStep(h) /\ UNCHANGED senderVars
  BY OtherPushIsHandlerStep DEF OtherPush
<1>5. ~Carries(h) /\ carried' = carried /\ carried[h].over = FALSE
  BY <1>3, <1>4, NothingIsOver DEF OInv, PushesInOrder, Carries, senderVars
<1>6. HandlerOK(h)'
  <2>1. ~OnWatched(h)'
    BY <1>5 DEF OnWatched, CarriesWatched, Carries
  <2>2. WatchedFirst(h)'
    BY <1>2, <1>3 DEF WatchedFirst
  <2> QED
    BY <1>3, <1>5, <2>1, <2>2
    DEF HandlerOK, OverIsEnded, StatusOfWish, EndSoFar, ToldSoFar, InLoop, At
<1>7. ASSUME NEW g \in Handlers, g # h
      PROVE  HandlerOK(g)'
  BY <1>4, <1>7, OthersOK DEF senderVars
<1>8. PushesInOrder'
  <2>1. \A g \in Handlers : Carries(g)' = Carries(g)
    BY <1>5 DEF Carries, Nothing
  <2>2. \A g \in Handlers : Carries(g) => pc'[g] = pc[g]
    BY <1>4, <1>5, HandlerStepSame DEF Same, SInv
  <2> QED BY <1>4, <2>1, <2>2 DEF OInv, PushesInOrder, senderVars
<1>9. OccurrencesInOrder' /\ RowsTellTruth' /\ Unmuted'
  BY <1>3, <1>4, RowsKept DEF OInv, OccurrencesInOrder, Unmuted, senderVars
<1> QED BY <1>6, <1>7, <1>8, <1>9 DEF OInv, HandlerOK

LEMMA PushOInv ==
    ASSUME SInv, OInv, SoleSender, NEW h \in Handlers, Push(h)
    PROVE  OInv'
<1> DEFINE batch == <<State>> \o Companions
<1>1. batch \in Seq(Alerts) /\ batch # <<>> /\ Head(batch) = State /\ State.labels = Watched
  BY PushIsBatch, WatchedAssumption DEF State
<1>2. \A k \in DOMAIN batch : batch[k].labels = Watched => k = 1
  <2>1. ASSUME NEW k \in DOMAIN batch, k # 1
        PROVE  k - 1 \in DOMAIN Companions /\ batch[k] = Companions[k - 1]
    BY <2>1, WatchedAssumption
  <2> QED BY <2>1 DEF SoleSender
<1>3. Accept(h, batch) /\ occurrence > 0
  BY DEF Push
<1>4. /\ carried' = [carried EXCEPT ![h] = [occurrence |-> occurrence, over |-> ~firing]]
      /\ \A g \in Handlers : carried[g] = Nothing
      /\ UNCHANGED <<firing, occurrence, began, ended, settled, heard>>
  BY DEF Push
<1> HIDE DEF batch
<1>5. /\ pc'[h] = "upsert" /\ queue'[h] = batch /\ history' = history /\ mutes' = mutes
      /\ clock' = clock
  BY <1>1, <1>3, AcceptKeeps
<1>6. /\ carried'[h].occurrence = occurrence /\ carried'[h].over = ~firing
      /\ carried'[h] # Nothing
  BY <1>3, <1>4, SenderFacts, NothingIsOver DEF SInv, SenderTypeOK
<1>7. HandlerOK(h)'
  <2>1. Current(h)' = State /\ OnWatched(h)' /\ Carries(h)'
    BY <1>1, <1>5, <1>6 DEF Current, OnWatched, CarriesWatched, Carries, Nothing
  <2>2. WatchedFirst(h)'
    BY <1>2, <1>5, <2>1 DEF WatchedFirst
  <2>3. OverIsEnded(h)'
    <3> SUFFICES ASSUME ~firing PROVE Ended(State, clock)
      BY <1>5, <1>6, <2>1 DEF OverIsEnded, Ended, InLoop
    <3>1. State.endsAt = ended /\ ended \in 1..clock
      BY <1>3 DEF State, OInv, OccurrencesInOrder
    <3> QED BY <3>1, SenderFacts DEF Ended
  <2> QED
    BY <1>5, <2>1, <2>2, <2>3
    DEF HandlerOK, StatusOfWish, EndSoFar, ToldSoFar, InLoop, At
<1>8. ASSUME NEW g \in Handlers, g # h
      PROVE  HandlerOK(g)'
  BY <1>4, <1>8, PushIsHandlerStep, OthersOK DEF SInv, SenderTypeOK
<1>9. PushesInOrder'
  <2>1. \A g \in Handlers : Carries(g)' => g = h
    BY <1>4 DEF Carries, Nothing, SInv, SenderTypeOK
  <2>2. /\ carried'[h].occurrence \in 1..occurrence
        /\ carried'[h].over => ~firing
        /\ \A s \in settled :
              s <= carried'[h].occurrence /\ (s = carried'[h].occurrence => ~firing)
    <3>1. settled \subseteq 0..occurrence /\ (firing => occurrence \notin settled)
      BY DEF OInv, OccurrencesInOrder
    <3>2. \A s \in settled : s <= occurrence
      BY <3>1
    <3>3. \A s \in settled : s = occurrence => ~firing
      BY <3>1, Zenon
    <3>4. occurrence \in 1..occurrence
      BY <1>3, SenderFacts
    <3> QED BY <1>6, <3>2, <3>3, <3>4, Zenon
  <2> QED BY <1>4, <1>5, <1>6, <2>1, <2>2 DEF PushesInOrder
<1>10. OccurrencesInOrder' /\ RowsTellTruth' /\ Unmuted'
  BY <1>4, <1>5, RowsKept DEF OInv, OccurrencesInOrder, Unmuted
<1> QED BY <1>7, <1>8, <1>9, <1>10 DEF OInv, HandlerOK

-----------------------------------------------------------------------------
(* The alert, the operators and the clock.                                   *)

LEMMA FireOInv ==
    ASSUME SInv, OInv, Fire
    PROVE  OInv'
<1>1. /\ UNCHANGED vars /\ UNCHANGED <<ended, carried, settled>>
      /\ occurrence' = occurrence + 1 /\ firing' = TRUE /\ heard' = {}
      /\ occurrence \in Nat /\ clock \in Nat
  BY SenderFacts DEF Fire
<1>2. settled \subseteq 0..occurrence /\ RowsTellTruth
  BY DEF OInv, OccurrencesInOrder
<1>3. ASSUME NEW g \in Handlers
      PROVE  HandlerOK(g)'
  <2>1. HandlerOK(g)
    BY OInvParts
  <2>2. Carries(g) => carried[g].occurrence \in 1..occurrence
    BY DEF OInv, PushesInOrder
  <2>3. Carries(g) => carried[g].occurrence # occurrence'
    BY <1>1, <2>2
  <2>4. \A i : Open(i)' = Open(i)
    BY <1>1 DEF vars, Open, WatchedPair
  <2> QED BY <1>1, <2>1, <2>3, <2>4, StandStill DEF vars, locals
<1>4. PushesInOrder'
  <2>1. \A g \in Handlers : Carries(g)' = Carries(g)
    BY <1>1 DEF Carries, Nothing
  <2>2. ASSUME NEW g \in Handlers, Carries(g)
        PROVE  /\ carried[g].occurrence \in 1..(occurrence + 1)
               /\ carried[g].occurrence < occurrence + 1
    <3>1. carried[g].occurrence \in 1..occurrence
      BY <2>2 DEF OInv, PushesInOrder
    <3> QED BY <1>1, <3>1
  <2> QED BY <1>1, <2>1, <2>2 DEF OInv, PushesInOrder, vars, locals
<1>5. OccurrencesInOrder'
  <2>1. settled \subseteq 0..(occurrence + 1) /\ occurrence + 1 \notin settled
    BY <1>1, <1>2
  <2> QED BY <1>1, <2>1 DEF OccurrencesInOrder
<1>6. RowsTellTruth'
  <2>1. occurrence + 1 \notin settled /\ occurrence' - 1 = occurrence
    BY <1>1, <1>2
  <2>2. \A i : Open(i)' = Open(i)
    BY <1>1 DEF vars, Open, WatchedPair
  <2> QED BY <1>1, <1>2, <2>1, <2>2 DEF RowsTellTruth
<1>7. Unmuted'
  BY <1>1 DEF OInv, Unmuted, vars, muteVars
<1> QED BY <1>3, <1>4, <1>5, <1>6, <1>7 DEF OInv, HandlerOK

LEMMA ResolveOInv ==
    ASSUME SInv, OInv, Resolve
    PROVE  OInv'
<1>1. /\ UNCHANGED vars /\ UNCHANGED <<occurrence, carried, settled, heard>>
      /\ firing' = FALSE /\ ended' = clock /\ clock \in Nat /\ clock \in 1..MaxClock
  BY SenderFacts DEF Resolve
<1>2. ASSUME NEW g \in Handlers
      PROVE  HandlerOK(g)'
  <2>1. HandlerOK(g) /\ \A i : Open(i)' = Open(i)
    BY <1>1, OInvParts DEF vars, Open, WatchedPair
  <2> QED BY <1>1, <2>1, StandStill DEF vars, locals
<1>3. PushesInOrder'
  <2>1. \A g \in Handlers : Carries(g)' = Carries(g)
    BY <1>1 DEF Carries, Nothing
  <2> QED BY <1>1, <2>1, Zenon DEF OInv, PushesInOrder, vars, locals
<1>4. OccurrencesInOrder'
  <2>1. clock \in 1..clock /\ clock' = clock
    BY <1>1 DEF vars
  <2> QED BY <1>1, <2>1 DEF OInv, OccurrencesInOrder
<1>5. RowsTellTruth' /\ Unmuted'
  BY <1>1, RowsKept DEF OInv, Unmuted, vars, muteVars
<1> QED BY <1>2, <1>3, <1>4, <1>5 DEF OInv, HandlerOK

LEMMA OperatorsUnmuted ==
    ASSUME SInv, Unmuted, NeverMuted, Operators \/ Tick \/ UNCHANGED vars
    PROVE  Unmuted'
<1>1. CASE CreateAnyMute
  BY <1>1 DEF CreateAnyMute, CreateMute, Unmuted, NeverMuted
<1>2. CASE ExpireAnyUpdate
  <2>1. PICK call \in expiring : ExpireUpdate(call)
    BY <1>2 DEF ExpireAnyUpdate
  <2>2. ASSUME NEW m \in mutes
        PROVE  ExpiredRow(m, call).matchers = m.matchers
    BY DEF ExpiredRow, SInv, TInv, TypeOK, MuteTypeOK, MuteRows
  <2> QED BY <2>1, <2>2 DEF ExpireUpdate, Unmuted
<1>3. CASE ExpireAnyCall \/ ExpireAnyFail \/ Tick \/ UNCHANGED vars
  BY <1>3
  DEF ExpireAnyCall, ExpireCall, ExpireAnyFail, ExpireFail, Tick, muteVars, vars, Unmuted
<1> QED BY <1>1, <1>2, <1>3 DEF Operators

LEMMA OthersOInv ==
    ASSUME SInv, OInv, NeverMuted, Operators \/ Tick \/ UNCHANGED vars,
           UNCHANGED senderVars
    PROVE  OInv'
<1>1. /\ UNCHANGED <<firing, occurrence, ended, carried, settled, heard>>
      /\ history' = history /\ live' = live
  BY DEF senderVars, Operators, CreateAnyMute, ExpireAnyCall, ExpireAnyUpdate,
         ExpireAnyFail, Tick, processVars, locals, vars
<1>2. clock' \in Nat /\ clock \in Nat /\ clock <= clock'
  BY ClockForward, SenderFacts DEF SInv, ProcessStep
<1>3. ASSUME NEW g \in Handlers
      PROVE  HandlerOK(g)' /\ pc'[g] = pc[g]
  <2>1. HandlerOK(g) /\ \A i : Open(i)' = Open(i)
    BY <1>1, OInvParts DEF Open, WatchedPair
  <2>2. /\ pc'[g] = pc[g] /\ queue'[g] = queue[g] /\ now'[g] = now[g]
        /\ todo'[g] = todo[g] /\ status'[g] = status[g]
    BY OtherStepSame DEF SInv
  <2> QED BY <1>1, <1>2, <2>1, <2>2, StandStill
<1>4. PushesInOrder'
  <2>1. \A g \in Handlers : Carries(g)' = Carries(g)
    BY <1>1 DEF Carries, Nothing
  <2> QED BY <1>1, <1>3, <2>1 DEF OInv, PushesInOrder
<1>5. OccurrencesInOrder'
  <2>1. 1..clock \subseteq 1..clock'
    BY <1>2
  <2> QED BY <1>1, <2>1 DEF OInv, OccurrencesInOrder
<1>6. RowsTellTruth' /\ Unmuted'
  BY <1>1, RowsKept, OperatorsUnmuted DEF OInv
<1> QED BY <1>3, <1>4, <1>5, <1>6 DEF OInv, HandlerOK

LEMMA InitOInv == SenderInit => OInv
<1> SUFFICES ASSUME SenderInit PROVE OInv
  OBVIOUS
<1>1. /\ occurrence = 0 /\ settled = {0} /\ firing = FALSE /\ mutes = {}
      /\ \A p \in Pairs : history[p] = None
      /\ \A h \in Handlers :
            ~Carries(h) /\ carried[h] = Nothing /\ pc[h] = "idle" /\ queue[h] = <<>>
  BY DEF SenderInit, Init, MuteInit, Carries
<1>2. \A i \in Decisions(Watched) : Open(i)
  BY <1>1, WatchedRows, WatchedDecisions DEF Open, None
<1>3. PushesInOrder /\ OccurrencesInOrder /\ RowsTellTruth /\ Unmuted
  BY <1>1, <1>2 DEF PushesInOrder, OccurrencesInOrder, RowsTellTruth, Unmuted
<1>4. ASSUME NEW h \in Handlers
      PROVE  HandlerOK(h)
  <2>1. ~OnWatched(h) /\ DOMAIN queue[h] = {} /\ carried[h].over = FALSE
    BY <1>1, NothingIsOver DEF OnWatched
  <2> QED
    BY <1>1, <2>1
    DEF HandlerOK, WatchedFirst, OverIsEnded, StatusOfWish, EndSoFar, ToldSoFar, InLoop, At
<1> QED BY <1>3, <1>4, OInvParts

LEMMA StepOInv ==
    SInv /\ OInv /\ SoleSender /\ NeverMuted /\ RecordsLand /\ SenderStep => OInv'
<1> SUFFICES ASSUME SInv, OInv, SoleSender, NeverMuted, RecordsLand, SenderStep
             PROVE  OInv'
  OBVIOUS
<1>1. CASE Fire \/ Resolve
  BY <1>1, FireOInv, ResolveOInv
<1>2. ASSUME NEW h \in Handlers, Push(h) \/ OtherPush(h) \/ Handle(h)
      PROVE  OInv'
  BY <1>2, PushOInv, OtherPushOInv, HandleOInv
<1>3. CASE /\ Operators \/ Tick \/ UNCHANGED vars
           /\ UNCHANGED senderVars
  BY <1>3, OthersOInv
<1> QED BY <1>1, <1>2, <1>3 DEF SenderStep, SenderNext

-----------------------------------------------------------------------------
(* What the sender may count on.                                             *)

\* The loop is about to end over an announcement of the present occurrence.
AnnouncementEnds(h) ==
    /\ LoopEnds(h)
    /\ CarriesWatched(h) /\ ~carried[h].over /\ Want(h) = "firing-sent"
    /\ carried[h].occurrence = occurrence
    /\ occurrence - 1 \in settled

\* Only the two steps that end a turn of the loop end the loop.
LEMMA LoopEndsByTurn ==
    ASSUME SInv, SenderStep, NEW h \in Handlers, LoopEnds(h)
    PROVE  /\ Handle(h)
           /\ NextDecision(h)
           /\ (LastAttempt(h) /\ Delivered(h)) \/ RecordAttempt(h)
<1>1. pc[h] \in {"lookup", "record"} /\ pc'[h] \in {"upsert", "ok"} /\ pc'[h] # pc[h]
  BY DEF LoopEnds
<1>2. ~(Operators \/ Tick \/ UNCHANGED vars)
  BY <1>1, OtherStepSame DEF SInv
<1>3. ~Fire /\ ~Resolve
  BY <1>2 DEF Fire, Resolve
<1>4. PICK g \in Handlers : Push(g) \/ OtherPush(g) \/ Handle(g)
  BY <1>2, <1>3 DEF SenderStep, SenderNext
<1>5. g = h
  BY <1>1, <1>4, PushIsHandlerStep, OtherPushIsHandlerStep, HandleIsHandlerStep,
     HandlerStepSame DEF SInv, Same
<1>6. Handle(h)
  BY <1>1, <1>4, <1>5 DEF Push, OtherPush, Accept, At
<1>7. LastAttempt(h) \/ RecordAttempt(h)
  BY <1>1, <1>6
  DEF Handle, Process, UpsertAlert, CheckMutes, Evaluate, Notify, Respond, Cancel,
      Hangup, Crash, Leave, Goto, At, SInv, TInv, TypeOK
<1>8. LastAttempt(h) => Delivered(h) /\ NextDecision(h)
  BY <1>1 DEF LastAttempt, Abort, Goto, SInv, TInv, TypeOK
<1> QED BY <1>6, <1>7, <1>8 DEF RecordAttempt

LEMMA AnnouncementTold ==
    ASSUME SInv, OInv, SenderStep, NEW h \in Handlers, AnnouncementEnds(h)
    PROVE  \A i \in Decisions(Watched) : Pair(i, Current(h)) \in heard'
<1>1. /\ Handle(h) /\ NextDecision(h)
      /\ (LastAttempt(h) /\ Delivered(h)) \/ RecordAttempt(h)
  BY LoopEndsByTurn DEF AnnouncementEnds
<1>2. /\ pc[h] \in InLoop /\ OnWatched(h) /\ HandlerOK(h)
      /\ ~carried[h].over /\ carried[h].occurrence = occurrence
      /\ Want(h) = "firing-sent" /\ occurrence - 1 \in settled
  BY OInvParts
  DEF AnnouncementEnds, LoopEnds, InLoop, InBatch, OnWatched, SInv, TInv, Shape
<1>3. /\ \A i \in Decisions(Watched) \ todo[h] : WatchedPair(i) \in heard
      /\ At(h, "record") => PairOf(h) \in heard
  BY <1>2 DEF HandlerOK, ToldSoFar
<1>4. todo[h] \ {Rule(h)} = {}
  BY <1>1 DEF NextDecision, Goto, AnnouncementEnds, LoopEnds, SInv, TInv, TypeOK
<1>5. Rule(h) \in Decisions(Watched) => WatchedPair(Rule(h)) \in heard
  <2>1. CASE RecordAttempt(h)
    BY <1>2, <1>3, <2>1, OnWatchedPair DEF RecordAttempt
  <2>2. CASE Delivered(h)
    BY <1>2, <2>2, OnWatchedPair DEF Delivered, OInv, RowsTellTruth, Open
  <2> QED BY <1>1, <2>1, <2>2
<1>6. heard \subseteq heard' /\ Current(h).labels = Watched
  BY <1>1, <1>2, HandleKeeps, OnWatchedPair
<1>7. ASSUME NEW i \in Decisions(Watched)
      PROVE  Pair(i, Current(h)) \in heard'
  <2>1. WatchedPair(i) \in heard
    BY <1>3, <1>4, <1>5
  <2> QED BY <1>6, <2>1 DEF Pair, WatchedPair, Fingerprint
<1> QED BY <1>7

\* An alert that fires again after its end was pushed and answered 200 is
\* announced again by every rule that applies: for any number of handlers, any
\* rules, reads, POSTs, hang-ups and crashes that fail or happen, and any other
\* alerts, so long as no mute is asked for that covers it, nobody else pushes it
\* and no write is lost.
THEOREM OccurrenceToldAlways ==
    ASSUME SoleSender, NeverMuted, RecordsLand
    PROVE  SenderSpec => OccurrenceTold
<1>1. SInv /\ OInv /\ [SenderNext]_<<vars, senderVars>> =>
        [\A h \in Handlers :
          /\ LoopEnds(h)
          /\ CarriesWatched(h) /\ ~carried[h].over /\ Want(h) = "firing-sent"
          /\ carried[h].occurrence = occurrence
          /\ occurrence - 1 \in settled
          => \A i \in Decisions(Watched) : Pair(i, Current(h)) \in heard'
        ]_<<vars, senderVars>>
  BY AnnouncementTold DEF AnnouncementEnds, SenderStep
<1>2. SInv /\ OInv /\ [SenderNext]_<<vars, senderVars>> => SInv' /\ OInv'
  BY StepSInv, StepOInv DEF SenderStep
<1>3. SenderInit => SInv /\ OInv
  BY InitSInv, InitOInv
<1> QED BY <1>1, <1>2, <1>3, PTL DEF SenderSpec, OccurrenceTold

LEMMA SenderInitIsInit == SenderInit => Init
  BY DEF SenderInit

\* The daemon keeps the promise of Delivery to this sender too, although its
\* pushes are none of the batches Process was given.
THEOREM SenderPromiseKept == SenderSpec => KeepsPromise
  BY SenderInitIsInit, InitSInv, StepSInv, SenderStepIsProcessStep, InitTInv, StepTInv,
     InitMaps, StepMaps, PTL DEF SenderSpec, SenderStep, KeepsPromise, Promise!DeliverySpec
=============================================================================
