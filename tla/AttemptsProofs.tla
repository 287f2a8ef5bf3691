--------------------------- MODULE AttemptsProofs --------------------------
(* Theorems about Attempts for any number of handlers, any rule list, any    *)
(* batches, mutes and faults: nothing is assumed of how requests overlap or  *)
(* fail; the exceptions are the pairs and handlers the bookkeeping names.    *)
EXTENDS Attempts, ProcessProofs

\* A row is the latest attempt on its pair, or a single handler is about to
\* make it so.
Kept(p) ==
    /\ Recording(p) = {} => history[p] = last[p]
    /\ \A h \in Recording(p) : Recording(p) = {h} /\ status[h] = last[p]

\* Until another handler writes the row, it is as the lookup found it.
FoundOpen(h) ==
    At(h, "notify") /\ h \notin overtaken => history[PairOf(h)] # Want(h)

AInv ==
    /\ TInv
    /\ \A p \in Pairs \ lapsed : Kept(p)
    /\ \A h \in Handlers : FoundOpen(h)

-----------------------------------------------------------------------------
(* The bookkeeping, seen from the handler that takes the step.               *)

LEMMA OthersRecord ==
    ASSUME TInv, NEW h \in Handlers, HandlerStep(h), NEW g \in Handlers \ {h}
    PROVE  /\ ~Posts(g) /\ ~LosesRecord(g)
           /\ \A p : g \in Recording(p)' <=> g \in Recording(p)
           /\ status'[g] = status[g] /\ At(g, "notify")' = At(g, "notify")
           /\ PairOf(g)' = PairOf(g) /\ Want(g)' = Want(g)
<1>1. Same(g)
  BY HandlerStepSame
<1>2. PairOf(g)' = PairOf(g) /\ Want(g)' = Want(g)
  BY <1>1, InHandStays DEF Same
<1> QED BY <1>1, <1>2 DEF Same, Posts, LosesRecord, Recording, At

LEMMA LapsedByHandler ==
    ASSUME TInv, NEW h \in Handlers, HandlerStep(h), Lapse, NEW p \in Pairs \ lapsed'
    PROVE  /\ ~(LosesRecord(h) /\ PairOf(h) = p)
           /\ Posts(h) /\ PairOf(h) = p => Recording(p) = {}
           /\ p \notin lapsed \/ (Posts(h) /\ PairOf(h) = p)
  BY OthersRecord DEF Lapse

\* A handler that is not about to record, before or after, keeps all rows.
LEMMA OutOfRecord ==
    ASSUME TInv, NEW h \in Handlers, HandlerStep(h), Lapse, NEW p \in Pairs \ lapsed',
           p \notin lapsed => Kept(p),
           h \in Recording(p)' <=> h \in Recording(p),
           h \in Recording(p) => status'[h] = status[h],
           ~(Posts(h) /\ PairOf(h) = p),
           history'[p] = history[p], last'[p] = last[p]
    PROVE  Kept(p)'
<1>1. Kept(p)
  BY LapsedByHandler
<1>2. Recording(p)' = Recording(p)
  BY OthersRecord DEF Recording
<1>3. \A g \in Recording(p) : status'[g] = status[g]
  BY OthersRecord DEF Recording
<1> QED BY <1>1, <1>2, <1>3 DEF Kept

-----------------------------------------------------------------------------
(* The rows.                                                                 *)

LEMMA NotifyKeeps ==
    ASSUME TInv, NEW h \in Handlers, Notify(h), Lapse, NEW p \in Pairs \ lapsed',
           p \notin lapsed => Kept(p)
    PROVE  Kept(p)'
<1>1. /\ pc[h] = "notify" /\ pc'[h] = "record" /\ history' = history
      /\ HandlerStep(h) /\ Posts(h)
  BY DEF Notify, At, Goto, TInv, TypeOK, Posts, HandlerStep, Process
<1>2. PairOf(h) \in Pairs /\ PairOf(h)' = PairOf(h)
  BY <1>1, PairInHand, InHandStays DEF Notify, TInv, Shape, InBatch, InLoop
<1>3. PICK acked \in BOOLEAN :
        /\ status' = [status EXCEPT ![h] = Outcome(h, acked)]
        /\ last' = [last EXCEPT ![PairOf(h)] = Outcome(h, acked)]
  BY DEF Notify
<1>4. CASE PairOf(h) = p
  <2>1. status'[h] = last'[p]
    BY <1>2, <1>3, <1>4 DEF TInv, TypeOK
  <2>2. Recording(p) = {}
    BY <1>1, <1>4, LapsedByHandler
  <2>3. Recording(p)' = {h}
    BY <1>1, <1>2, <1>4, <2>2, OthersRecord DEF Recording, At
  <2> QED BY <2>1, <2>3 DEF Kept
<1>5. CASE PairOf(h) # p
  <2>1. last'[p] = last[p]
    BY <1>2, <1>3, <1>5 DEF TInv, TypeOK
  <2>2. h \notin Recording(p) /\ h \notin Recording(p)'
    BY <1>2, <1>5 DEF Recording
  <2> QED BY <1>1, <1>5, <2>1, <2>2, OutOfRecord
<1> QED BY <1>4, <1>5

LEMMA NextDecisionLeaves ==
    ASSUME TInv, NEW h \in Handlers, NextDecision(h) \/ FinishAlert(h) \/ Abort(h)
    PROVE  pc'[h] \notin {"notify", "record"}
  BY DEF NextDecision, FinishAlert, StartNext, Abort, Goto, TInv, TypeOK

\* A handler that is done with its record, or dies before it.
LEMMA LeaveRecordKeeps ==
    ASSUME TInv, NEW h \in Handlers, At(h, "record"), RecordAttempt(h) \/ Crash(h), Lapse,
           NEW p \in Pairs \ lapsed', p \notin lapsed => Kept(p)
    PROVE  Kept(p)'
<1>1. /\ pc[h] = "record" /\ pc'[h] \notin {"notify", "record"} /\ last' = last
      /\ HandlerStep(h) /\ ~Posts(h)
  BY NextDecisionLeaves
  DEF RecordAttempt, Crash, Leave, Goto, At, Posts, HandlerStep, Process, Environment,
      TInv, TypeOK
<1>2. h \notin Recording(p)'
  BY <1>1 DEF Recording, At
<1>3. PairOf(h) \in Pairs
  BY <1>1, PairInHand DEF TInv, Shape, InBatch, InLoop
<1>4. CASE PairOf(h) = p
  <2>1. live[h] /\ faults' = faults /\ p \notin lapsed
    BY <1>1, <1>4, LapsedByHandler DEF LosesRecord
  <2>2. faults \in Nat
    BY FaultsAssumption DEF TInv, TypeOK
  <2>3. history' = [history EXCEPT ![p] = status[h]]
    BY <1>4, <2>1, <2>2 DEF RecordAttempt, Crash, Fails, Strike, Recorded
  <2>4. history'[p] = status[h]
    BY <2>3 DEF TInv, TypeOK
  <2>5. Recording(p) = {h} /\ status[h] = last[p]
    BY <1>1, <1>4, <2>1 DEF Kept, Recording, At
  <2>6. Recording(p)' = {}
    BY <1>1, <1>2, <2>5, OthersRecord DEF Recording
  <2> QED BY <1>1, <2>4, <2>5, <2>6 DEF Kept
<1>5. CASE PairOf(h) # p
  <2>1. history'[p] = history[p]
    BY <1>5 DEF RecordAttempt, Crash, Recorded, TInv, TypeOK
  <2>2. h \notin Recording(p)
    BY <1>5 DEF Recording
  <2> QED BY <1>1, <1>2, <2>1, <2>2, OutOfRecord
<1> QED BY <1>4, <1>5

\* The steps that neither post nor record.
LEMMA ElsewhereKeeps ==
    ASSUME TInv, NEW h \in Handlers, Lapse, NEW p \in Pairs \ lapsed', p \notin lapsed => Kept(p),
           \/ AnyAccept(h) \/ UpsertAlert(h) \/ CheckMutes(h) \/ Evaluate(h)
           \/ LastAttempt(h) \/ Respond(h)
           \/ Crash(h) /\ ~At(h, "record")
    PROVE  Kept(p)'
<1>1. HandlerStep(h) /\ history' = history /\ last' = last
  BY DEF HandlerStep, Process, Environment, AnyAccept, Accept, UpsertAlert, CheckMutes, Evaluate,
         LastAttempt, Respond, Crash, ghosts
<1>2. pc[h] # "record"
  BY DEF AnyAccept, Accept, UpsertAlert, CheckMutes, Evaluate, LastAttempt, Respond, At
<1>3. pc'[h] # "record"
  BY NextDecisionLeaves
  DEF AnyAccept, Accept, StartNext, UpsertAlert, CheckMutes, Evaluate, LastAttempt, Respond,
      Crash, Leave, Goto, TInv, TypeOK
<1> QED BY <1>1, <1>2, <1>3, OutOfRecord DEF Recording, At, Posts

LEMMA HangupKeeps ==
    ASSUME TInv, NEW h \in Handlers, Cancel(h), Lapse,
           NEW p \in Pairs \ lapsed', p \notin lapsed => Kept(p)
    PROVE  Kept(p)'
<1>1. HandlerStep(h) /\ Hangup(h)
  BY DEF Cancel, HandlerStep, Environment
<1>2. /\ pc' = pc /\ history' = history /\ last' = last /\ status' = status
      /\ PairOf(h)' = PairOf(h)
  BY <1>1, InHandStays DEF Hangup, ghosts
<1> QED BY <1>1, <1>2, OutOfRecord DEF Recording, At, Posts

LEMMA HandlerKeeps ==
    ASSUME TInv, NEW h \in Handlers, HandlerStep(h), Lapse, NEW p \in Pairs \ lapsed',
           p \notin lapsed => Kept(p)
    PROVE  Kept(p)'
<1>1. CASE RecordAttempt(h)
  BY <1>1, LeaveRecordKeeps DEF RecordAttempt
<1>2. CASE Crash(h)
  BY <1>2, LeaveRecordKeeps, ElsewhereKeeps
<1> QED
  BY <1>1, <1>2, NotifyKeeps, ElsewhereKeeps, HangupKeeps
  DEF HandlerStep, Process, Environment

-----------------------------------------------------------------------------
(* The lookups.                                                              *)

LEMMA LookupFindsOpen ==
    ASSUME TInv, NEW h \in Handlers, LastAttempt(h)
    PROVE  FoundOpen(h)'
<1>1. CASE pc'[h] # "notify"
  BY <1>1 DEF FoundOpen, At
<1>2. CASE pc'[h] = "notify"
  <2>1. ~Delivered(h) /\ UNCHANGED <<queue, now, todo>> /\ history' = history
    BY <1>2, NextDecisionLeaves DEF LastAttempt
  <2>2. PairOf(h)' = PairOf(h) /\ Want(h)' = Want(h)
    BY <2>1, InHandStays
  <2> QED BY <2>1, <2>2 DEF FoundOpen, Delivered
<1> QED BY <1>1, <1>2

\* A handler that stays where it is, whoever writes the row.
LEMMA StaysOpen ==
    ASSUME NEW h \in Handlers, FoundOpen(h), Overtake, pc'[h] = pc[h],
           PairOf(h)' = PairOf(h), Want(h)' = Want(h)
    PROVE  FoundOpen(h)'
<1> SUFFICES ASSUME pc[h] = "notify", h \notin overtaken'
             PROVE  history'[PairOf(h)] # Want(h)
  BY DEF FoundOpen, At
<1>1. h \notin overtaken /\ history'[PairOf(h)] = history[PairOf(h)]
  BY DEF Overtake, At
<1> QED BY <1>1 DEF FoundOpen, At

LEMMA HandlerFindsOpen ==
    ASSUME TInv, NEW h \in Handlers, HandlerStep(h), FoundOpen(h), Overtake
    PROVE  FoundOpen(h)'
<1>1. CASE LastAttempt(h)
  BY <1>1, LookupFindsOpen
<1>2. CASE Cancel(h)
  <2>1. pc' = pc /\ PairOf(h)' = PairOf(h) /\ Want(h)' = Want(h)
    BY <1>2, InHandStays DEF Cancel, Hangup
  <2> QED BY <2>1, StaysOpen
<1>3. CASE \/ AnyAccept(h) \/ UpsertAlert(h) \/ CheckMutes(h) \/ Evaluate(h)
           \/ Notify(h) \/ RecordAttempt(h) \/ Respond(h) \/ Crash(h)
  <2>1. pc'[h] # "notify"
    BY <1>3, NextDecisionLeaves
    DEF AnyAccept, Accept, StartNext, UpsertAlert, CheckMutes, Evaluate, Notify, RecordAttempt,
        Respond, Crash, Leave, Goto, TInv, TypeOK
  <2> QED BY <2>1 DEF FoundOpen, At
<1> QED BY <1>1, <1>2, <1>3 DEF HandlerStep, Process, Environment

-----------------------------------------------------------------------------
(* All steps.                                                                *)

LEMMA StepKept ==
    ASSUME AInv, [ProcessStep]_vars, Lapse
    PROVE  \A p \in Pairs \ lapsed' : Kept(p)'
<1> SUFFICES ASSUME NEW p \in Pairs \ lapsed' PROVE Kept(p)'
  OBVIOUS
<1>1. ASSUME NEW h \in Handlers, HandlerStep(h)
      PROVE  Kept(p)'
  BY <1>1, HandlerKeeps DEF AInv
<1>2. CASE Operators \/ Tick \/ UNCHANGED vars
  <2>1. history' = history /\ last' = last /\ pc' = pc /\ status' = status
    BY <1>2 DEF Operators, CreateAnyMute, ExpireAnyCall, ExpireAnyUpdate, ExpireAnyFail,
                Tick, processVars, locals, vars, ghosts
  <2>2. \A h \in Handlers : PairOf(h)' = PairOf(h)
    BY <1>2, OtherStepSame, InHandStays DEF AInv
  <2>3. Recording(p)' = Recording(p)
    BY <2>1, <2>2 DEF Recording, At
  <2>4. \A h \in Handlers : ~Posts(h)
    BY <2>1 DEF Posts, At
  <2>5. Kept(p)
    BY <2>4 DEF Lapse, AInv
  <2> QED BY <2>1, <2>3, <2>5 DEF Kept
<1> QED BY <1>1, <1>2 DEF ProcessStep

LEMMA StepFoundOpen ==
    ASSUME AInv, [ProcessStep]_vars, Overtake, NEW g \in Handlers
    PROVE  FoundOpen(g)'
<1>1. ASSUME NEW h \in Handlers, HandlerStep(h)
      PROVE  FoundOpen(g)'
  <2>1. CASE g = h
    BY <1>1, <2>1, HandlerFindsOpen DEF AInv
  <2>2. CASE g # h
    <3>1. Same(g)
      BY <1>1, <2>2, HandlerStepSame DEF AInv
    <3> QED BY <3>1, InHandStays, StaysOpen DEF Same, AInv
  <2> QED BY <2>1, <2>2
<1>2. CASE Operators \/ Tick \/ UNCHANGED vars
  <2>1. TInv /\ FoundOpen(g)
    BY DEF AInv
  <2> QED BY <1>2, <2>1, OtherStepSame, InHandStays, StaysOpen
<1> QED BY <1>1, <1>2 DEF ProcessStep

LEMMA InitAInv == AttemptsInit => AInv
  BY InitTInv DEF AttemptsInit, AInv, Init, Kept, Recording, FoundOpen, At

LEMMA StepAInv == AInv /\ [AttemptsNext]_attemptVars => AInv'
<1> SUFFICES ASSUME AInv, [AttemptsNext]_attemptVars PROVE AInv'
  OBVIOUS
<1>1. CASE AttemptsNext
  <2>1. [ProcessStep]_vars /\ Lapse /\ Overtake
    BY <1>1, NextIsProcessStep DEF AttemptsNext
  <2>2. TInv'
    BY <2>1, StepTInv DEF AInv
  <2> QED BY <2>1, <2>2, StepKept, StepFoundOpen DEF AInv
<1>2. CASE UNCHANGED attemptVars
  <2>1. UNCHANGED vars /\ UNCHANGED <<lapsed, overtaken>>
    BY <1>2 DEF attemptVars
  <2>2. TInv'
    BY <2>1, StepTInv DEF AInv
  <2>3. /\ UNCHANGED <<pc, queue, now, todo, status, history, last>>
        /\ \A h \in Handlers : PairOf(h)' = PairOf(h) /\ Want(h)' = Want(h)
    BY <2>1, InHandStays DEF vars, locals, ghosts
  <2>4. \A p : Recording(p)' = Recording(p)
    BY <2>3 DEF Recording, At
  <2> QED BY <2>1, <2>2, <2>3, <2>4 DEF AInv, Kept, FoundOpen, At
<1> QED BY <1>1, <1>2

\* The row of a pair is its latest attempt's outcome, unless that is still to be
\* recorded, was lost, or attempts overlapped since: with any number of handlers
\* and every kind of fault (RecordAttempt's ON CONFLICT DO UPDATE).
THEOREM RowIsLatestAlways == AttemptsSpec => []RowIsLatest
<1>1. AInv => RowIsLatest
  BY DEF AInv, Kept, RowIsLatest
<1> QED BY <1>1, InitAInv, StepAInv, PTL DEF AttemptsSpec

\* A delivery that the latest attempt on its pair made is repeated only after a
\* lost record or an overlap: DESIGN's list of causes is complete, for any
\* number of handlers and every kind of fault.
THEOREM RepeatsHaveACauseAlways == AttemptsSpec => RepeatsHaveACause
<1>1. AInv /\ [AttemptsNext]_attemptVars =>
        [\A h \in Handlers : Posts(h) /\ last[PairOf(h)] = Want(h) =>
            \/ PairOf(h) \in lapsed
            \/ Recording(PairOf(h)) # {}
            \/ h \in overtaken]_attemptVars
  <2> SUFFICES ASSUME AInv, NEW h \in Handlers, Posts(h), last[PairOf(h)] = Want(h),
                      PairOf(h) \notin lapsed, Recording(PairOf(h)) = {}
               PROVE  h \in overtaken
    OBVIOUS
  <2>1. PairOf(h) \in Pairs
    BY PairInHand DEF AInv, TInv, Shape, InBatch, InLoop, Posts, At
  <2>2. history[PairOf(h)] = Want(h)
    BY <2>1 DEF AInv, Kept
  <2> QED BY <2>2 DEF AInv, FoundOpen, Posts
<1> QED BY <1>1, InitAInv, StepAInv, PTL DEF AttemptsSpec, RepeatsHaveACause
=============================================================================
