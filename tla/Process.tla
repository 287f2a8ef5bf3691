------------------------------ MODULE Process ------------------------------
(* POST /api/v2/alerts: every instance runs one handler per request in       *)
(* flight, and a handler walks the alerts of its batch through Chain.Process *)
(* one after the other.  Handlers share only the three tables, so which      *)
(* instance runs a handler does not matter.                                  *)
(*                                                                           *)
(* A handler's step is one database statement, one webhook POST or the local *)
(* work between two of them.  Where the code reads the clock just before a   *)
(* statement, the step picks any time since the handler's previous step.     *)
EXTENDS MuteStore, AlertStore

CONSTANTS
    Handlers,            \* requests in flight at once, over all instances
    Batches,             \* the requests the senders post
    Down,                \* receivers that never answer
    Faults,              \* the kinds of fault that may strike
    MaxFaults,           \* bound: how many of them do
    Impatient            \* senders hang up while a receiver hangs

FaultKinds == {"read", "write", "webhook", "cancel", "crash"}

ASSUME BatchesAssumption == Batches \subseteq Seq(Alerts)
ASSUME FaultsAssumption == Faults \subseteq FaultKinds /\ MaxFaults \in Nat
ASSUME ImpatientAssumption == Impatient \in BOOLEAN

VARIABLES
    \* per handler
    pc,                  \* what the handler does next
    queue,               \* the alerts of the batch still to process
    live,                \* the request's context is not cancelled
    since,               \* the clock at the handler's previous step
    now,                 \* Process's own reading of the clock
    todo,                \* the decisions the loop has not taken yet
    status,              \* what the attempt in hand will be recorded as
    told,                \* the two statuses in the payload in hand
    \* the notifications table: pair |-> status; sent_at is never read back
    history,
    \* faults so far
    faults,
    \* auxiliary: what the receivers saw and what the mutes were
    posted,              \* every webhook POST attempted, with its outcome
    last,                \* pair |-> outcome of the latest POST attempted
    held                 \* rows that covered the head alert when it came up

locals  == <<pc, queue, live, since, now, todo, status, told>>
ghosts  == <<posted, last, held>>
vars    == <<clock, muteVars, observed, locals, history, faults, ghosts>>

Postings ==
    [pair : Pairs, want : Sent, acked : BOOLEAN]

NothingTold == [status |-> None, alert |-> None]

TypeOK ==
    /\ ClockTypeOK
    /\ MuteTypeOK
    /\ AlertStoreTypeOK
    /\ pc \in [Handlers -> {"idle", "upsert", "mute", "evaluate", "lookup",
                            "notify", "record", "ok", "error"}]
    /\ queue \in [Handlers -> Seq(Alerts)]
    /\ live \in [Handlers -> BOOLEAN]
    /\ since \in [Handlers -> 0..clock]
    /\ now \in [Handlers -> 0..clock]
    /\ todo \in [Handlers -> SUBSET RuleIndexes]
    /\ status \in [Handlers -> Status \cup {None}]
    /\ told \in [Handlers -> [status : {"firing", "resolved", None},
                              alert  : {"firing", "resolved", None}]]
    /\ history \in [Pairs -> Status \cup {None}]
    /\ faults \in 0..MaxFaults
    /\ posted \subseteq Postings
    /\ last \in [Pairs -> Status \cup {None}]
    /\ held \in [Handlers -> SUBSET MuteRows]

Init ==
    /\ ClockInit
    /\ MuteInit
    /\ AlertStoreInit
    /\ pc = [h \in Handlers |-> "idle"]
    /\ queue = [h \in Handlers |-> <<>>]
    /\ live = [h \in Handlers |-> TRUE]
    /\ since = [h \in Handlers |-> 0]
    /\ now = [h \in Handlers |-> 0]
    /\ todo = [h \in Handlers |-> {}]
    /\ status = [h \in Handlers |-> None]
    /\ told = [h \in Handlers |-> NothingTold]
    /\ history = [p \in Pairs |-> None]
    /\ faults = 0
    /\ posted = {}
    /\ last = [p \in Pairs |-> None]
    /\ held = [h \in Handlers |-> {}]
-----------------------------------------------------------------------------
(* Faults and cancellation.  Every call of a handler carries the request's   *)
(* context: once it is cancelled, every database call and POST fails.  A     *)
(* failed write has changed nothing: one that had its effect although the    *)
(* caller saw an error is a success to every other step, as the error of a   *)
(* write is only logged, and a hang-up or a crash may follow it at once.     *)

Strike(kind) == kind \in Faults /\ faults < MaxFaults /\ faults' = faults + 1

Succeeds(h) == live[h] /\ UNCHANGED faults

Fails(h, kind) ==
    \/ live[h] /\ Strike(kind)
    \/ ~live[h] /\ UNCHANGED faults

-----------------------------------------------------------------------------
(* The alert, rule, pair and wish a handler has in hand.                     *)

Current(h) == Head(queue[h])
Rule(h)    == CHOOSE i \in todo[h] : \A j \in todo[h] : i <= j
PairOf(h)  == Pair(Rule(h), Current(h))
Want(h)    == Desired(Current(h), now[h])

At(h, place) == pc[h] = place
Goto(h, place) == pc' = [pc EXCEPT ![h] = place]
Stamp(h) == since' = [since EXCEPT ![h] = clock]

\* The rows in force right now that name the alert's labels.
Covering(alert) ==
    {m \in mutes : clock \in m.startsAt..m.endsAt /\ MatchAll(m.matchers, alert.labels)}

\* The handler turns to the first alert of rest, or answers 200.
StartNext(h, rest) ==
    /\ queue' = [queue EXCEPT ![h] = rest]
    /\ Goto(h, IF rest = <<>> THEN "ok" ELSE "upsert")
    /\ held' = [held EXCEPT ![h] =
                  IF rest = <<>> THEN {} ELSE Covering(Head(rest))]

\* Process returns nil: muted, no decision, or the loop is done.
FinishAlert(h) ==
    /\ StartNext(h, Tail(queue[h]))
    /\ todo' = [todo EXCEPT ![h] = {}]
    /\ now' = [now EXCEPT ![h] = 0]

\* Process returns an error: 500, and the rest of the batch is dropped.
Abort(h) ==
    /\ Goto(h, "error")
    /\ queue' = [queue EXCEPT ![h] = <<>>]
    /\ todo' = [todo EXCEPT ![h] = {}]
    /\ now' = [now EXCEPT ![h] = 0]
    /\ held' = [held EXCEPT ![h] = {}]

\* A slip: a failed POST returns from Process.
NextDecisionUnlessFailed(h) ==
    LET rest == todo[h] \ {Rule(h)} IN
    IF rest = {} \/ status[h] \in Status \ Sent THEN FinishAlert(h)
    ELSE /\ todo' = [todo EXCEPT ![h] = rest]
         /\ Goto(h, "lookup")
         /\ UNCHANGED <<queue, now, held>>

\* The end of one turn of the loop over the decisions.
NextDecision(h) ==
    LET rest == todo[h] \ {Rule(h)} IN
    IF rest = {} THEN FinishAlert(h)
    ELSE /\ todo' = [todo EXCEPT ![h] = rest]
         /\ Goto(h, "lookup")
         /\ UNCHANGED <<queue, now, held>>
-----------------------------------------------------------------------------
(* The handler.                                                              *)

\* A request with a well-formed body; any other is answered 400 at once.
Accept(h, batch) ==
    /\ At(h, "idle")
    /\ StartNext(h, batch)
    /\ live' = [live EXCEPT ![h] = TRUE]
    /\ Stamp(h)
    /\ UNCHANGED <<clock, muteVars, observed, now, todo, status, told,
                   history, faults, posted, last>>

\* Best effort: a failure is logged and the alert goes on.
UpsertAlert(h) ==
    /\ At(h, "upsert")
    /\ \/ /\ Succeeds(h)
          /\ \E t \in since[h]..clock : observed' = Upserted(observed, Current(h), t)
       \/ Fails(h, "write") /\ UNCHANGED observed
    /\ Goto(h, "mute")
    /\ Stamp(h)
    /\ UNCHANGED <<clock, muteVars, queue, live, now, todo, status, told,
                   history, ghosts>>

\* Store.Matches: without an answer the alert is not let through.
CheckMutes(h) ==
    /\ At(h, "mute")
    /\ \/ /\ Succeeds(h)
          /\ \E t \in since[h]..clock :
                \/ Matches(Current(h), t) /\ FinishAlert(h)
                \/ /\ ~Matches(Current(h), t)
                   /\ Goto(h, "evaluate")
                   /\ UNCHANGED <<queue, now, todo, held>>
       \/ Fails(h, "read") /\ Abort(h)
    /\ Stamp(h)
    /\ UNCHANGED <<clock, muteVars, observed, live, status, told, history,
                   posted, last>>

\* Evaluate, and the one reading of the clock all decisions share.
Evaluate(h) ==
    /\ At(h, "evaluate")
    /\ LET matching == Decisions(Current(h).labels) IN
       \/ matching = {} /\ FinishAlert(h)
       \/ /\ matching # {}
          /\ todo' = [todo EXCEPT ![h] = matching]
          /\ now' = [now EXCEPT ![h] = clock]
          /\ Goto(h, "lookup")
          /\ UNCHANGED <<queue, held>>
    /\ Stamp(h)
    /\ UNCHANGED <<clock, muteVars, observed, live, status, told, history,
                   faults, posted, last>>

\* Slips in the comparison: resolved attempts never deduplicated; any attempt,
\* failed or not, taken for a delivery.
DeliveredIfFiring(h) == Want(h) = "firing-sent" /\ history[PairOf(h)] = Want(h)
DeliveredIfTried(h) == history[PairOf(h)] \in {Want(h), Failed(Want(h))}

\* Already recorded: this decision is done with.
Delivered(h) == history[PairOf(h)] = Want(h)

LastAttempt(h) ==
    /\ At(h, "lookup")
    /\ \/ Succeeds(h) /\ Delivered(h) /\ NextDecision(h)
       \/ /\ Succeeds(h) /\ ~Delivered(h)
          /\ Goto(h, "notify")
          /\ UNCHANGED <<queue, now, todo, held>>
       \/ Fails(h, "read") /\ Abort(h)
    /\ Stamp(h)
    /\ UNCHANGED <<clock, muteVars, observed, live, status, told, history,
                   posted, last>>

\* A POST is acknowledged, by an answer below 400, or it fails: it is refused,
\* never arrives, or arrives and its answer does not come back in time.
PostEnds(h, acked) ==
    IF Rules[Rule(h)].receiver \in Down
    THEN ~acked /\ UNCHANGED faults
    ELSE IF acked THEN Succeeds(h) ELSE Fails(h, "webhook")

\* A slip: the error of Notify dropped.
OutcomeUnchecked(h, acked) == IF acked THEN Want(h) ELSE Want(h)

\* The status Process records for the attempt.
Outcome(h, acked) == IF acked THEN Want(h) ELSE Failed(Want(h))

\* alertStatus reads the clock again, twice: once for the payload's status,
\* then for that of its only alert.
Notify(h) ==
    /\ At(h, "notify")
    /\ \E t1 \in since[h]..clock : \E t2 \in t1..clock :
          told' = [told EXCEPT ![h] =
                     [status |-> AlertStatus(Current(h), t1),
                      alert  |-> AlertStatus(Current(h), t2)]]
    /\ \E acked \in BOOLEAN :
          /\ PostEnds(h, acked)
          /\ status' = [status EXCEPT ![h] = Outcome(h, acked)]
          /\ last' = [last EXCEPT ![PairOf(h)] = Outcome(h, acked)]
          /\ posted' = posted \cup
                {[pair |-> PairOf(h), want |-> Want(h), acked |-> acked]}
    /\ Goto(h, "record")
    /\ Stamp(h)
    /\ UNCHANGED <<clock, muteVars, observed, queue, live, now, todo, history,
                   held>>

\* A slip: ON CONFLICT DO NOTHING.
RecordedOnce(h) ==
    IF history[PairOf(h)] = None
    THEN [history EXCEPT ![PairOf(h)] = status[h]] ELSE history

\* ON CONFLICT DO UPDATE, whatever the row holds by then.
Recorded(h) == [history EXCEPT ![PairOf(h)] = status[h]]

\* A failure to write is logged only.
RecordAttempt(h) ==
    /\ At(h, "record")
    /\ \/ Succeeds(h) /\ history' = Recorded(h)
       \/ Fails(h, "write") /\ UNCHANGED history
    /\ NextDecision(h)
    /\ status' = [status EXCEPT ![h] = None]
    /\ told' = [told EXCEPT ![h] = NothingTold]
    /\ Stamp(h)
    /\ UNCHANGED <<clock, muteVars, observed, live, posted, last>>

\* The handler is gone, with everything it held in memory.
Leave(h) ==
    /\ Goto(h, "idle")
    /\ queue' = [queue EXCEPT ![h] = <<>>]
    /\ live' = [live EXCEPT ![h] = TRUE]
    /\ since' = [since EXCEPT ![h] = 0]
    /\ now' = [now EXCEPT ![h] = 0]
    /\ todo' = [todo EXCEPT ![h] = {}]
    /\ status' = [status EXCEPT ![h] = None]
    /\ told' = [told EXCEPT ![h] = NothingTold]
    /\ held' = [held EXCEPT ![h] = {}]

Respond(h) ==
    /\ pc[h] \in {"ok", "error"}
    /\ Leave(h)
    /\ UNCHANGED <<clock, muteVars, observed, history, faults, posted, last>>

Process(h) ==
    \/ UpsertAlert(h) \/ CheckMutes(h) \/ Evaluate(h) \/ LastAttempt(h)
    \/ Notify(h) \/ RecordAttempt(h) \/ Respond(h)
-----------------------------------------------------------------------------
(* The surroundings.                                                         *)

Busy(h) == pc[h] \notin {"idle", "ok", "error"}

\* The sender hangs up: its own timeout, or its process going away.
Hangup(h) ==
    /\ Busy(h) /\ live[h]
    /\ live' = [live EXCEPT ![h] = FALSE]
    /\ UNCHANGED <<clock, muteVars, observed, pc, queue, since, now, todo,
                   status, told, history, ghosts>>

\* The POST waits for a receiver that never answers. Prometheus gives a push as
\* long as Process gives one POST, so that this uses up the sender's patience
\* before its own timeout ends.
Hangs(h) == At(h, "notify") /\ Rules[Rule(h)].receiver \in Down

\* Impatient senders hang up whenever a receiver hangs, which is no fault counted.
Cancel(h) ==
    /\ Hangup(h)
    /\ IF Impatient /\ Hangs(h) THEN UNCHANGED faults ELSE Strike("cancel")

\* The instance dies, or shutdown gives up waiting for the request.
Crash(h) ==
    /\ Busy(h)
    /\ Strike("crash")
    /\ Leave(h)
    /\ UNCHANGED <<clock, muteVars, observed, history, posted, last>>

processVars == <<observed, locals, history, faults, posted, last>>

Tick == ClockTick /\ UNCHANGED <<muteVars, processVars, held>>

CreateAnyMute ==
    /\ \E req \in MuteRequests : CreateMute(req)
    /\ UNCHANGED <<clock, processVars, held>>

ExpireAnyCall ==
    /\ \E id \in MuteIds : ExpireCall(id)
    /\ UNCHANGED <<clock, processVars, held>>

\* A row an operator ended no longer holds anything.
ExpireAnyUpdate ==
    /\ \E call \in expiring :
          /\ ExpireUpdate(call)
          /\ held' = [h \in Handlers |-> {m \in held[h] : m.id # call.id}]
    /\ UNCHANGED <<clock, processVars>>

ExpireAnyFail ==
    /\ \E call \in expiring : ExpireFail(call)
    /\ UNCHANGED <<clock, processVars, held>>

Operators == CreateAnyMute \/ ExpireAnyCall \/ ExpireAnyUpdate \/ ExpireAnyFail

Next ==
    \/ \E h \in Handlers :
          \/ \E batch \in Batches : Accept(h, batch)
          \/ Process(h)
          \/ Cancel(h) \/ Crash(h)
    \/ Operators
    \/ Tick

Spec == Init /\ [][Next]_vars

\* A handler the sender waits for runs on: its database calls and POSTs end,
\* in success or in failure.
Fairness == \A h \in Handlers : WF_vars(Process(h))
-----------------------------------------------------------------------------
(* Safety.                                                                   *)

\* A pair recorded as firing-sent or resolved-sent was delivered as such: some
\* POST that asked for it was acknowledged (DESIGN, Status state machine).
SentIsAcked ==
    \A p \in Pairs : history[p] \in Sent =>
        [pair |-> p, want |-> history[p], acked |-> TRUE] \in posted

\* No alert gets past the mute check while a row that covered it when its turn
\* came is still in force, whatever operators create or expire meanwhile; only
\* a row that ran out by itself, before Process read the clock, lets it pass.
MuteRespected ==
    \A h \in Handlers : pc[h] \in {"lookup", "notify", "record"} =>
        \A m \in held[h] : m.endsAt < now[h]

\* An attempt to resolve never carries a payload that says firing, although the
\* payload's status is read from the clock apart from the one recorded.
ResolvedIsToldResolved ==
    \A h \in Handlers : At(h, "record") /\ Want(h) = "resolved-sent" =>
        told[h] = [status |-> "resolved", alert |-> "resolved"]

\* The row of a pair no handler is about to write is the outcome of the latest
\* attempt on it ("the most recent attempt per (rule_name, fingerprint)").
HistoryIsLatest ==
    \A p \in Pairs :
        (\A h \in Handlers : At(h, "record") => PairOf(h) # p)
            => history[p] = last[p]

\* What is recorded as a firing attempt was put to the receiver as firing
\* ("firing-sent: the firing alert was delivered").
FiringIsToldFiring ==
    \A h \in Handlers : At(h, "record") /\ Want(h) = "firing-sent" =>
        told[h] = [status |-> "firing", alert |-> "firing"]

-----------------------------------------------------------------------------
(* What a step may never do.                                                 *)

\* The loop over the decisions ends for this alert.
LoopEnds(h) == pc[h] \in {"lookup", "record"} /\ pc'[h] \in {"upsert", "ok"}

AllAsked(h) ==
    \A i \in Decisions(Current(h).labels) :
        \E n \in posted' : n.pair = Pair(i, Current(h)) /\ n.want = Want(h)

\* When Process is done with an unmuted alert, every rule that applies to it
\* has had its status attempted, now or earlier: neither a receiver that fails
\* nor a pair already delivered cuts the fan-out short.
FanOutComplete == [][\A h \in Handlers : LoopEnds(h) => AllAsked(h)]_vars

\* A POST never repeats what the latest attempt on its pair delivered (DESIGN,
\* operating rules 1 and 2).
NeverRepeats ==
    [][\A h \in Handlers : At(h, "notify") /\ pc'[h] = "record" =>
          last[PairOf(h)] # Want(h)]_vars

\* No alert is dropped for a mute that had run out, or was ended, before the
\* check began, nor for one that has not started.
SuppressedOnlyInForce ==
    [][\A h \in Handlers : At(h, "mute") /\ pc'[h] \in {"upsert", "ok"} =>
          \E m \in mutes :
              /\ MatchAll(m.matchers, Current(h).labels)
              /\ m.startsAt <= clock /\ since[h] <= m.endsAt]_vars

\* What the UI shows of when an alert was seen ("first_seen_at is preserved on
\* update; last_seen_at is set to now"): the first time stays, and the last one
\* moves forward, never back to a time before one it has already shown.
SeenOnlyForward ==
    [][\A fp \in DOMAIN observed :
          /\ observed'[fp].firstSeenAt = observed[fp].firstSeenAt
          /\ observed'[fp].lastSeenAt >= observed[fp].lastSeenAt]_vars
-----------------------------------------------------------------------------
(* The promise of Delivery, seen in the state of the daemon: a handler works *)
(* on a pair from the lookup that finds it open to the write of its row.     *)

WantOf(s) ==
    CASE s \in {"firing-sent", "firing-failed"}     -> "firing"
      [] s \in {"resolved-sent", "resolved-failed"} -> "resolved"
      [] OTHER                                      -> "none"

OutcomeOf(s) == [want |-> WantOf(s), delivered |-> s \in Sent]

WorkOf(h) ==
    CASE At(h, "notify") -> [step |-> "taken", key |-> PairOf(h), want |-> WantOf(Want(h))]
      [] At(h, "record") ->
            [step |-> "attempted", key |-> PairOf(h), outcome |-> OutcomeOf(status[h])]
      [] OTHER -> [step |-> "idle"]

Promise == INSTANCE Delivery WITH
    Workers <- Handlers,
    Keys    <- Pairs,
    rows    <- [p \in Pairs |-> OutcomeOf(history[p])],
    work    <- [h \in Handlers |-> WorkOf(h)],
    acks    <- {<<n.pair, WantOf(n.want)>> : n \in {m \in posted : m.acked}}

\* Whatever batches, mutes, faults and other requests do, each handler attempts
\* a pair only after it found it open, and writes only how its attempt ended.
KeepsPromise == Promise!DeliverySpec
-----------------------------------------------------------------------------
(* Liveness.                                                                 *)

\* A sender keeps pushing its batches, as Prometheus does every resend delay.
\* Strong, because the few handlers of the model may all be busy; the server
\* takes every request.
Persistence ==
    \A batch \in Batches : SF_vars(\E h \in Handlers : Accept(h, batch))

FairSpec == Spec /\ Fairness /\ Persistence

Healthy(i) == Rules[i].receiver \notin Down

\* Operators leave the alert muted in the end.
MutedForGood(labels) ==
    <>[](\E m \in mutes : Active(m, clock) /\ MatchAll(m.matchers, labels))

\* While senders push alerts that never end, the receiver of every rule that
\* applies hears of them, although another one is down and mutes come and go,
\* unless one stays.
HealthyReceiversHear ==
    \A batch \in Batches : \A k \in DOMAIN batch :
        \A i \in Decisions(batch[k].labels) : Healthy(i) =>
            \/ <>([pair |-> Pair(i, batch[k]), want |-> "firing-sent",
                   acked |-> TRUE] \in posted)
            \/ MutedForGood(batch[k].labels)
=============================================================================
