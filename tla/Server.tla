------------------------------- MODULE Server -------------------------------
(* One instance of the daemon as a process: `serve` from the flags to the    *)
(* exit (cmd/alertchain/main.go), its pool of database connections           *)
(* (internal/store/store.go) and its counters (metrics.go).  Of a request it *)
(* keeps what these three see: when it needs a connection, when it waits for *)
(* a receiver, what it counts.  What it says and stores is in Process.       *)
EXTENDS Naturals, Sequences, FiniteSets

CONSTANTS
    Requests,            \* requests an instance may have in flight
    MaxOpenConns,        \* -db-max-open-conns
    Fanout,              \* the most rules that apply to an alert
    PageMutes,           \* mutes the mutes page lists
    MaxReceived,         \* bound: alerts the instance takes
    MaxFaults,           \* bound: database calls that fail, and crashes
    MaxRestarts          \* bound: how often the daemon is started again

\* cmdServe refuses a pool without connections.
ASSUME PoolAssumption == MaxOpenConns \in Nat \ {0}
ASSUME ServerBoundsAssumption ==
    /\ IsFiniteSet(Requests)
    /\ Fanout \in Nat /\ PageMutes \in Nat
    /\ MaxReceived \in Nat /\ MaxFaults \in Nat /\ MaxRestarts \in Nat

VARIABLES
    tables,              \* the schema, which migrations extend out of band
    stage,
    checked,             \* tables checkSchema has found so far
    exit,                \* how the process ended
    at,                  \* request |-> what it does next
    left,                \* request |-> turns of its loop not done with
    held,                \* the pool: requests that hold a connection
    counters,
    faults, restarts,
    \* auxiliary
    finished,            \* alerts Process returned nil for
    written              \* rows of the history written

requestVars == <<at, left, held>>
processVars == <<stage, checked, exit>>
boundVars   == <<faults, restarts>>
tallies     == <<finished, written>>
vars == <<tables, processVars, requestVars, counters, boundVars, tallies>>

RequiredTables == <<"mutes", "notifications", "alerts">>

CounterNames == {"received", "success", "failure",
                 "muteLookup", "historyLookup", "historyWrite"}

AlertQueries  == {"upsert", "mutes", "lookup", "record"}
AlertSteps    == AlertQueries \cup {"post"}
DatabaseSteps == AlertQueries \cup {"list", "match"}

ServerTypeOK ==
    /\ tables \subseteq {RequiredTables[i] : i \in DOMAIN RequiredTables}
    /\ stage \in {"starting", "checking", "serving", "draining", "closing", "stopped"}
    /\ checked \in 0..Len(RequiredTables)
    /\ exit \in {"none", "clean", "error"}
    /\ at \in [Requests -> DatabaseSteps \cup {"none", "next", "post"}]
    /\ left \in [Requests -> Nat]
    /\ held \subseteq {r \in Requests : at[r] \in DatabaseSteps}
    /\ Cardinality(held) <= MaxOpenConns
    /\ counters \in [CounterNames -> Nat]
    /\ faults \in 0..MaxFaults
    /\ restarts \in 0..MaxRestarts
    /\ finished \in Nat /\ written \in Nat

Zero == [name \in CounterNames |-> 0]

Init ==
    /\ tables = {}
    /\ stage = "starting" /\ checked = 0 /\ exit = "none"
    /\ at = [r \in Requests |-> "none"]
    /\ left = [r \in Requests |-> 0]
    /\ held = {}
    /\ counters = Zero
    /\ faults = 0 /\ restarts = 0
    /\ finished = 0 /\ written = 0
-----------------------------------------------------------------------------
(* Startup.                                                                  *)

Enter(from, to) == stage = from /\ stage' = to

\* The up migrations, which an operator applies in order, at any time.
Migrate ==
    /\ \/ tables = {} /\ tables' = {"mutes", "notifications"}
       \/ "mutes" \in tables /\ tables' = tables \cup {"alerts"}
    /\ tables' # tables
    /\ UNCHANGED <<processVars, requestVars, counters, boundVars, tallies>>

\* Flags, DATABASE_URL, LoadConfig and the ping: any of them may end it.
Open ==
    /\ \/ Enter("starting", "checking") /\ UNCHANGED exit
       \/ Enter("starting", "stopped") /\ exit' = "error"
    /\ UNCHANGED <<tables, checked, requestVars, counters, boundVars, tallies>>

\* A slip: the table of the second migration not asked for.
SchemaCheckedButLast == checked >= Len(RequiredTables) - 1

SchemaChecked == checked >= Len(RequiredTables)

\* checkSchema, one table at a time, within the ten seconds of
\* openStoreWithTimeout.
CheckTable ==
    /\ stage = "checking" /\ ~SchemaChecked
    /\ \/ /\ RequiredTables[checked + 1] \in tables
          /\ checked' = checked + 1
          /\ UNCHANGED <<stage, exit>>
       \/ stage' = "stopped" /\ exit' = "error" /\ checked' = 0
    /\ UNCHANGED <<tables, requestVars, counters, boundVars, tallies>>

Serve ==
    /\ SchemaChecked /\ Enter("checking", "serving")
    /\ UNCHANGED <<tables, checked, exit, requestVars, counters, boundVars, tallies>>
-----------------------------------------------------------------------------
(* The pool. A handler has a connection for one statement at a time; once    *)
(* the store is closed, waiting and new calls fail.                          *)

Waiting(r) == at[r] \in DatabaseSteps /\ r \notin held

Acquire(r) ==
    /\ stage \in {"serving", "draining"}
    /\ Waiting(r) /\ Cardinality(held) < MaxOpenConns
    /\ held' = held \cup {r}
    /\ UNCHANGED <<tables, processVars, at, left, counters, boundVars, tallies>>

\* A slip: the rows of a query left open.
ReleasedByWrites(r) == IF at[r] \in {"upsert", "record"} THEN held \ {r} ELSE held

\* Exec and Scan give the connection back, as do the deferred rows.Close.
Released(r) == held \ {r}

\* A statement of r ends.
Ends(r, step) == at[r] = step /\ held' = Released(r)

Succeeds(r) == r \in held /\ UNCHANGED faults

Fails(r) ==
    \/ r \in held /\ faults < MaxFaults /\ faults' = faults + 1
    \/ stage = "closing" /\ UNCHANGED faults
-----------------------------------------------------------------------------
(* POST /api/v2/alerts, as far as the counters go. Turns that do not change  *)
(* them are in Process.                                                      *)

Goto(r, step) == at' = [at EXCEPT ![r] = step]
Turns(r, n)   == left' = [left EXCEPT ![r] = n]
Count(name)   == counters' = [counters EXCEPT ![name] = counters[name] + 1]

Rest == <<tables, processVars, restarts>>

\* The first alert of a batch, or the next one.
TakeAlert(r) ==
    /\ \/ stage = "serving" /\ at[r] = "none"
       \/ at[r] = "next"
    /\ counters["received"] < MaxReceived
    /\ Count("received")
    /\ Goto(r, "upsert")
    /\ UNCHANGED <<Rest, left, held, faults, tallies>>

\* 200, behind the last alert.
EndBatch(r) ==
    /\ at[r] = "next"
    /\ Goto(r, "none")
    /\ UNCHANGED <<Rest, left, held, counters, faults, tallies>>

Finish(r) ==
    /\ Goto(r, "next") /\ Turns(r, 0)
    /\ finished' = finished + 1

\* 500: the alerts behind are not processed.
Refuse(r) ==
    /\ Goto(r, "none") /\ Turns(r, 0)
    /\ UNCHANGED finished

NextDecision(r) ==
    \/ left[r] = 1 /\ Finish(r)
    \/ left[r] > 1 /\ Goto(r, "lookup") /\ Turns(r, left[r] - 1) /\ UNCHANGED finished

Upsert(r) ==
    /\ Ends(r, "upsert")
    /\ Succeeds(r) \/ Fails(r)
    /\ Goto(r, "mutes")
    /\ UNCHANGED <<Rest, left, counters, tallies>>

\* Muted or without a rule; with rules to go through; or no answer.
CheckMutes(r) ==
    /\ Ends(r, "mutes")
    /\ \/ Succeeds(r) /\ Finish(r) /\ UNCHANGED counters
       \/ /\ Succeeds(r)
          /\ \E n \in 1..Fanout : Turns(r, n)
          /\ Goto(r, "lookup")
          /\ UNCHANGED <<counters, finished>>
       \/ Fails(r) /\ Refuse(r) /\ Count("muteLookup")
    /\ UNCHANGED <<Rest, written>>

\* Already delivered; to be delivered; or no answer.
LookUp(r) ==
    /\ Ends(r, "lookup")
    /\ \/ Succeeds(r) /\ NextDecision(r) /\ UNCHANGED counters
       \/ Succeeds(r) /\ Goto(r, "post") /\ UNCHANGED <<left, counters, finished>>
       \/ Fails(r) /\ Refuse(r) /\ Count("historyLookup")
    /\ UNCHANGED <<Rest, written>>

\* A slip: a failed POST not counted.
CountAcknowledged == Count("success") \/ UNCHANGED counters

CountOutcome == Count("success") \/ Count("failure")

\* The POST, which needs no connection.
Post(r) ==
    /\ at[r] = "post"
    /\ CountOutcome
    /\ Goto(r, "record")
    /\ UNCHANGED <<Rest, left, held, faults, tallies>>

Record(r) ==
    /\ Ends(r, "record")
    /\ \/ Succeeds(r) /\ written' = written + 1 /\ UNCHANGED counters
       \/ Fails(r) /\ Count("historyWrite") /\ UNCHANGED written
    /\ NextDecision(r)
    /\ UNCHANGED Rest
-----------------------------------------------------------------------------
(* GET /ui/mutes/: one query for the mutes and then one for each of them.    *)

OpenPage(r) ==
    /\ stage = "serving" /\ at[r] = "none"
    /\ Goto(r, "list")
    /\ UNCHANGED <<Rest, left, held, counters, faults, tallies>>

\* The page is rendered, or the next mute matched.
TurnPage(r, n) == Turns(r, n) /\ Goto(r, IF n = 0 THEN "none" ELSE "match")

ListMutes(r) ==
    /\ Ends(r, "list")
    /\ \/ Succeeds(r) /\ \E n \in 0..PageMutes : TurnPage(r, n)
       \/ Fails(r) /\ TurnPage(r, 0)
    /\ UNCHANGED <<Rest, counters, tallies>>

\* A failed query is logged and the page goes on.
MatchAlerts(r) ==
    /\ Ends(r, "match")
    /\ Succeeds(r) \/ Fails(r)
    /\ TurnPage(r, left[r] - 1)
    /\ UNCHANGED <<Rest, counters, tallies>>

DatabaseCall(r) ==
    Upsert(r) \/ CheckMutes(r) \/ LookUp(r) \/ Record(r) \/ ListMutes(r) \/ MatchAlerts(r)

Request(r) ==
    TakeAlert(r) \/ EndBatch(r) \/ OpenPage(r) \/ Acquire(r) \/ DatabaseCall(r) \/ Post(r)
-----------------------------------------------------------------------------
(* Shutdown.                                                                 *)

\* SIGINT or SIGTERM: no new request is taken.
Signal ==
    /\ Enter("serving", "draining")
    /\ UNCHANGED <<tables, checked, exit, requestVars, counters, boundVars, tallies>>

\* ListenAndServe returns an error; the select has no third case.
ListenFails ==
    /\ Enter("serving", "closing") /\ exit' = "error"
    /\ UNCHANGED <<tables, checked, requestVars, counters, boundVars, tallies>>

\* A slip: http.Server.Close in place of Shutdown.
DrainedAtOnce == stage = "draining"

Drained == stage = "draining" /\ \A r \in Requests : at[r] = "none"

\* Shutdown returns nil, and the deferred db.Close runs.
ShutDown ==
    /\ Drained /\ Enter("draining", "closing") /\ exit' = "clean"
    /\ UNCHANGED <<tables, checked, requestVars, counters, boundVars, tallies>>

\* A slip: Shutdown without a deadline.
GraceNever == FALSE

\* The ten seconds of shutdownCtx are over.
Grace == stage = "draining"

GraceOver ==
    /\ Grace /\ Enter("draining", "closing") /\ exit' = "error"
    /\ UNCHANGED <<tables, checked, requestVars, counters, boundVars, tallies>>

\* The process is gone, with everything it held in memory.
Forget ==
    /\ stage' = "stopped" /\ checked' = 0
    /\ at' = [r \in Requests |-> "none"]
    /\ left' = [r \in Requests |-> 0]
    /\ held' = {}
    /\ counters' = Zero
    /\ finished' = 0 /\ written' = 0

\* main returns while handlers may still run.
Exit ==
    /\ stage = "closing"
    /\ Forget
    /\ UNCHANGED <<tables, exit, boundVars>>

Crash ==
    /\ stage # "stopped" /\ faults < MaxFaults
    /\ faults' = faults + 1
    /\ exit' = "error"
    /\ Forget
    /\ UNCHANGED <<tables, restarts>>

Restart ==
    /\ restarts < MaxRestarts /\ Enter("stopped", "starting")
    /\ restarts' = restarts + 1
    /\ exit' = "none"
    /\ UNCHANGED <<tables, checked, requestVars, counters, faults, tallies>>

Next ==
    \/ Migrate \/ Open \/ CheckTable \/ Serve
    \/ \E r \in Requests : Request(r)
    \/ Signal \/ ListenFails \/ ShutDown \/ GraceOver \/ Exit
    \/ Crash \/ Restart

Spec == Init /\ [][Next]_vars

\* Statements end, the pool serves each request that keeps waiting, and time
\* passes. Nothing is assumed of receivers, senders and operators.
Fairness ==
    /\ \A r \in Requests : WF_vars(DatabaseCall(r)) /\ SF_vars(Acquire(r))
    /\ WF_vars(GraceOver) /\ WF_vars(Exit)

FairSpec == Spec /\ Fairness
-----------------------------------------------------------------------------
(* Properties.                                                               *)

\* "A misconfigured deployment fails at startup rather than at the first runtime
\* query": an instance that serves has every table its queries name.
ServesWithSchema ==
    stage \in {"serving", "draining"} =>
        \A i \in DOMAIN RequiredTables : RequiredTables[i] \in tables

InHand(steps) == Cardinality({r \in Requests : at[r] \in steps})

\* Whatever requests run beside each other and whatever fails, the counters
\* account for every alert and every delivery: an alert received is finished
\* with, refused by one counted lookup, or in hand; a delivery counted is in the
\* history, counted as not written, or about to be written.
CountersBalance ==
    /\ counters["received"] =
          finished + counters["muteLookup"] + counters["historyLookup"] + InHand(AlertSteps)
    /\ counters["success"] + counters["failure"] =
          written + counters["historyWrite"] + InHand({"record"})

\* A clean exit leaves nothing behind: every alert received was finished with
\* or refused, and every delivery written or counted as not written.
CleanExit ==
    exit = "clean" /\ stage = "closing" =>
        /\ counters["received"] =
              finished + counters["muteLookup"] + counters["historyLookup"]
        /\ counters["success"] + counters["failure"] = written + counters["historyWrite"]

\* Receivers that never answer and pages with many queries do not use up the
\* pool: a request that waits for a connection gets one, or is told that there
\* is none any more, however small the pool is.
Served == \A r \in Requests : Waiting(r) ~> ~Waiting(r)

\* Once asked to stop the process stops, although a receiver never answers.
ShutdownEnds == stage = "draining" ~> stage = "stopped"
=============================================================================
