# alertchain: a verification project

alertchain receives alerts from Prometheus-like senders, suppresses those an
operator has muted, walks a list of rules and posts each matching alert to
webhooks. It keeps all its state in three PostgreSQL tables and runs any number
of instances, any number of requests at a time, without a lock or a transaction
that spans two statements. These modules say what that promises, TLC checks it
on small instances and TLAPS proves nearly all of it but liveness for every size
(section 6).

## 1. Inventory

| Component | State | Operations | Hard part | What makes it correct |
|---|---|---|---|---|
| Alert intake (`api/alerts.go`) and `Chain.Process` (`chain.go`) | per request: the batch, the decisions left, one reading of the clock | upsert, mute check, evaluate, then per rule: lookup, POST, record | requests interleave on one alert; every step can fail, hang or be the last one before a crash; the sender's hang-up cancels all of it | recorded as sent only if acknowledged; no rule skipped; no delivery repeated; healthy receivers hear |
| Rule list (`chain.go`) | fixed after loading | `MatchAll`, `Evaluate`, `Validate` | order, `continue`, missing labels | the decisions are those of the first final match and the continuing ones above it |
| Webhook (`notify.go`) | none | one POST | reads the clock again; answers late, lost or never | the payload says what is recorded |
| History (`store.go`, `notifications`) | status by (rule, fingerprint) | `LastAttempt`, `RecordAttempt` | read, POST and write are three steps | the row is the latest attempt |
| Sender (DESIGN, outside the repository) | one alert that fires and resolves again and again | push, re-push | it is told 200 or not, and nothing else | every occurrence is told |
| Mutes (`mute.go`, `store.go`, `api/mutes.go`) | rows with matchers and an interval | create, expire, match, list | created and expired while a handler checks; closed at both ends; expire of a pending mute | muted exactly while in force |
| Observed alerts (`alert_store.go`, `store.go`) | one row per fingerprint | upsert, list, containment query | late upserts; NULL; limit | shown as it was seen |
| Web UI (`ui/handlers.go`) | none; the form lives in the browser | both tabs, mutes page (one query per mute), create form, expire button | queries at different times; two notions of matching; times cut to the minute; text that becomes matchers | nothing hidden, nothing shown wrongly, the form does what it shows |
| Config, `check`, `trace`, `verify` | the file | load, warn, dry run, compare | the loop exists twice | the tools tell what the daemon does |
| Serve, shutdown, schema (`main.go`, `store.go`, migrations) | the stage of the process | schema check, serve, signal, drain, close | an operator migrates while it starts; shutdown gives up after ten seconds | serves only with its tables; always stops; a clean exit is clean |
| Connection pool (`store.go`) | who holds a connection | acquire, release | small pool, slow receivers, many queries per page | nobody waits for ever |
| Metrics (`metrics.go`) | six counters | count | kept on error paths in four places | they account for every alert and delivery |
| HTTP routing, test lock | - | - | - | section 8 |

Components interact through the tables only: handlers write `alerts` and
`notifications` and read `mutes`; operators write `mutes`; the UI reads `alerts`
and `mutes`. Within an instance they also share the pool and the counters. The
hazards this leaves are listed in `PROJECT.json`, each at its line and with the
properties that watch it.

## 2. Modules

| Module | Models | Uses |
|---|---|---|
| `Clock` | `time.Now()`: one wall clock for the deployment; `0` is `time.Time{}` | |
| `Routing` | the pure functions of `chain.go` and `alertStatus`; a label set stands for its fingerprint | |
| `MuteStore` | the `mutes` table, create and expire (expire is two steps: the clock is read, then the UPDATE runs) | `Clock`, `Routing` |
| `AlertStore` | the `alerts` table and its upsert | `Clock`, `Routing` |
| `Process` | handlers, the `notifications` table, faults, operators | `MuteStore`, `AlertStore` |
| `Delivery` | the abstract promise of one (rule, fingerprint) pair | nothing: `Process` instantiates it |
| `Sender` | a Prometheus-like sender in front of the handlers | `Process` |
| `Attempts` | what overlaps and lost records do to the history | `Process` |
| `Views` | the firing tab and the mutes page over the same two tables | `MuteStore`, `AlertStore` |
| `UI` | a browser tab: the pages, the mute form, the expired tab | `Views` |
| `Tools` | config loading with its `ui` section, `check`, `verify`, `trace` | `Routing` |
| `Server` | one instance as a process: startup, pool, counters, shutdown | |
| `MC...` | the values the configurations use | |
| `...Proofs` | theorems, section 6 | |

### Process

A handler is a program counter with the local variables of `post` and `Process`.
One step is one database statement, one POST, or the local work in between:

| `pc` | Step | Code |
|---|---|---|
| `idle` | `Accept`: a batch arrives | `alerts.go:44-57` |
| `upsert` | `UpsertAlert`: best effort, a failure is logged | `chain.go:116-121` |
| `mute` | `CheckMutes`: muted, go on, or 500 | `chain.go:123-131` |
| `evaluate` | `Evaluate`: the decisions, and `now` | `chain.go:133-140` |
| `lookup` | `LastAttempt`: skip, go on, or 500 | `chain.go:149-160` |
| `notify` | `Notify`: the POST and the status to record | `chain.go:162-174`, `notify.go` |
| `record` | `RecordAttempt`: a failure is logged | `chain.go:176-184` |
| `ok`, `error` | `Respond` | `alerts.go:58-65` |

Where the code reads the clock just before a statement (the upsert, `Matches`,
`alertStatus`) the step uses any time between the handler's previous step and the
present one, so that a slow connection pool or database is covered. `now`, on
which all decisions of an alert rest, is a variable because it is used many steps
after it is read.

Faults: a database read or write fails, a POST fails (refused, or delivered and
its answer lost: either way the code sees an error), the sender hangs up, an
instance dies. `MaxFaults` bounds how many strike. A receiver in `Down` never
answers, which is no fault counted. After a hang-up (`live` is FALSE) every
call fails at once, as calls under a cancelled context do. With `Impatient` a sender
may hang up whenever a receiver hangs, and no fault is counted: `notifyTimeout` is
ten seconds, and so is the time Prometheus gives a push.

`posted`, `last` and `held` are auxiliary: they record what receivers were sent
and which mutes covered an alert when its turn came, and no step reads them.

### Delivery

DESIGN's status state machine on its own: workers take a pair only if the table
does not call what they want delivered, attempt it once, and record how that ended
or are lost. There is no batch, clock, mute or request in it. `Process` implements
it under the mapping `Promise`: a row is its status split into what was wanted and
whether it was delivered, a handler at `notify` has taken its pair and one at
`record` has attempted it, acknowledgements are the POSTs of `posted` that were
acknowledged. Every other step of the daemon is a stutter. Workers do not wait for
each other in it either: it promises what the daemon does, duplicates included.

### Sender

The alert fires and resolves any number of times under the same labels; each push
carries its present state, with an end that lies `Ahead` while it fires (a firing
alert may therefore end while its push is in hand: `Want` is then `resolved-sent`, and
`OccurrenceTold` speaks of pushes that found it firing). The next push waits for the answer to the one before. `Handle` runs the handlers of
`Process` and notes which occurrence was announced (`heard`) and whose end was
answered 200 (`settled`); both are auxiliary, since a sender keeps no such record.

### Attempts

`Process` with two auxiliary variables and no other step. `lapsed` holds the pairs
whose row may not be their latest attempt: two attempts overlapped, or a record was
lost to a failed write, a hang-up or a crash, and no attempt has been made since that
nothing overlapped. `overtaken` holds the handlers between lookup and POST behind whose
back the row was written. The module states what the history is worth when requests
overlap and everything may fail, and that DESIGN's list of the causes of duplicates
is complete.

### Views and UI

The tabs are one statement each, so they are operators on the state. The mutes
page is a little program (`place`): it selects rows at one time, projects their
statuses at a later one and then runs a containment query per mute, each at its
own time and each of which may fail, while alerts are upserted, mutes created and
expired, and time passes. `steady` (auxiliary) holds what was in force the whole
time. The upsert is that of any handler: the rest of `Process` changes nothing
the UI reads.

`UI` adds the form. A link's parameters become the text of the matchers field,
two readings of the clock become its two times, cut to the minute; the operator
changes one field or none and submits; the text becomes tokens and the tokens
matchers. A text is a sequence of key-value tokens. A value in `Spaced` has a space
in it, and `Fields` says what `strings.Fields` makes of it: the first field stays with
the name of the parameter, each further one is a token of its own and may be a key
with a value (`"yes team=no"`). A refused form is shown again with what was typed.

### Tools

A file is loaded receiver by receiver, then its rules are validated and the `ui`
section gets its defaults; a loaded chain is then verified and traced. The loop of
`Evaluate` and that of `Trace` are two definitions here because they are two in the
code. `sameSet` compares sorted copies in the code; here, one list is a
rearrangement of the other.

### Server

The process goes from `starting` through `checking` (the flags, the config, the
ping, one table after the other) to `serving`, on a signal to `draining` and at the
end of the drain, the grace period or the listener to `closing` and `stopped`. The
pool is the set `held` of requests with a connection: a handler has one for a
single statement and none while it waits for a receiver. Of `Process` it keeps what
pool and counters see; turns that change neither are left out. `finished` and
`written` are auxiliary: what the counters are held against.

## 3. What the runs check

Passing runs (`tlc -config X.cfg M`):

| Run | Module | Instance | Shows |
|---|---|---|---|
| `MCFanOut` | `MCAttempts` | two handlers, a batch of two alerts (one ends at 2), two rules, `pager` down, one fault of any kind, clock to 2 | `SentIsAcked`: a row that says sent has an acknowledged POST behind it; `ResolvedIsToldResolved`: a resolve carries a resolved payload although the clock is read three times; `FanOutComplete`: when an alert is done, every rule that applies has been attempted; `KeepsPromise`: the handlers implement `Delivery`; `RowIsLatest` and `RepeatsHaveACause`: how far the history lags behind, and why a delivery is repeated, when requests overlap and fail |
| `MCSequential` | `MCSender` | one handler, an impatient sender, an alert with two occurrences and a companion that fires on, somebody else's empty batch, `pager` down, two reads or POSTs that fail, clock to 3 | `NeverRepeats` (operating rules 1 and 2 of DESIGN, as they hold of requests that take turns and lose no record), `OccurrenceTold` |
| `MCMuted` | `MCProcess` | one handler, `pager` down, two mute ids, three requests of which one is invalid, an expire call in flight, one read, write, POST or instance that fails or one hang-up, a sender otherwise patient, clock to 3 | `MuteRespected` and `SuppressedOnlyInForce`: the two directions of "muted exactly while in force"; `HealthyReceiversHear` (liveness), unless operators leave the alert muted |
| `MCUI` | `MCUI` | two alerts of a team, three links, two of them with a spaced value, two texts, one mute at a time, one expire in flight, clock to 3, lists of two, a minute and an hour of two ticks | `TabIsUnmuted`, `NoAlertHidden`, `TabsFollowWebhook` of the tabs; `SteadyIsShown`, `HistoryNotActive` of the mutes page; `StartsAtOnce`, `LinkHonoured` of the form |
| `MCTools` | `MCTools` | 962 files: every list of up to two rules, and each with a catch-all behind it, times seven receiver lists, a rule name twice, `ui` sections; four cases | `RulesLeadSomewhere`, `LoopsAgree`, `WarningsAreTrue`, `PassedCasesCountCopies` |
| `MCServer` | `MCServer` | two requests on a pool of one connection, two rules per alert, one mute on the page, three alerts, one failed call or crash, one restart | `ServesWithSchema`, `CountersBalance`, `CleanExit`; `Served` and `ShutdownEnds` (liveness) |

Every property of a passing run has a mutant in `PROJECT.json`: a slip a
programmer could make, written beside the definition it replaces (the comments
begin with "A slip"), under which the run fails.

Runs that find what a doc or a comment says violated:

| Run | Finds |
|---|---|
| `MCImpatient` | one hanging receiver keeps all later rules from ever being served once senders hang up as early as the POST times out |
| `MCStaleHistory` | overlapping requests leave an older attempt in the history |
| `MCToldFiring` | an alert posted as resolved is recorded as `firing-sent`, and is then posted as resolved again |
| `MCMutedResolve` | a resolve answered 200 under a mute is recorded nowhere, and the occurrence that begins after the mute is skipped as already sent |
| `MCSeenBack` | of two requests for one alert the one that read the clock first writes last: `last_seen_at` moves back, even before `first_seen_at` |
| `MCEmptyMatcher` | a mute with an empty matcher value suppresses alerts the firing tab still shows |

### Known divergences

Seen while modelling, one statement each, and stated here rather than checked:

- an alert that fires again under the same labels keeps its first `starts_at`
  (`store.go:270`);
- a mute expired before its start is listed under expired and called "pending":
  the UPDATE sets an end before the start (`store.go:181`) and `projectMuteView`
  asks for "pending" first;
- a link value with a space in it, which a comment calls not supported
  (`handlers.go:303`), is neither refused nor kept: `match.page=a b=c` fills in and is
  accepted as the two matchers `page=a` and `b=c`, and a space at the end of a value is
  dropped. The mute then does not cover the alert of the link;
- `alertchain_alerts_received_total` counts alerts, its help text says requests
  (`metrics.go:79`); a delivery counts as a success below 400, the text says 2xx;
- a mute form left open until its end has passed makes a mute that is over, and
  says so to nobody;
- a mutes page entry whose query failed looks like one that matches nothing.

## 4. Bounds

- `MaxClock`: time matters only through comparisons with interval ends. Two
  values (before and at the end) suffice for the fan-out, three add "after" and let
  two mutes meet at an instant.
- `Handlers`: two are enough for every race on a pair, since a step of one is
  atomic and any third handler only repeats what a second can do. `MCSequential` has
  one because its sender waits for each answer, and `MCMuted` because handlers share
  neither mutes nor locks: what one finds or waits for does not depend on another. The
  proofs hold for any number.
- `MaxFaults`: one or two. More only repeat a failed attempt that the next push
  retries.
- `LabelNames` and `LabelValues`: one or two of each tell apart matched,
  not matched and absent.
- `AlertLimit` is 100 in the code and two here. Two alerts fill a list and none is
  cut off; the properties exempt a full list, so that what a limit hides is said
  and not checked.
- `MaxExpires`, `MuteIds`: how many expire calls and mutes coexist.
- `Spaced`: one value whose second field is a token without a `=`, which is refused,
  and one whose second field is a key with a value, which is accepted.
- `MaxOccurrences` is two: whether an occurrence is silenced depends on the row
  its predecessor left and on nothing earlier. `Ahead` is one tick in `MCSequential`,
  so that a push in hand can outlive the end it carries, and past `MaxClock` in
  `MCMutedResolve`, where the end of a firing alert would only be in the way.
- `Minute` and `Hour` of two ticks: the smallest in which a time can be cut and
  the form's interval still has an inside. Every form comes with the user header
  `who`; an operator may clear the field.
- `Server`: one connection is the smallest pool `cmdServe` accepts and two
  requests the fewest that compete for it; two rules per alert leave one behind
  when a lookup fails; `MaxReceived` lets a request take a second alert while
  another is in hand. One fault and one restart: a restart begins from an empty
  process whatever happened before. The safety proofs hold for any of these.

## 5. Fairness

`Process.FairSpec` assumes weak fairness of each handler's `Process` steps:
database calls end in an answer or an error, and POSTs have a deadline. It assumes
strong fairness of accepting each batch: a sender repeats its push for as long as
the alert lasts, and the server has a goroutine for every request, while the model
has only as many handlers as `Handlers`. No fairness is assumed of faults,
hang-ups, operators or the clock. `MCMuted` shows that this is enough when senders
wait for the answer, `MCImpatient` that it is not when they do not: its
counterexample is a sender that happens to hang up in time at every push, which
Prometheus does, its limit being the receiver's.

`Server.FairSpec` assumes weak fairness of the statements that hold a connection,
strong fairness of each request's `Acquire` (a connection that is given back goes to
one of the requests that wait, which `database/sql` picks in no fixed order: that none
is passed over for ever is an assumption on that choice, and under weak fairness the
others could take every connection), and
weak fairness of `GraceOver` (ten seconds pass) and `Exit` (`main` returns). `Post`
has none: a receiver may never answer, and `Served` and `ShutdownEnds` hold all the
same. Nor have senders, operators, signals, migrations or crashes.

## 6. What is proved

All for arbitrary constants that satisfy the named assumptions: `Validate` of the
rules, batches of alerts, requests of the right shape, finite links, an hour of whole
minutes, bounds in `Nat`. The theorems under `Process`'s `Spec` hold for any mutes
and faults, and their lemmas are about `ProcessStep`, in which a handler may accept
any alerts at all: `Sender` and `UI` add steps to `Process` and `Views` (pushes and
mutes of their own making), and each proof module carries the invariants over to its
own specification by showing that what was added is one of the general steps.

- `RoutingProofs`: a catch-all decides on every alert (`CatchAllDecides`), no rule
  behind a final catch-all applies (`UnreachableAfterCatchAll`), unique rule names
  keep the history rows of rules apart (`PairsTellRulesApart`).
- `ProcessProofs`: `TypeCorrect`. `TypeOK` is not inductive: `Head` of an empty
  queue has no type. `TInv` adds `Shape`: a handler at work has an alert, and in the
  loop a decision. One lemma per action. The safety of the handlers is in the same
  module:
  - `SentIsAckedAlways` strengthens the property by the handler about to record:
    the status it holds is either a failed one or has its acknowledged POST.
  - `FanOutCompleteAlways` is an action property; its invariant says that of the
    decisions of the alert in hand, those no longer in `todo` have been attempted.
    It uses `SentIsAcked`, since a skipped rule is one whose row says sent.
  - `MuteRespectedAlways` follows each mute of `held` from the moment the alert came
    up: while it is in force it stays in the table, so the query finds it. What
    remains are rows that ended before `now` was read.
  - `SuppressedOnlyInForceAlways`: only the mute check drops an alert that has not
    passed it, and the row it found was in force at a time no earlier than `since`.
  - `ResolvedIsToldResolvedAlways` needs only that times a handler reads never go
    back.
  - `PromiseKept`, that `Process` implements `Delivery`: the initial states map to
    its initial state, and each step is `Take`, `Attempt`, `Record`, `Lose` or a
    stutter of one worker. It needs no invariant beyond `TInv`: the mapping is made so
    that what a worker holds is what the handler's locals say.
- `AttemptsProofs`: `RowIsLatestAlways` and `RepeatsHaveACauseAlways`, for any number
  of handlers, under every kind of fault and without a hypothesis. The invariant
  `AInv` has two parts beside the types: `Kept`, that a pair which has not lapsed has
  at most one attempt waiting for its record, which is then its latest, and otherwise
  the latest in its row; and `FoundOpen`, that a handler about to POST wants something
  else than what the row says, unless the row was written since its lookup. A POST
  that repeats the latest attempt therefore contradicts one of the two, or has one of
  the causes.
- `SenderProofs`: `SenderTypeCorrect`, and `SenderPromiseKept`, the result above
  before a sender. Its own result is `OccurrenceToldAlways`: an occurrence that
  follows one whose end was answered 200 is announced by every rule that applies, for any number
  of handlers. Its inductive invariant `OInv` was checked by TLC, with one handler and
  with two, before it was proved. It follows the row of each such rule (`Open`: the
  row does not say `firing-sent`) through three stages:
  - while the push of the end is in hand, each rule the loop has left behind is open,
    either because its row said something else or because the attempt just recorded
    is one of `resolved-sent` (`EndSoFar`, which rests on `OverIsEnded`: a push that
    says the alert is over wants `resolved-sent`);
  - once that push is answered 200 all of them are open, and stay so until the next
    occurrence is announced: a row says `firing-sent` only if its pair is in `heard`
    (`RowsTellTruth`);
  - while a push of that occurrence is in hand, each rule the loop has left behind has
    been heard of: it was open and a POST was made, or its row said `firing-sent` and
    it was heard of before (`ToldSoFar`).

  `PushesInOrder` and `OccurrencesInOrder` say that pushes and what is settled follow
  the alert: no push in hand is older than a settled occurrence. The hypotheses are
  needed, each of them: `NeverMuted` is what `MCMutedResolve` violates; without
  `RecordsLand` the `resolved-sent` row may be lost although the request is answered
  200, as the code only logs it; without `SoleSender` another sender's late
  push of the firing alert restores `firing-sent`. Reads and POSTs that fail, hang-ups
  and crashes need no hypothesis: they end in no 200, or in a row that is open.
- `ViewsProofs`: `ViewsTypeCorrect`; `HistoryNotActiveAlways`, from the invariant
  that rows selected as expired ended before the time the projection starts from;
  `TabIsUnmutedAlways`, under the assumption that no request asks for an empty
  matcher value, which is exactly what `MCEmptyMatcher` violates: without it,
  `MatchAll` and containment differ.
  - `NoAlertHiddenAlways`: the table is finite, and a query leaves a row out only
    when it returns as many as it may (`LeftOutOfFull`).
  - `SteadyIsShownAlways`: for every steady pair there is a row of the table that
    has been in force since the page's last step, and what the page holds of it is
    no older: a selected row ends no earlier than the table's now, since rows keep
    their ids, matchers and starts and an expire only moves an end to a time already
    past (`RowStays`, `CallsArePast`).
- `UIProofs`: `UITypeCorrect`, and the properties of the pages once the form makes
  mutes too (`PagesShowAlways`). `TabIsUnmutedWithForm` needs the assumption on
  requests for the API alone: the form never makes a mute with an empty value.
  - `LinkReadExactly`: the text filled in by a link with no spaced value (`Plain`)
    parses to the link's parameters that have a value, each with its value and no
    other. Of a spaced one it is not so. Text and fields are
    concatenations (`FlattenSeq`) of any number of parts; that every part occurs in
    them, and nothing else, is shown by the smallest number of parts for which it
    would fail. `LinkHonouredAlways` follows: an absent label equals "". Its
    part on spaced values, that the mute asks for every label of the link, rests on
    the first field of a parameter keeping its name (`FirstField`).
  - `StartsAtOnceAlways`: cutting to the minute never moves a start ahead of the time
    it was read, and an hour of whole minutes keeps the end an hour behind it
    (`FormMade` is what an open form remembers of its two readings).
  - `TabsFollowWebhookAlways`: the comparison in SQL and that in Go are one.
- `ToolsProofs`: `ToolsTypeCorrect`; `RulesLeadSomewhereAlways`, from the receivers
  loaded so far and `Validate`; `LoopsAgreeAlways`, from the loop invariant that the
  rules appended are the decisions below the index; `WarningsAreTrueAlways`;
  `PassedCasesCountCopiesAlways`, from two rearrangements: that which `sameSet` found
  and the ordered list of what the loop appended, which numbers the decisions. Each
  maps the places of a name one to one (`PartsCount`).
- `ServerProofs`: `ServerTypeCorrect`, which includes that no more connections are
  held than there are and only by requests in a statement; `ServesWithSchemaAlways`
  (tables once found stay); `CountersBalanceAlways`, where each step moves one
  request between the places counted; `CleanExitAlways`, from the balance and that
  nobody is left when the drain ends.

Only model-checked: the liveness properties `HealthyReceiversHear`, `Served` and
`ShutdownEnds`, since the provers have no rule for `ENABLED` and so none for fairness.
Also `NeverRepeats`: it speaks of requests that take turns, which nothing in the code
enforces, and what holds of all requests is `RepeatsHaveACause`. Every other property of a passing run is stated by a theorem. Where
a theorem has hypotheses (`SoleSender`, `NeverMuted`, `RecordsLand`, `NoEmptyMatcher`)
the instance of the run that checks its property satisfies them.

## 7. Plan

Done: the handlers, their abstract promise and its refinement; how far the history
lags behind; mutes; both tabs, the mutes page and the form; the tools; the process
with its pool and counters; the sender. The safety properties are proved. What is
left, in order of worth:

1. Two senders in `Sender`, to state that the next push of either repairs a pair that
   has lapsed.
2. An abstract specification of the connection pool, which `Server` would implement.

## 8. Not modelled, and why

- Clock skew between instances and the truncation of times to microseconds: the
  wall clock is one integer, whose equal values are where the boundaries meet.
- A write that took effect although its caller saw an error is the model's successful
  write, since the code only logs the error. A statement the database runs after the
  handler has given up on it, and has gone on, is left out.
- A request that stops waiting for the pool because its sender hung up: in `Server` it
  waits until it gets a connection, whose statement may then fail.
- Fingerprint collisions: 64-bit hashes are taken to be injective.
- `sent_at`, annotations, `generatorURL`: nothing reads them back.
- The `nil` receiver branch of `Process` and `Notify`'s unknown type: `Tools` shows
  that no loaded chain reaches them (`RulesLeadSomewhere`).
- Migrations downward under a running daemon, columns and indexes: only the order
  of the upward migrations against the schema check is modelled.
- `GetMute` changes nothing and `GetAlert` is called by nobody; `trace` with a mute
  store, which no subcommand gives it.
- The exposition format of the metrics, the pool's idle connections and lifetimes,
  which flag was wrong.
- HTTP routing, health and readiness, templates, scripts, static assets, wording of
  the reports, YAML syntax: no state and no decision the properties rest on.
- The tests' database lock: used by the tests only.
