-------------------------------- MODULE Views ------------------------------
(* What the UI shows (internal/ui/handlers.go): the firing tab, one query    *)
(* over both tables, and the mutes page, which queries the mutes, reads the  *)
(* clock again to project them and then runs one more query per mute.        *)
(* Meanwhile handlers upsert alerts and operators create and expire mutes.   *)
EXTENDS MuteStore, AlertStore

CONSTANTS
    Pushes,              \* the alerts senders push
    AlertLimit           \* defaultAlertLimit, the most rows a query returns

ASSUME PushesAssumption == Pushes \subseteq Alerts
ASSUME AlertLimitAssumption == AlertLimit \in Nat \ {0}

VARIABLES
    \* the mutes page being built
    place,               \* what its handler does next
    filter,              \* which mutes were asked for
    since,               \* the clock at its previous step
    rows,                \* the mutes selected, not projected yet
    listed,              \* the mutes still to be matched, with their statuses
    entries,             \* the entries so far
    \* auxiliary
    steady               \* <<mute id, fingerprint>> in force since it was opened

pageVars  == <<place, filter, since, rows, listed, entries>>
tableVars == <<muteVars, observed>>
vars      == <<clock, tableVars, pageVars, steady>>

MuteViews == [mute : MuteRows, status : {"pending", "active", "expired"}]
Entries   == [mute : MuteRows, status : {"pending", "active", "expired"},
              matches : SUBSET LabelSets, failed : BOOLEAN]

ViewsTypeOK ==
    /\ ClockTypeOK
    /\ MuteTypeOK
    /\ AlertStoreTypeOK
    /\ place \in {"closed", "list", "project", "match", "shown"}
    /\ filter \in {"present", "expired"}
    /\ since \in 0..clock
    /\ rows \subseteq MuteRows
    /\ listed \subseteq MuteViews
    /\ entries \subseteq Entries
-----------------------------------------------------------------------------
(* The queries. A fingerprint stands for its row's labels.                   *)

\* labels @> matchers: unlike a Go map, a missing key equals nothing.
Contains(labels, matchers) ==
    \A name \in DOMAIN matchers :
        name \in DOMAIN labels /\ labels[name] = matchers[name]

\* ORDER BY last_seen_at DESC LIMIT: the possible answers out of fps.
Newest(fps) ==
    {answer \in SUBSET fps :
        /\ Cardinality(answer) =
              IF Cardinality(fps) < AlertLimit THEN Cardinality(fps) ELSE AlertLimit
        /\ \A in \in answer : \A out \in fps \ answer :
              observed[out].lastSeenAt <= observed[in].lastSeenAt}

\* A slip: NULL compared with the time.
StillFiringNotNull(fp, t) == observed[fp].endsAt > t

\* ends_at IS NULL OR ends_at > now
StillFiring(fp, t) == observed[fp].endsAt = ZeroTime \/ observed[fp].endsAt > t

FiringRows(t) == {fp \in DOMAIN observed : StillFiring(fp, t)}

\* ExcludeMuted.
Excluded(fp, t) == \E m \in mutes : Active(m, t) /\ Contains(fp, m.matchers)

\* alertsList, firing tab: ListAlerts with ExcludeMuted.
FiringTab(t) == Newest({fp \in FiringRows(t) : ~Excluded(fp, t)})

MatchingAlerts(matchers, t) == Newest({fp \in FiringRows(t) : Contains(fp, matchers)})
-----------------------------------------------------------------------------
(* The mutes page.                                                           *)

\* The <<mute, alert>> pairs in force right now.
InForce ==
    {p \in MuteIds \X FiringRows(clock) :
        \E m \in mutes : m.id = p[1] /\ Active(m, clock) /\ Contains(p[2], m.matchers)}

OpenPage ==
    /\ place = "closed"
    /\ place' = "list"
    /\ filter' \in {"present", "expired"}
    /\ since' = clock
    /\ steady' = InForce
    /\ UNCHANGED <<clock, tableVars, rows, listed, entries>>

\* Store.List reads the clock, then queries; a failure is answered 500.
ListRows ==
    /\ place = "list"
    /\ \/ /\ \E t \in since..clock :
                rows' = IF filter = "present" THEN MutesPresent(t) ELSE MutesExpired(t)
          /\ place' = "project"
          /\ UNCHANGED steady
       \/ place' = "closed" /\ steady' = {} /\ UNCHANGED rows
    /\ since' = clock
    /\ UNCHANGED <<clock, tableVars, filter, listed, entries>>

\* ListMutes: one reading of the clock for the whole list.
ListMutes ==
    /\ place = "project"
    /\ \E t \in since..clock :
          listed' = {[mute |-> m, status |-> ProjectStatus(m, t)] : m \in rows}
    /\ rows' = {}
    /\ place' = "match"
    /\ since' = clock
    /\ UNCHANGED <<clock, tableVars, filter, entries, steady>>

\* A slip: the status not copied.
EntryBare(view, matches, failed) ==
    [mute |-> view.mute, status |-> "", matches |-> matches, failed |-> failed]

\* One entry of the page. That its query failed is in the log only.
Entry(view, matches, failed) ==
    [mute |-> view.mute, status |-> view.status, matches |-> matches, failed |-> failed]

\* One turn of the loop over the list, which is ordered by ends_at descending.
\* A failed query is logged and leaves the entry without matches.
MatchNext ==
    /\ place = "match" /\ listed # {}
    /\ \E view \in listed :
          /\ \A other \in listed : other.mute.endsAt <= view.mute.endsAt
          /\ listed' = listed \ {view}
          /\ \/ /\ view.status = "expired"
                /\ entries' = entries \cup {Entry(view, {}, FALSE)}
             \/ /\ view.status # "expired"
                /\ \E t \in since..clock :
                      \E answer \in MatchingAlerts(view.mute.matchers, t) :
                          entries' = entries \cup {Entry(view, answer, FALSE)}
             \/ /\ view.status # "expired"
                /\ entries' = entries \cup {Entry(view, {}, TRUE)}
    /\ since' = clock
    /\ UNCHANGED <<clock, tableVars, place, filter, rows, steady>>

Render ==
    /\ place = "match" /\ listed = {}
    /\ place' = "shown"
    /\ UNCHANGED <<clock, tableVars, filter, since, rows, listed, entries, steady>>

ClosePage ==
    /\ place = "shown"
    /\ place' = "closed"
    /\ entries' = {}
    /\ steady' = {}
    /\ UNCHANGED <<clock, tableVars, filter, since, rows, listed>>
-----------------------------------------------------------------------------
(* The writers.                                                              *)

\* A pair stays steady as long as it stays in force.
KeepSteady == steady' = steady \cap InForce'

\* The upsert of any handler; it may have read its clock any time before.
UpsertAny ==
    /\ \E alert \in Pushes : \E t \in 1..clock : observed' = Upserted(observed, alert, t)
    /\ UNCHANGED <<clock, muteVars, pageVars>>
    /\ KeepSteady

CreateAny ==
    /\ \E req \in MuteRequests : CreateMute(req)
    /\ UNCHANGED <<clock, observed, pageVars>>
    /\ KeepSteady

\* DELETE /api/v1/mutes/{id}, and the UI's expire button.
ExpireAny ==
    /\ \/ \E id \in MuteIds : ExpireCall(id)
       \/ \E call \in expiring : ExpireUpdate(call) \/ ExpireFail(call)
    /\ UNCHANGED <<clock, observed, pageVars>>
    /\ KeepSteady

Tick == ClockTick /\ UNCHANGED <<tableVars, pageVars>> /\ KeepSteady

Init ==
    /\ ClockInit
    /\ MuteInit
    /\ AlertStoreInit
    /\ place = "closed" /\ filter = "present" /\ since = 0
    /\ rows = {} /\ listed = {} /\ entries = {}
    /\ steady = {}

Page == OpenPage \/ ListRows \/ ListMutes \/ MatchNext \/ Render \/ ClosePage

Next == Page \/ UpsertAny \/ CreateAny \/ ExpireAny \/ Tick

Spec == Init /\ [][Next]_vars
-----------------------------------------------------------------------------
(* What is shown.                                                            *)

Full(answer) == Cardinality(answer) = AlertLimit

\* "The list shows only what needs an operator's attention": no alert on the
\* firing tab is one the chain would suppress at that very time, although the
\* tab asks PostgreSQL and the chain asks MatchAll.
TabIsUnmuted ==
    \A tab \in FiringTab(clock) : \A fp \in tab :
        ~ \E m \in mutes : Active(m, clock) /\ MatchAll(m.matchers, fp)

\* "Muted alerts remain visible under their respective mute": every alert whose
\* webhook would say firing is on the tab or under a mute the mutes page lists
\* and matches, but for the rows past the limit of a full list.
NoAlertHidden ==
    \A fp \in {f \in DOMAIN observed : AlertStatus(observed[f], clock) = "firing"} :
        \/ \A tab \in FiringTab(clock) : fp \in tab \/ Full(tab)
        \/ \E m \in MutesPresent(clock) :
              /\ ProjectStatus(m, clock) # "expired"
              /\ \A answer \in MatchingAlerts(m.matchers, clock) :
                    fp \in answer \/ Full(answer)

\* The page of the present mutes is built from many queries at many times; what
\* was in force from the first to the last of them is on it.
SteadyIsShown ==
    place = "shown" /\ filter = "present" =>
        \A p \in steady : \E e \in entries :
            /\ e.mute.id = p[1]
            /\ p[2] \in e.matches \/ e.failed \/ Full(e.matches)

\* The page of the expired mutes, projected at a later time than it was
\* selected at, never says of one that it is active.
HistoryNotActive ==
    filter = "expired" => \A e \in entries : e.status # "active"
=============================================================================
