---------------------------- MODULE ViewsProofs ----------------------------
(* Theorems about Views for any alerts, mutes, limit and length of time: no  *)
(* firing alert is lost between the tab and the mutes page, and the page,    *)
(* built from many queries, has what was in force all the while.             *)
EXTENDS Views, RoutingProofs

\* What is stored of a create request has the types of the table.
Storable(req) ==
    req.matchers \in LabelSets /\ req.startsAt \in Nat /\ req.endsAt \in Nat

LEMMA RequestsAreStorable == \A req \in MuteRequests : Storable(req)
  BY MuteRequestsAssumption DEF MuteRequestRows, Storable

\* A create request that inserts its row, whoever sent it, or that fails.
AnyCreate ==
    /\ (\E req : Storable(req) /\ CreateMute(req)) \/ UNCHANGED muteVars
    /\ UNCHANGED <<clock, observed, pageVars>>
    /\ KeepSteady

\* The lemmas are about these steps, of which those of Views are some: a module
\* that extends Views may create mutes that MuteRequests does not list.
ViewsStep == Page \/ UpsertAny \/ AnyCreate \/ ExpireAny \/ Tick \/ UNCHANGED vars

LEMMA NextIsViewsStep == [Next]_vars => ViewsStep
  BY RequestsAreStorable DEF Next, ViewsStep, CreateAny, AnyCreate

\* How far the page has come tells what it holds.
PageShape ==
    /\ place # "project" => rows = {}
    /\ place \in {"closed", "list", "project"} => listed = {} /\ entries = {}
    /\ place = "shown" => listed = {}

\* On the page of expired mutes, what was selected ended before the clock the
\* projection starts from.
SelectedEnded ==
    filter = "expired" =>
        /\ \A m \in rows : m.endsAt < since
        /\ \A v \in listed : v.status # "active"
        /\ \A e \in entries : e.status # "active"

HInv == ViewsTypeOK /\ PageShape /\ SelectedEnded

-----------------------------------------------------------------------------
(* The tables.                                                               *)

LEMMA ClockIsNat == ClockTypeOK => clock \in Nat
  BY MaxClockAssumption DEF ClockTypeOK

LEMMA UpsertKeepsTypes ==
    ASSUME AlertStoreTypeOK, NEW alert \in Alerts, NEW t \in Nat,
           observed' = Upserted(observed, alert, t)
    PROVE  AlertStoreTypeOK'
<1>1. Fingerprint(alert) \in LabelSets
  BY DEF Fingerprint, Alerts
<1>2. UpsertedRow(observed, alert, t) \in AlertRows
  BY DEF AlertStoreTypeOK, UpsertedRow, AlertRows, Alerts
<1> QED BY <1>1, <1>2 DEF AlertStoreTypeOK, Upserted

LEMMA CreateKeepsTypes ==
    ASSUME MuteTypeOK, NEW req, Storable(req), CreateMute(req)
    PROVE  MuteTypeOK'
  BY DEF CreateMute, MuteTypeOK, MuteRows, Storable

LEMMA ExpireKeepsTypes ==
    ASSUME MuteTypeOK, clock \in Nat,
           \/ \E id \in MuteIds : ExpireCall(id)
           \/ \E call \in expiring : ExpireUpdate(call) \/ ExpireFail(call)
    PROVE  MuteTypeOK'
<1>1. CASE \E id \in MuteIds : ExpireCall(id)
  BY <1>1 DEF ExpireCall, MuteTypeOK
<1>2. ASSUME NEW call \in expiring, ExpireUpdate(call)
      PROVE  MuteTypeOK'
  <2>1. \A m \in mutes : ExpiredRow(m, call) \in MuteRows
    BY DEF MuteTypeOK, ExpiredRow, MuteRows
  <2> QED BY <1>2, <2>1 DEF ExpireUpdate, MuteTypeOK
<1>3. ASSUME NEW call \in expiring, ExpireFail(call)
      PROVE  MuteTypeOK'
  BY <1>3 DEF ExpireFail, MuteTypeOK
<1> QED BY <1>1, <1>2, <1>3

-----------------------------------------------------------------------------
(* The page.                                                                 *)

LEMMA InitHInv == Init => HInv
<1> SUFFICES ASSUME Init PROVE HInv
  OBVIOUS
<1>1. clock = 1 /\ 1 \in 1..MaxClock /\ 0 \in 0..clock
  BY MaxClockAssumption DEF Init, ClockInit
<1>2. MuteTypeOK
  BY DEF Init, MuteInit, MuteTypeOK
<1>3. AlertStoreTypeOK
  BY DEF Init, AlertStoreInit, AlertStoreTypeOK
<1> QED
  BY <1>1, <1>2, <1>3
  DEF Init, HInv, ViewsTypeOK, ClockTypeOK, PageShape, SelectedEnded

\* The projection of a row that ended never says active.
LEMMA EndedIsNotActive ==
    ASSUME NEW m \in MuteRows, NEW s \in Nat, NEW t \in Nat, s <= t, m.endsAt < s
    PROVE  ProjectStatus(m, t) # "active"
  BY DEF ProjectStatus, MuteRows

\* Views of rows are views.
LEMMA ProjectedAreViews ==
    ASSUME NEW R \in SUBSET MuteRows, NEW t
    PROVE  {[mute |-> m, status |-> ProjectStatus(m, t)] : m \in R} \subseteq MuteViews
<1>1. \A m \in R : ProjectStatus(m, t) \in {"pending", "active", "expired"}
  BY DEF ProjectStatus
<1> QED BY <1>1 DEF MuteViews

LEMMA AnswersAreLabels ==
    ASSUME AlertStoreTypeOK, NEW matchers, NEW t, NEW answer \in MatchingAlerts(matchers, t)
    PROVE  answer \in SUBSET LabelSets
<1>1. answer \subseteq DOMAIN observed
  BY DEF MatchingAlerts, Newest, FiringRows
<1> QED BY <1>1 DEF AlertStoreTypeOK

LEMMA EntryOfView ==
    ASSUME NEW view \in MuteViews, NEW matches \in SUBSET LabelSets, NEW f \in BOOLEAN
    PROVE  /\ Entry(view, matches, f) \in Entries
           /\ Entry(view, matches, f).status = view.status
  BY DEF Entry, Entries, MuteViews

LEMMA MatchNextHInv ==
    ASSUME HInv, MatchNext
    PROVE  HInv'
<1>1. PICK view \in listed :
         /\ listed' = listed \ {view}
         /\ \/ entries' = entries \cup {Entry(view, {}, FALSE)}
            \/ \E t \in since..clock : \E answer \in MatchingAlerts(view.mute.matchers, t) :
                  entries' = entries \cup {Entry(view, answer, FALSE)}
            \/ entries' = entries \cup {Entry(view, {}, TRUE)}
  BY DEF MatchNext
<1>2. view \in MuteViews /\ AlertStoreTypeOK
  BY DEF HInv, ViewsTypeOK
<1>3. PICK e : e \in Entries /\ e.status = view.status /\ entries' = entries \cup {e}
  <2>1. {} \in SUBSET LabelSets
    OBVIOUS
  <2>2. CASE \E t \in since..clock : \E answer \in MatchingAlerts(view.mute.matchers, t) :
                entries' = entries \cup {Entry(view, answer, FALSE)}
    <3>1. PICK t \in since..clock : \E answer \in MatchingAlerts(view.mute.matchers, t) :
                entries' = entries \cup {Entry(view, answer, FALSE)}
      BY <2>2
    <3>2. PICK answer \in MatchingAlerts(view.mute.matchers, t) :
                entries' = entries \cup {Entry(view, answer, FALSE)}
      BY <3>1
    <3>3. answer \in SUBSET LabelSets
      BY <1>2, AnswersAreLabels
    <3> QED BY <1>2, <3>2, <3>3, EntryOfView
  <2> QED BY <1>1, <1>2, <2>1, <2>2, EntryOfView
<1>4. clock' = clock /\ clock \in Nat /\ since' = clock
  BY ClockIsNat DEF MatchNext, HInv, ViewsTypeOK
<1>5. ViewsTypeOK'
  BY <1>1, <1>3, <1>4
  DEF MatchNext, tableVars, muteVars, HInv, ViewsTypeOK, ClockTypeOK, MuteTypeOK,
      AlertStoreTypeOK
<1>6. PageShape'
  BY DEF MatchNext, HInv, PageShape
<1>7. SelectedEnded'
  BY <1>1, <1>3 DEF MatchNext, HInv, PageShape, SelectedEnded
<1> QED BY <1>5, <1>6, <1>7 DEF HInv

LEMMA PageHInv ==
    ASSUME HInv, Page
    PROVE  HInv'
<1> USE DEF HInv, ViewsTypeOK, PageShape, SelectedEnded
<1>0. clock \in Nat /\ since \in Nat
  BY ClockIsNat
<1>1. clock' = clock /\ UNCHANGED tableVars
  BY DEF Page, OpenPage, ListRows, ListMutes, MatchNext, Render, ClosePage
<1>2. ClockTypeOK' /\ MuteTypeOK' /\ AlertStoreTypeOK'
  BY <1>1 DEF tableVars, muteVars, ClockTypeOK, MuteTypeOK, AlertStoreTypeOK
<1>3. CASE OpenPage
  BY <1>0, <1>1, <1>2, <1>3 DEF OpenPage
<1>4. CASE ListRows
  <2>1. CASE place' = "closed" /\ UNCHANGED rows
    BY <1>0, <1>1, <1>2, <1>4, <2>1 DEF ListRows
  <2>2. CASE /\ place' = "project"
             /\ \E t \in since..clock :
                   rows' = IF filter = "present" THEN MutesPresent(t) ELSE MutesExpired(t)
    <3>1. PICK t \in since..clock :
             rows' = IF filter = "present" THEN MutesPresent(t) ELSE MutesExpired(t)
      BY <2>2
    <3>2. rows' \subseteq mutes /\ mutes \subseteq MuteRows
      BY <3>1 DEF MutesPresent, MutesExpired, MuteTypeOK
    <3>3. filter = "expired" => \A m \in rows' : m.endsAt < clock
      BY <1>0, <3>1, <3>2 DEF MutesExpired, MuteRows
    <3> QED BY <1>0, <1>1, <1>2, <1>4, <2>2, <3>2, <3>3 DEF ListRows
  <2> QED BY <1>4, <2>1, <2>2 DEF ListRows
<1>5. CASE ListMutes
  <2>1. PICK t \in since..clock :
           listed' = {[mute |-> m, status |-> ProjectStatus(m, t)] : m \in rows}
    BY <1>5 DEF ListMutes
  <2>2. listed' \subseteq MuteViews
    BY <2>1, ProjectedAreViews
  <2>3. filter = "expired" => \A v \in listed' : v.status # "active"
    BY <1>0, <2>1, EndedIsNotActive
  <2> QED BY <1>0, <1>1, <1>2, <1>5, <2>2, <2>3 DEF ListMutes
<1>6. CASE MatchNext
  BY <1>6, MatchNextHInv
<1>7. CASE Render
  BY <1>0, <1>1, <1>2, <1>7 DEF Render
<1>8. CASE ClosePage
  BY <1>0, <1>1, <1>2, <1>8 DEF ClosePage
<1> QED BY <1>3, <1>4, <1>5, <1>6, <1>7, <1>8 DEF Page

\* A step of a writer leaves the page as it is.
LEMMA WriterHInv ==
    ASSUME HInv, UNCHANGED pageVars, ClockTypeOK', MuteTypeOK', AlertStoreTypeOK',
           clock <= clock'
    PROVE  HInv'
<1>1. clock \in Nat /\ clock' \in Nat
  BY MaxClockAssumption DEF HInv, ViewsTypeOK, ClockTypeOK
<1>2. since' \in 0..clock'
  BY <1>1 DEF HInv, ViewsTypeOK, pageVars
<1> QED BY <1>2 DEF HInv, ViewsTypeOK, PageShape, SelectedEnded, pageVars

LEMMA NextHInv ==
    ASSUME HInv, ViewsStep
    PROVE  HInv'
<1>1. clock \in Nat /\ ClockTypeOK /\ MuteTypeOK /\ AlertStoreTypeOK
  BY ClockIsNat DEF HInv, ViewsTypeOK
<1>2. ASSUME clock' = clock PROVE ClockTypeOK' /\ clock <= clock'
  BY <1>1, <1>2 DEF ClockTypeOK
<1>3. ASSUME UNCHANGED muteVars PROVE MuteTypeOK'
  BY <1>1, <1>3 DEF muteVars, MuteTypeOK
<1>4. ASSUME UNCHANGED observed PROVE AlertStoreTypeOK'
  BY <1>1, <1>4 DEF AlertStoreTypeOK
<1>5. CASE Page
  BY <1>5, PageHInv
<1>6. CASE UpsertAny
  <2>1. AlertStoreTypeOK'
    BY <1>1, <1>6, PushesAssumption, UpsertKeepsTypes DEF UpsertAny
  <2> QED BY <1>2, <1>3, <1>6, <2>1, WriterHInv DEF UpsertAny
<1>7. CASE AnyCreate
  <2>1. MuteTypeOK'
    BY <1>1, <1>3, <1>7, CreateKeepsTypes DEF AnyCreate
  <2> QED BY <1>2, <1>4, <1>7, <2>1, WriterHInv DEF AnyCreate
<1>8. CASE ExpireAny
  <2>1. MuteTypeOK'
    BY <1>1, <1>8, ExpireKeepsTypes DEF ExpireAny
  <2> QED BY <1>2, <1>4, <1>8, <2>1, WriterHInv DEF ExpireAny
<1>9. CASE Tick
  <2>1. ClockTypeOK' /\ clock <= clock'
    BY <1>1, <1>9, MaxClockAssumption DEF Tick, ClockTick, ClockTypeOK
  <2> QED BY <1>3, <1>4, <1>9, <2>1, WriterHInv DEF Tick, tableVars
<1>10. CASE UNCHANGED vars
  BY <1>2, <1>3, <1>4, <1>10, WriterHInv DEF vars, tableVars
<1> QED BY <1>5, <1>6, <1>7, <1>8, <1>9, <1>10 DEF ViewsStep

LEMMA AlwaysHInv == Spec => []HInv
<1>1. Init => HInv
  BY InitHInv
<1>2. HInv /\ [Next]_vars => HInv'
  BY NextHInv, NextIsViewsStep
<1> QED BY <1>1, <1>2, PTL DEF Spec

\* Every variable of the views keeps its type, for any alerts and mutes.
THEOREM ViewsTypeCorrect == Spec => []ViewsTypeOK
<1>1. HInv => ViewsTypeOK
  BY DEF HInv
<1> QED BY <1>1, AlwaysHInv, PTL

LEMMA HInvIsHistory == HInv => HistoryNotActive
  BY DEF HInv, SelectedEnded, HistoryNotActive

\* The page of the expired mutes never calls one active, however the clock and
\* the operators move between its two readings of the time.
THEOREM HistoryNotActiveAlways == Spec => []HistoryNotActive
  BY HInvIsHistory, AlwaysHInv, PTL

-----------------------------------------------------------------------------
(* Containment and MatchAll.                                                 *)

\* What MatchAll accepts beyond containment is exactly a matcher for "".
ValuesGiven(matchers) == \A name \in DOMAIN matchers : matchers[name] # NoValue

\* JSONB containment is the stricter test.
LEMMA ContainedMatches ==
    ASSUME NEW labels, NEW matchers, Contains(labels, matchers)
    PROVE  MatchAll(matchers, labels)
  BY DEF Contains, MatchAll, Lookup

\* Without an empty value the two tests agree.
LEMMA MatchesContained ==
    ASSUME NEW labels, NEW matchers, ValuesGiven(matchers), MatchAll(matchers, labels)
    PROVE  Contains(labels, matchers)
  BY DEF Contains, MatchAll, Lookup, ValuesGiven

NoEmptyMatcher == \A req \in MuteRequests : ValuesGiven(req.matchers)

MatchersGiven == \A m \in mutes : ValuesGiven(m.matchers)

LEMMA CreateKeepsGiven ==
    ASSUME MatchersGiven, NEW req, ValuesGiven(req.matchers), CreateMute(req)
    PROVE  MatchersGiven'
  BY DEF CreateMute, MatchersGiven

LEMMA OthersKeepGiven ==
    ASSUME HInv, MatchersGiven, Page \/ UpsertAny \/ ExpireAny \/ Tick \/ UNCHANGED vars
    PROVE  MatchersGiven'
<1>1. CASE mutes' = mutes
  BY <1>1 DEF MatchersGiven
<1>2. ASSUME NEW call \in expiring, ExpireUpdate(call)
      PROVE  MatchersGiven'
  <2>1. \A m \in mutes : ExpiredRow(m, call).matchers = m.matchers
    BY DEF HInv, ViewsTypeOK, MuteTypeOK, MuteRows, ExpiredRow
  <2> QED BY <1>2, <2>1 DEF ExpireUpdate, MatchersGiven
<1>3. CASE ExpireAny
  BY <1>1, <1>2, <1>3 DEF ExpireAny, ExpireCall, ExpireFail
<1> QED
  BY <1>1, <1>3
  DEF Page, OpenPage, ListRows, ListMutes, MatchNext, Render, ClosePage,
      UpsertAny, Tick, vars, tableVars, muteVars

LEMMA AlwaysMatchersGiven ==
    ASSUME NoEmptyMatcher
    PROVE  Spec => []MatchersGiven
<1>1. Init => MatchersGiven
  BY DEF Init, MuteInit, MatchersGiven
<1>2. ASSUME HInv, MatchersGiven, [Next]_vars
      PROVE  MatchersGiven'
  <2>1. CASE CreateAny
    BY <1>2, <2>1, NoEmptyMatcher, CreateKeepsGiven DEF CreateAny, NoEmptyMatcher
  <2> QED BY <1>2, <2>1, OthersKeepGiven DEF Next
<1> QED BY <1>1, <1>2, AlwaysHInv, PTL DEF Spec

LEMMA GivenIsUnmuted == MatchersGiven => TabIsUnmuted
<1> SUFFICES ASSUME MatchersGiven, NEW tab \in FiringTab(clock), NEW fp \in tab,
                    NEW m \in mutes, Active(m, clock), MatchAll(m.matchers, fp)
             PROVE  FALSE
  BY DEF TabIsUnmuted
<1>1. ~Excluded(fp, clock)
  BY DEF FiringTab, Newest
<1>2. Contains(fp, m.matchers)
  BY MatchesContained DEF MatchersGiven
<1> QED BY <1>1, <1>2 DEF Excluded

\* While no mute asks for an empty value, the firing tab shows no alert the
\* chain would suppress at that time, whatever the limit cuts off.
THEOREM TabIsUnmutedAlways ==
    ASSUME NoEmptyMatcher
    PROVE  Spec => []TabIsUnmuted
  BY GivenIsUnmuted, AlwaysMatchersGiven, PTL

-----------------------------------------------------------------------------
(* The limit.                                                                *)

FiniteTable == IsFiniteSet(DOMAIN observed)

\* A query leaves a row out only if it returns as many as it may.
LEMMA LeftOutOfFull ==
    ASSUME NEW fps, IsFiniteSet(fps), NEW answer \in Newest(fps), NEW fp \in fps
    PROVE  fp \in answer \/ Full(answer)
<1>1. answer \in SUBSET fps
  BY DEF Newest
<1>2. CASE Cardinality(fps) < AlertLimit
  <2>1. Cardinality(answer) = Cardinality(fps)
    BY <1>2 DEF Newest
  <2>2. answer = fps
    BY <1>1, <2>1, FS_Subset
  <2> QED BY <2>2
<1>3. CASE ~(Cardinality(fps) < AlertLimit)
  BY <1>3 DEF Newest, Full
<1> QED BY <1>2, <1>3

LEMMA MatchingLeftOut ==
    ASSUME FiniteTable, NEW matchers, NEW t, NEW fp \in FiringRows(t),
           Contains(fp, matchers), NEW answer \in MatchingAlerts(matchers, t)
    PROVE  fp \in answer \/ Full(answer)
<1> DEFINE found == {f \in FiringRows(t) : Contains(f, matchers)}
<1>1. found \in SUBSET DOMAIN observed
  BY DEF FiringRows
<1>2. IsFiniteSet(found)
  BY <1>1, FS_Subset DEF FiniteTable
<1>3. answer \in Newest(found) /\ fp \in found
  BY DEF MatchingAlerts
<1> HIDE DEF found
<1> QED BY <1>2, <1>3, LeftOutOfFull

LEMMA TabLeftOut ==
    ASSUME FiniteTable, NEW t, NEW fp \in FiringRows(t), ~Excluded(fp, t),
           NEW tab \in FiringTab(t)
    PROVE  fp \in tab \/ Full(tab)
<1> DEFINE shown == {f \in FiringRows(t) : ~Excluded(f, t)}
<1>1. shown \in SUBSET DOMAIN observed
  BY DEF FiringRows
<1>2. IsFiniteSet(shown)
  BY <1>1, FS_Subset DEF FiniteTable
<1>3. tab \in Newest(shown) /\ fp \in shown
  BY DEF FiringTab
<1> HIDE DEF shown
<1> QED BY <1>2, <1>3, LeftOutOfFull

LEMMA UpsertKeepsFinite ==
    ASSUME FiniteTable, NEW alert, NEW t, observed' = Upserted(observed, alert, t)
    PROVE  FiniteTable'
<1>1. DOMAIN observed' = DOMAIN observed \cup {Fingerprint(alert)}
  BY DEF Upserted
<1> QED BY <1>1, FS_AddElement DEF FiniteTable

LEMMA NextFinite == FiniteTable /\ ViewsStep => FiniteTable'
<1> SUFFICES ASSUME FiniteTable, ViewsStep PROVE FiniteTable'
  OBVIOUS
<1>1. CASE UpsertAny
  BY <1>1, UpsertKeepsFinite DEF UpsertAny
<1>2. CASE observed' = observed
  BY <1>2 DEF FiniteTable
<1> QED
  BY <1>1, <1>2
  DEF ViewsStep, Page, OpenPage, ListRows, ListMutes, MatchNext, Render, ClosePage,
      AnyCreate, ExpireAny, Tick, vars, tableVars

LEMMA InitFinite == Init => FiniteTable
  BY FS_EmptySet DEF Init, AlertStoreInit, FiniteTable

LEMMA NothingHidden == HInv /\ FiniteTable => NoAlertHidden
<1> SUFFICES ASSUME HInv, FiniteTable, NEW fp \in DOMAIN observed,
                    AlertStatus(observed[fp], clock) = "firing"
             PROVE  \/ \A tab \in FiringTab(clock) : fp \in tab \/ Full(tab)
                    \/ \E m \in MutesPresent(clock) :
                          /\ ProjectStatus(m, clock) # "expired"
                          /\ \A answer \in MatchingAlerts(m.matchers, clock) :
                                fp \in answer \/ Full(answer)
  BY DEF NoAlertHidden
<1>1. clock \in Nat /\ observed[fp] \in AlertRows
  BY ClockIsNat DEF HInv, ViewsTypeOK, AlertStoreTypeOK
<1>2. fp \in FiringRows(clock)
  BY <1>1 DEF AlertRows, AlertStatus, Ended, FiringRows, StillFiring, ZeroTime
<1>3. CASE ~Excluded(fp, clock)
  BY <1>2, <1>3, TabLeftOut
<1>4. CASE Excluded(fp, clock)
  <2>1. PICK m \in mutes : Active(m, clock) /\ Contains(fp, m.matchers)
    BY <1>4 DEF Excluded
  <2>2. m.endsAt \in Nat /\ m.startsAt \in Nat
    BY DEF HInv, ViewsTypeOK, MuteTypeOK, MuteRows
  <2>3. m \in MutesPresent(clock) /\ ProjectStatus(m, clock) # "expired"
    BY <1>1, <2>1, <2>2 DEF Active, MutesPresent, ProjectStatus
  <2>4. \A answer \in MatchingAlerts(m.matchers, clock) : fp \in answer \/ Full(answer)
    BY <1>2, <2>1, MatchingLeftOut
  <2> QED BY <2>3, <2>4
<1> QED BY <1>3, <1>4

\* An alert a webhook would call firing is on the firing tab or under a mute
\* that the mutes page lists, unless that list is full: SQL and Go agree on when
\* an alert is over, and the tab leaves out only what a listed mute takes in.
THEOREM NoAlertHiddenAlways == Spec => []NoAlertHidden
<1>1. FiniteTable /\ [Next]_vars => FiniteTable'
  BY NextFinite, NextIsViewsStep
<1> QED BY <1>1, NothingHidden, AlwaysHInv, InitFinite, PTL DEF Spec

-----------------------------------------------------------------------------
(* The mutes page.                                                           *)

\* What operators cannot do: give two rows one id, or read the clock of an
\* expire call in the future.
OneRowPerId == \A a, b \in mutes : a.id = b.id => a = b
CallsArePast == \A call \in expiring : call.now <= clock

TablesInv == OneRowPerId /\ CallsArePast

\* Mute m has been in force over the alert of p since the page's last step.
InForceSince(m, p) ==
    /\ m.id = p[1] /\ Contains(p[2], m.matchers)
    /\ m.startsAt <= since /\ clock <= m.endsAt

\* A row the page has selected for m; m may have been expired since.
SelectedFor(row, m, p) ==
    row.id = p[1] /\ Contains(p[2], row.matchers) /\ m.endsAt <= row.endsAt

ViewFor(view, p) ==
    view.mute.id = p[1] /\ Contains(p[2], view.mute.matchers) /\ view.status # "expired"

EntryFor(entry, p) ==
    entry.mute.id = p[1] /\ (p[2] \in entry.matches \/ entry.failed \/ Full(entry.matches))

OnTheWay(p) == (\E v \in listed : ViewFor(v, p)) \/ (\E e \in entries : EntryFor(e, p))

SteadyRow(m, p) ==
    /\ InForceSince(m, p)
    /\ filter = "present" /\ place = "project" => \E r \in rows : SelectedFor(r, m, p)

SteadyPair(p) ==
    /\ p[2] \in FiringRows(clock)
    /\ \E m \in mutes : SteadyRow(m, p)
    /\ filter = "present" /\ place \in {"match", "shown"} => OnTheWay(p)

SteadyInv == \A p \in steady : SteadyPair(p)

PInv == HInv /\ FiniteTable /\ TablesInv

LEMMA InitTablesInv == Init => TablesInv
  BY DEF Init, MuteInit, TablesInv, OneRowPerId, CallsArePast

LEMMA NextTablesInv ==
    ASSUME HInv, TablesInv, ViewsStep
    PROVE  TablesInv'
<1> USE DEF TablesInv, OneRowPerId, CallsArePast
<1>0. clock \in Nat /\ \A call \in expiring : call.now \in Nat
  BY ClockIsNat DEF HInv, ViewsTypeOK, MuteTypeOK
<1>1. CASE UNCHANGED <<clock, muteVars>>
  BY <1>1 DEF muteVars
<1>2. CASE AnyCreate
  BY <1>2 DEF AnyCreate, CreateMute, muteVars
<1>3. ASSUME UNCHANGED clock, NEW id \in MuteIds, ExpireCall(id)
      PROVE  TablesInv'
  BY <1>0, <1>3 DEF ExpireCall
<1>4. ASSUME UNCHANGED clock, NEW call \in expiring, ExpireUpdate(call)
      PROVE  TablesInv'
  <2>1. \A m \in mutes : ExpiredRow(m, call).id = m.id
    BY DEF HInv, ViewsTypeOK, MuteTypeOK, MuteRows, ExpiredRow
  <2>2. OneRowPerId'
    BY <1>4, <2>1 DEF ExpireUpdate
  <2> QED BY <1>4, <2>2 DEF ExpireUpdate
<1>5. ASSUME UNCHANGED clock, NEW call \in expiring, ExpireFail(call)
      PROVE  TablesInv'
  BY <1>5 DEF ExpireFail
<1>6. CASE Tick
  BY <1>0, <1>6 DEF Tick, ClockTick, tableVars, muteVars
<1>7. CASE ExpireAny
  BY <1>3, <1>4, <1>5, <1>7 DEF ExpireAny
<1> QED
  BY <1>1, <1>2, <1>6, <1>7
  DEF ViewsStep, Page, OpenPage, ListRows, ListMutes, MatchNext, Render, ClosePage,
      UpsertAny, vars, tableVars

\* What is in force now and has been since the last step was so in between.
LEMMA InForceBetween ==
    ASSUME HInv, NEW m \in mutes, NEW p, InForceSince(m, p), p[2] \in FiringRows(clock),
           NEW t \in since..clock
    PROVE  Active(m, t) /\ p[2] \in FiringRows(t)
<1>1. clock \in Nat /\ since \in Nat /\ t \in Nat /\ since <= t /\ t <= clock
  BY ClockIsNat DEF HInv, ViewsTypeOK
<1>2. m.startsAt \in Nat /\ m.endsAt \in Nat
  BY DEF HInv, ViewsTypeOK, MuteTypeOK, MuteRows
<1>3. p[2] \in DOMAIN observed /\ observed[p[2]].endsAt \in Nat
  BY DEF HInv, ViewsTypeOK, AlertStoreTypeOK, AlertRows, FiringRows
<1> QED
  BY <1>1, <1>2, <1>3 DEF InForceSince, Active, FiringRows, StillFiring, ZeroTime

\* A row keeps its id, matchers and start; its end is moved to now or before.
LEMMA RowStays ==
    ASSUME HInv, TablesInv, ViewsStep, NEW m \in mutes, NEW n \in mutes', n.id = m.id
    PROVE  /\ n.matchers = m.matchers /\ n.startsAt = m.startsAt
           /\ n.endsAt = m.endsAt \/ n.endsAt <= clock
<1>1. CASE n \in mutes
  BY <1>1 DEF TablesInv, OneRowPerId
<1>2. CASE AnyCreate
  BY <1>1, <1>2 DEF AnyCreate, CreateMute, muteVars
<1>3. ASSUME NEW call \in expiring, ExpireUpdate(call)
      PROVE  /\ n.matchers = m.matchers /\ n.startsAt = m.startsAt
             /\ n.endsAt = m.endsAt \/ n.endsAt <= clock
  <2>1. PICK old \in mutes : n = ExpiredRow(old, call)
    BY <1>3 DEF ExpireUpdate
  <2>2. /\ n.id = old.id /\ n.matchers = old.matchers /\ n.startsAt = old.startsAt
        /\ n.endsAt = old.endsAt \/ n.endsAt = call.now
    BY <2>1 DEF HInv, ViewsTypeOK, MuteTypeOK, MuteRows, ExpiredRow
  <2>3. old = m /\ call.now <= clock
    BY <2>2 DEF TablesInv, OneRowPerId, CallsArePast
  <2> QED BY <2>2, <2>3
<1>4. CASE ExpireAny
  BY <1>1, <1>3, <1>4 DEF ExpireAny, ExpireCall, ExpireFail
<1> QED
  BY <1>1, <1>2, <1>4
  DEF ViewsStep, Page, OpenPage, ListRows, ListMutes, MatchNext, Render, ClosePage,
      UpsertAny, Tick, vars, tableVars, muteVars

\* A writer's step leaves a pair steady only if it is still in force.
LEMMA WriterSteady ==
    ASSUME PInv, SteadyInv, ViewsStep, UNCHANGED pageVars, NEW p \in steady, p \in InForce'
    PROVE  SteadyPair(p)'
<1>1. PICK m \in mutes : SteadyRow(m, p)
  BY DEF SteadyInv, SteadyPair
<1>2. /\ p[2] \in FiringRows(clock)'
      /\ \E n \in mutes' : n.id = p[1] /\ Active(n, clock') /\ Contains(p[2], n.matchers)
  BY DEF InForce
<1>3. PICK n \in mutes' : n.id = p[1] /\ Active(n, clock') /\ Contains(p[2], n.matchers)
  BY <1>2
<1>4. /\ n.startsAt = m.startsAt
      /\ n.endsAt = m.endsAt \/ n.endsAt <= clock
  BY <1>1, <1>3, RowStays DEF PInv, SteadyRow, InForceSince
<1>5. /\ clock \in Nat /\ m.endsAt \in Nat /\ rows \subseteq MuteRows
      /\ MuteTypeOK'
  BY ClockIsNat, NextHInv DEF PInv, HInv, ViewsTypeOK, MuteTypeOK, MuteRows
<1>6. n.endsAt \in Nat /\ \A r \in rows : r.endsAt \in Nat
  BY <1>5 DEF MuteTypeOK, MuteRows
<1>7. InForceSince(n, p)'
  BY <1>1, <1>3, <1>4 DEF SteadyRow, InForceSince, Active, pageVars
<1>8. ASSUME NEW r \in rows, SelectedFor(r, m, p)
      PROVE  SelectedFor(r, n, p)
  BY <1>1, <1>4, <1>5, <1>6, <1>8 DEF SelectedFor, SteadyRow, InForceSince
<1>9. SteadyRow(n, p)'
  BY <1>1, <1>7, <1>8 DEF SteadyRow, SelectedFor, pageVars
<1>10. filter = "present" /\ place \in {"match", "shown"} => OnTheWay(p)
  BY DEF SteadyInv, SteadyPair
<1>11. (filter = "present" /\ place \in {"match", "shown"} => OnTheWay(p))'
  BY <1>10 DEF OnTheWay, ViewFor, EntryFor, pageVars
<1> QED BY <1>2, <1>9, <1>11 DEF SteadyPair

\* A step of the page changes no table; it moves since up to the clock.
LEMMA PageKeepsForce ==
    ASSUME PInv, NEW m \in mutes, NEW p, InForceSince(m, p), p[2] \in FiringRows(clock),
           UNCHANGED <<clock, tableVars>>, since' = clock \/ since' = since
    PROVE  InForceSince(m, p)' /\ m \in mutes' /\ p[2] \in FiringRows(clock)'
<1>1. clock \in Nat /\ since \in Nat /\ since <= clock /\ m.startsAt \in Nat
  BY ClockIsNat DEF PInv, HInv, ViewsTypeOK, MuteTypeOK, MuteRows
<1>2. InForceSince(m, p)'
  BY <1>1 DEF InForceSince
<1> QED BY <1>2 DEF tableVars, muteVars, FiringRows, StillFiring

LEMMA OpenPageSteady ==
    ASSUME PInv, OpenPage, NEW p \in steady'
    PROVE  SteadyPair(p)'
<1>1. p[2] \in FiringRows(clock) /\ UNCHANGED <<clock, tableVars>> /\ since' = clock
  BY DEF OpenPage, InForce
<1>2. PICK m \in mutes : m.id = p[1] /\ Active(m, clock) /\ Contains(p[2], m.matchers)
  BY DEF OpenPage, InForce
<1>3. InForceSince(m, p)' /\ m \in mutes' /\ p[2] \in FiringRows(clock)'
  BY <1>1, <1>2 DEF InForceSince, Active, tableVars, muteVars, FiringRows, StillFiring
<1> QED BY <1>3 DEF OpenPage, SteadyPair, SteadyRow

LEMMA ListRowsSteady ==
    ASSUME PInv, SteadyInv, ListRows, NEW p \in steady'
    PROVE  SteadyPair(p)'
<1>1. /\ p \in steady /\ place' = "project"
      /\ UNCHANGED <<clock, tableVars, filter>> /\ since' = clock
  BY DEF ListRows
<1>2. PICK m \in mutes : InForceSince(m, p) /\ p[2] \in FiringRows(clock)
  BY <1>1 DEF SteadyInv, SteadyPair, SteadyRow
<1>3. InForceSince(m, p)' /\ m \in mutes' /\ p[2] \in FiringRows(clock)'
  BY <1>1, <1>2, PageKeepsForce
<1>4. ASSUME filter = "present"
      PROVE  m \in rows'
  <2>1. PICK t \in since..clock : rows' = MutesPresent(t)
    BY <1>1, <1>4 DEF ListRows
  <2>2. Active(m, t)
    BY <1>2, <2>1, InForceBetween DEF PInv
  <2>3. t \in Nat /\ m.endsAt \in Nat
    BY <2>1, ClockIsNat DEF PInv, HInv, ViewsTypeOK, MuteTypeOK, MuteRows
  <2> QED BY <2>1, <2>2, <2>3 DEF Active, MutesPresent
<1>5. SelectedFor(m, m, p)
  BY <1>2 DEF InForceSince, SelectedFor, PInv, HInv, ViewsTypeOK, MuteTypeOK, MuteRows
<1>6. SteadyRow(m, p)'
  BY <1>1, <1>3, <1>4, <1>5 DEF SteadyRow, SelectedFor
<1> QED BY <1>1, <1>3, <1>6 DEF SteadyPair

LEMMA ListMutesSteady ==
    ASSUME PInv, SteadyInv, ListMutes, NEW p \in steady'
    PROVE  SteadyPair(p)'
<1>1. /\ p \in steady /\ place = "project" /\ place' = "match"
      /\ UNCHANGED <<clock, tableVars, filter, entries>> /\ since' = clock
  BY DEF ListMutes
<1>2. PICK m \in mutes : SteadyRow(m, p) /\ p[2] \in FiringRows(clock)
  BY <1>1 DEF SteadyInv, SteadyPair
<1>3. InForceSince(m, p)' /\ m \in mutes' /\ p[2] \in FiringRows(clock)'
  BY <1>1, <1>2, PageKeepsForce DEF SteadyRow
<1>4. ASSUME filter = "present"
      PROVE  \E v \in listed' : ViewFor(v, p)
  <2>1. PICK r \in rows : SelectedFor(r, m, p)
    BY <1>1, <1>2, <1>4 DEF SteadyRow
  <2>2. PICK t \in since..clock :
          listed' = {[mute |-> row, status |-> ProjectStatus(row, t)] : row \in rows}
    BY DEF ListMutes
  <2>3. t \in Nat /\ t <= clock /\ clock \in Nat /\ m.endsAt \in Nat /\ r.endsAt \in Nat
    BY <2>2, ClockIsNat DEF PInv, HInv, ViewsTypeOK, MuteTypeOK, MuteRows
  <2>4. ProjectStatus(r, t) # "expired"
    BY <1>2, <2>1, <2>3 DEF SteadyRow, InForceSince, SelectedFor, ProjectStatus
  <2>5. [mute |-> r, status |-> ProjectStatus(r, t)] \in listed'
    BY <2>1, <2>2
  <2>6. ViewFor([mute |-> r, status |-> ProjectStatus(r, t)], p)
    BY <2>1, <2>4 DEF ViewFor, SelectedFor
  <2> QED BY <2>5, <2>6
<1> QED BY <1>1, <1>3, <1>4 DEF SteadyPair, SteadyRow, OnTheWay

LEMMA EntryShows ==
    ASSUME NEW view, NEW p, ViewFor(view, p), NEW matches, NEW failed \in BOOLEAN,
           p[2] \in matches \/ failed \/ Full(matches)
    PROVE  EntryFor(Entry(view, matches, failed), p)
<1> DEFINE entry == Entry(view, matches, failed)
<1>1. entry.mute.id = p[1]
  BY DEF ViewFor, Entry
<1>2. entry.matches = matches /\ entry.failed = failed
  BY DEF Entry
<1> QED BY <1>1, <1>2 DEF EntryFor

LEMMA MatchNextSteady ==
    ASSUME PInv, SteadyInv, MatchNext, NEW p \in steady'
    PROVE  SteadyPair(p)'
<1>1. /\ p \in steady /\ place = "match" /\ place' = "match"
      /\ UNCHANGED <<clock, tableVars, filter>> /\ since' = clock /\ entries \subseteq entries'
  BY DEF MatchNext
<1>2. PICK m \in mutes : SteadyRow(m, p) /\ p[2] \in FiringRows(clock)
  BY <1>1 DEF SteadyInv, SteadyPair
<1>3. InForceSince(m, p)' /\ m \in mutes' /\ p[2] \in FiringRows(clock)'
  BY <1>1, <1>2, PageKeepsForce DEF SteadyRow
<1>4. PICK view \in listed :
        /\ listed' = listed \ {view}
        /\ \/ view.status = "expired"
           \/ \E t \in since..clock : \E answer \in MatchingAlerts(view.mute.matchers, t) :
                  entries' = entries \cup {Entry(view, answer, FALSE)}
           \/ entries' = entries \cup {Entry(view, {}, TRUE)}
  BY DEF MatchNext
<1>5. ASSUME ViewFor(view, p)
      PROVE  \E e \in entries' : EntryFor(e, p)
  <2>1. CASE entries' = entries \cup {Entry(view, {}, TRUE)}
    BY <1>5, <2>1, EntryShows
  <2>2. ASSUME NEW t \in since..clock, NEW answer \in MatchingAlerts(view.mute.matchers, t),
               entries' = entries \cup {Entry(view, answer, FALSE)}
        PROVE  \E e \in entries' : EntryFor(e, p)
    <3>1. p[2] \in FiringRows(t)
      BY <1>2, InForceBetween DEF PInv, SteadyRow
    <3>2. p[2] \in answer \/ Full(answer)
      BY <1>5, <3>1, MatchingLeftOut DEF PInv, ViewFor
    <3>3. EntryFor(Entry(view, answer, FALSE), p)
      BY <1>5, <3>2, EntryShows
    <3> QED BY <2>2, <3>3
  <2> QED BY <1>4, <1>5, <2>1, <2>2 DEF ViewFor
<1>6. (filter = "present" => OnTheWay(p))'
  BY <1>1, <1>4, <1>5 DEF SteadyInv, SteadyPair, OnTheWay, ViewFor, EntryFor
<1> QED BY <1>1, <1>3, <1>6 DEF SteadyPair, SteadyRow

LEMMA RenderSteady ==
    ASSUME PInv, SteadyInv, Render, NEW p \in steady'
    PROVE  SteadyPair(p)'
<1>1. p \in steady /\ UNCHANGED <<clock, tableVars, filter, since, listed, entries>>
  BY DEF Render
<1>2. PICK m \in mutes : SteadyRow(m, p) /\ p[2] \in FiringRows(clock)
  BY <1>1 DEF SteadyInv, SteadyPair
<1>3. InForceSince(m, p)' /\ m \in mutes' /\ p[2] \in FiringRows(clock)'
  BY <1>1, <1>2, PageKeepsForce DEF SteadyRow
<1>4. filter = "present" => OnTheWay(p)
  BY <1>1 DEF Render, SteadyInv, SteadyPair
<1> QED BY <1>1, <1>3, <1>4 DEF Render, SteadyPair, SteadyRow, OnTheWay, ViewFor, EntryFor

LEMMA NextSteadyInv ==
    ASSUME PInv, SteadyInv, ViewsStep
    PROVE  SteadyInv'
<1>1. CASE Page
  BY <1>1, OpenPageSteady, ListRowsSteady, ListMutesSteady, MatchNextSteady, RenderSteady
  DEF Page, ClosePage, SteadyInv
<1>2. CASE KeepSteady /\ UNCHANGED pageVars
  BY <1>2, WriterSteady DEF KeepSteady, SteadyInv
<1>3. CASE UNCHANGED vars
  BY <1>3
  DEF vars, tableVars, muteVars, pageVars, SteadyInv, SteadyPair, SteadyRow, InForceSince,
      SelectedFor, OnTheWay, ViewFor, EntryFor, FiringRows, StillFiring
<1> QED BY <1>1, <1>2, <1>3 DEF ViewsStep, UpsertAny, AnyCreate, ExpireAny, Tick

\* The whole invariant, as a module that extends Views takes it over.
ShownInv == PInv /\ SteadyInv

LEMMA InitShownInv == Init => ShownInv
  BY InitHInv, InitFinite, InitTablesInv DEF ShownInv, PInv, Init, SteadyInv

LEMMA NextShownInv == ShownInv /\ ViewsStep => ShownInv'
  BY NextHInv, NextFinite, NextTablesInv, NextSteadyInv DEF ShownInv, PInv

LEMMA SteadyInvShows == ShownInv => SteadyIsShown
  BY DEF ShownInv, PInv, HInv, PageShape, SteadyInv, SteadyPair, OnTheWay, EntryFor,
         SteadyIsShown

\* Every alert that a mute covered from the moment the page of the present mutes
\* was opened until it was shown is on it, under that mute, unless the page's
\* query for the mute failed or returned a full list: the page reads the clock
\* once per query and the tables change in between.
THEOREM SteadyIsShownAlways == Spec => []SteadyIsShown
<1>1. ShownInv /\ [Next]_vars => ShownInv'
  BY NextShownInv, NextIsViewsStep
<1> QED BY <1>1, InitShownInv, SteadyInvShows, PTL DEF Spec
=============================================================================
