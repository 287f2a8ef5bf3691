----------------------------- MODULE MuteStore -----------------------------
(* The mutes table and the two calls that change it: POST and DELETE on      *)
(* /api/v1/mutes (and their forms in the UI), through CreateMute and         *)
(* Store.Expire.  Rows are never deleted.                                    *)
EXTENDS Clock, Routing, FiniteSets

CONSTANTS
    MuteIds,
    MuteRequests,        \* the create requests operators send
    MaxExpires           \* bound: expire calls in flight at once

MuteRequestRows ==
    [matchers : LabelSets, startsAt : Nat, endsAt : Nat,
     comment : STRING, createdBy : STRING]

ASSUME MuteRequestsAssumption == MuteRequests \subseteq MuteRequestRows
ASSUME MaxExpiresAssumption == MaxExpires \in Nat

VARIABLES
    mutes,               \* the table, as a set of rows
    expiring             \* expire calls that read the clock and have not run
                         \* their UPDATE

muteVars == <<mutes, expiring>>

MuteRows == [id : MuteIds, matchers : LabelSets, startsAt : Nat, endsAt : Nat]

MuteTypeOK ==
    /\ mutes \subseteq MuteRows
    /\ expiring \subseteq [id : MuteIds, now : Nat]

\* A slip: the interval open at its end.
ActiveBefore(mute, t) == mute.startsAt <= t /\ t < mute.endsAt

\* Mute.Active and the WHERE clause of Store.Matches: closed at both ends.
Active(mute, t) == mute.startsAt <= t /\ t <= mute.endsAt

MatchesAlert(mute, alert) == MatchAll(mute.matchers, alert.labels)

\* A slip: pending rows not left out.
MatchingUnlessOver(alert, t) == {m \in mutes : t <= m.endsAt /\ MatchesAlert(m, alert)}

\* The rows Store.Matches looks for; it answers whether there is one.
Matching(alert, t) == {m \in mutes : Active(m, t) /\ MatchesAlert(m, alert)}
Matches(alert, t) == Matching(alert, t) # {}

\* projectMuteView, which asks for "pending" first.
ProjectStatus(mute, t) ==
    IF t < mute.startsAt THEN "pending"
    ELSE IF t > mute.endsAt THEN "expired" ELSE "active"

\* Slips: a row ending right now not listed among the present ones; listed
\* among the expired ones.
MutesPresentAfter(t) == {m \in mutes : m.endsAt > t}
MutesExpiredFrom(t) == {m \in mutes : m.endsAt <= t}

\* The two filters of Store.List.
MutesPresent(t) == {m \in mutes : m.endsAt >= t}
MutesExpired(t) == {m \in mutes : m.endsAt < t}

\* comment and created_by stand for their trimmed text.
ValidateMuteCreate(req) ==
    /\ req.matchers # <<>>
    /\ req.startsAt # ZeroTime /\ req.endsAt # ZeroTime
    /\ req.endsAt > req.startsAt
    /\ req.comment # "" /\ req.createdBy # ""

MuteInit == mutes = {} /\ expiring = {}

\* A rejected or failed request inserts nothing; a request whose answer is
\* lost may be sent again and then inserts a second row, under another id.
CreateMute(req) ==
    /\ ValidateMuteCreate(req)
    /\ \E id \in MuteIds :
          /\ \A m \in mutes : m.id # id
          /\ mutes' = mutes \cup
                {[id |-> id, matchers |-> req.matchers,
                  startsAt |-> req.startsAt, endsAt |-> req.endsAt]}
    /\ UNCHANGED expiring

\* Store.Expire reads the clock before it asks the pool for a connection. An
\* unknown id is answered 404 and changes nothing.
ExpireCall(id) ==
    /\ Cardinality(expiring) < MaxExpires
    /\ \E m \in mutes : m.id = id
    /\ expiring' = expiring \cup {[id |-> id, now |-> clock]}
    /\ UNCHANGED mutes

\* The UPDATE does not look at the row's present ends_at.
ExpiredRow(mute, call) ==
    IF mute.id = call.id THEN [mute EXCEPT !.endsAt = call.now] ELSE mute

ExpireUpdate(call) ==
    /\ call \in expiring
    /\ expiring' = expiring \ {call}
    /\ mutes' = {ExpiredRow(m, call) : m \in mutes}

\* The database refuses the call or its instance dies.
ExpireFail(call) ==
    /\ call \in expiring
    /\ expiring' = expiring \ {call}
    /\ UNCHANGED mutes
=============================================================================
