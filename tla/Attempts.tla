------------------------------ MODULE Attempts -----------------------------
(* How far the history may lag behind what the receivers were last sent, and *)
(* when a delivery is repeated, with any number of requests at a time, on    *)
(* any instances, that fail, hang up or die wherever they are.  DESIGN names *)
(* concurrent processing and a lost write of the history as the causes of    *)
(* duplicates, next to answers that do not arrive; this module keeps track   *)
(* of the causes beside Process, whose steps it leaves as they are.          *)
EXTENDS Process

VARIABLES
    \* auxiliary
    lapsed,              \* pairs whose row may not be their latest attempt
    overtaken            \* handlers whose lookup was followed by another's write

attemptVars == <<vars, lapsed, overtaken>>

\* The handlers between a POST on the pair and its record.
Recording(p) == {h \in Handlers : At(h, "record") /\ PairOf(h) = p}

Posts(h) == At(h, "notify") /\ pc'[h] = "record"

\* The write of the history fails or the handler dies before it.
LosesRecord(h) ==
    /\ At(h, "record") /\ pc'[h] # "record"
    /\ ~live[h] \/ faults' # faults

\* A pair lapses when its attempts overlap or a record is lost, and until the
\* next attempt on it that nothing overlaps.
Lapse ==
    lapsed' = {p \in Pairs :
        \/ \E h \in Handlers : LosesRecord(h) /\ PairOf(h) = p
        \/ \E h \in Handlers : Posts(h) /\ PairOf(h) = p /\ Recording(p) # {}
        \/ p \in lapsed /\ \A h \in Handlers : Posts(h) => PairOf(h) # p}

Overtake ==
    overtaken' = {h \in Handlers :
        /\ At(h, "notify") /\ pc'[h] = "notify"
        /\ h \in overtaken \/ history'[PairOf(h)] # history[PairOf(h)]}

AttemptsInit == Init /\ lapsed = {} /\ overtaken = {}

AttemptsNext == Next /\ Lapse /\ Overtake

AttemptsSpec == AttemptsInit /\ [][AttemptsNext]_attemptVars
-----------------------------------------------------------------------------
\* The row of a pair is the outcome of the latest attempt on it, unless that
\* attempt is still to be recorded, its record was lost or attempts overlapped:
\* failed lookups and POSTs, crashes anywhere else, hang-ups and requests that
\* take turns never leave the history behind ("the most recent attempt per
\* (rule_name, fingerprint)").
RowIsLatest ==
    \A p \in Pairs \ lapsed : Recording(p) = {} => history[p] = last[p]

\* What the latest attempt on a pair delivered is posted again only for the
\* causes DESIGN lists: a record that was lost, or concurrent processing of the
\* alert (before the row was read, after it, or while this POST is made).
RepeatsHaveACause ==
    [][\A h \in Handlers : Posts(h) /\ last[PairOf(h)] = Want(h) =>
          \/ PairOf(h) \in lapsed
          \/ Recording(PairOf(h)) # {}
          \/ h \in overtaken]_attemptVars
=============================================================================
