----------------------------- MODULE AlertStore ----------------------------
(* The alerts table (internal/store/store.go): what the UI shows of the      *)
(* alerts the daemon has seen.  Nothing on the notification path reads it.   *)
EXTENDS Clock, Routing

VARIABLE observed        \* fingerprint |-> row, for the fingerprints stored

AlertRows ==
    [startsAt : Nat, endsAt : Nat, firstSeenAt : Nat, lastSeenAt : Nat]

AlertStoreTypeOK ==
    /\ DOMAIN observed \subseteq LabelSets
    /\ observed \in [DOMAIN observed -> AlertRows]

AlertStoreInit == observed = <<>>

\* The fingerprint is computed from the labels, so storing the labels again on
\* conflict changes nothing; starts_at and first_seen_at keep their first value.
UpsertedRow(table, alert, now) ==
    LET fp == Fingerprint(alert) IN
    IF fp \in DOMAIN table
    THEN [table[fp] EXCEPT !.endsAt = alert.endsAt, !.lastSeenAt = now]
    ELSE [startsAt |-> alert.startsAt, endsAt |-> alert.endsAt,
          firstSeenAt |-> now, lastSeenAt |-> now]

Upserted(table, alert, now) ==
    [fp \in DOMAIN table \cup {Fingerprint(alert)} |->
        IF fp = Fingerprint(alert) THEN UpsertedRow(table, alert, now)
                                   ELSE table[fp]]
=============================================================================
