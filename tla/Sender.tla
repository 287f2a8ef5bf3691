------------------------------- MODULE Sender -------------------------------
(* A Prometheus-like sender in front of the daemon.  It watches one alert,   *)
(* which fires and resolves any number of times under the same labels, and   *)
(* pushes the alert's present state again and again, one push at a time.     *)
(* While the alert fires, its endsAt lies ahead; once it is over, endsAt is  *)
(* the time it ended (DESIGN, Sender side: compatible).  The sender keeps no *)
(* record of what alertchain answered.                                       *)
EXTENDS Process

CONSTANTS
    Watched,             \* the labels of the alert
    Companions,          \* other alerts the same pushes carry
    Ahead,               \* how far ahead the endsAt of a firing alert lies
    MaxOccurrences       \* bound: how often the alert fires

ASSUME WatchedAssumption ==
    Watched \in LabelSets /\ Companions \in Seq(Alerts)
ASSUME SenderBoundsAssumption ==
    Ahead \in Nat \ {0} /\ MaxOccurrences \in Nat

VARIABLES
    firing,
    occurrence,          \* how often the alert has fired so far
    began, ended,        \* when the latest occurrence did
    \* auxiliary
    carried,             \* what the push in the handler's hands says
    settled,             \* occurrences whose end was pushed and answered 200
    heard                \* pairs put to a receiver as firing in this occurrence

senderVars == <<firing, occurrence, began, ended, carried, settled, heard>>

Nothing == [occurrence |-> 0, over |-> FALSE]

SenderTypeOK ==
    /\ TypeOK
    /\ firing \in BOOLEAN
    /\ occurrence \in 0..MaxOccurrences
    /\ began \in 0..clock /\ ended \in 0..clock
    /\ carried \in [Handlers -> [occurrence : 0..MaxOccurrences, over : BOOLEAN]]
    /\ settled \subseteq 0..MaxOccurrences
    /\ heard \subseteq Pairs

SenderInit ==
    /\ Init
    /\ firing = FALSE /\ occurrence = 0 /\ began = 0 /\ ended = 0
    /\ carried = [h \in Handlers |-> Nothing]
    /\ settled = {0}
    /\ heard = {}
-----------------------------------------------------------------------------
(* The alert.                                                                *)

Fire ==
    /\ ~firing /\ occurrence < MaxOccurrences
    /\ firing' = TRUE
    /\ occurrence' = occurrence + 1
    /\ began' = clock
    /\ heard' = {}
    /\ UNCHANGED <<vars, ended, carried, settled>>

Resolve ==
    /\ firing
    /\ firing' = FALSE
    /\ ended' = clock
    /\ UNCHANGED <<vars, occurrence, began, carried, settled, heard>>

State ==
    [labels   |-> Watched,
     startsAt |-> began,
     endsAt   |-> IF firing THEN clock + Ahead ELSE ended]
-----------------------------------------------------------------------------
(* The pushes.                                                               *)

\* The next push waits for the answer to the one before.
Push(h) ==
    /\ occurrence > 0
    /\ \A g \in Handlers : carried[g] = Nothing
    /\ Accept(h, <<State>> \o Companions)
    /\ carried' = [carried EXCEPT ![h] = [occurrence |-> occurrence, over |-> ~firing]]
    /\ UNCHANGED <<firing, occurrence, began, ended, settled, heard>>

\* Somebody else's push.
OtherPush(h) ==
    /\ \E batch \in Batches : Accept(h, batch)
    /\ UNCHANGED senderVars

CarriesWatched(h) == carried[h] # Nothing /\ Current(h).labels = Watched

\* A POST that announces this very occurrence.
Announces(h) ==
    /\ At(h, "notify") /\ pc'[h] = "record"
    /\ CarriesWatched(h) /\ carried[h].occurrence = occurrence
    /\ Want(h) = "firing-sent"

\* The sender is told 200 of a push that said the alert is over.
Settles(h) == At(h, "ok") /\ live[h] /\ carried[h].over

Handle(h) ==
    /\ Process(h) \/ Cancel(h) \/ Crash(h)
    /\ heard' = IF Announces(h) THEN heard \cup {PairOf(h)} ELSE heard
    /\ settled' = IF Settles(h) THEN settled \cup {carried[h].occurrence} ELSE settled
    /\ carried' = IF pc'[h] = "idle" THEN [carried EXCEPT ![h] = Nothing] ELSE carried
    /\ UNCHANGED <<firing, occurrence, began, ended>>

SenderNext ==
    \/ Fire \/ Resolve
    \/ \E h \in Handlers : Push(h) \/ OtherPush(h) \/ Handle(h)
    \/ (Operators \/ Tick) /\ UNCHANGED senderVars

SenderSpec == SenderInit /\ [][SenderNext]_<<vars, senderVars>>
-----------------------------------------------------------------------------
\* When Process is done with an unmuted alert that fires again and has not ended
\* since, after the sender was told 200 of the end of the occurrence before, every
\* rule that applies has announced this occurrence: what the history says of the
\* last one does not silence it ("When the same fingerprint fires again after
\* being resolved, alertchain delivers it").
OccurrenceTold ==
    [][\A h \in Handlers :
          /\ LoopEnds(h)
          /\ CarriesWatched(h) /\ ~carried[h].over /\ Want(h) = "firing-sent"
          /\ carried[h].occurrence = occurrence
          /\ occurrence - 1 \in settled
          => \A i \in Decisions(Watched) : Pair(i, Current(h)) \in heard'
      ]_<<vars, senderVars>>
=============================================================================
