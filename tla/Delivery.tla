------------------------------ MODULE Delivery ------------------------------
(* What alertchain promises of every (rule, fingerprint) pair, and nothing   *)
(* else: no batches, clock, labels, mutes or requests.  DESIGN, Status state *)
(* machine: "deliver unless the desired status is already recorded".         *)
(*                                                                           *)
(* A worker takes a pair only if the table does not call what it wants       *)
(* delivered, attempts it once, and then records how the attempt ended or is *)
(* lost.  Workers do not wait for one another.  Process implements this      *)
(* specification (ProcessProofs).                                            *)
CONSTANTS
    Workers,
    Keys                 \* the pairs

VARIABLES
    rows,                \* the table: how the recorded attempt on a key ended
    work,                \* what each worker is doing
    acks                 \* the deliveries receivers have acknowledged

deliveryVars == <<rows, work, acks>>

Wants     == {"firing", "resolved"}
Outcomes  == [want : Wants, delivered : BOOLEAN]
NoAttempt == [want |-> "none", delivered |-> FALSE]
Idle      == [step |-> "idle"]

Jobs == [step : {"taken"}, key : Keys, want : Wants]

\* The outcome in the job of a worker that has attempted it.
Attempted(job, delivered) ==
    [step |-> "attempted", key |-> job.key,
     outcome |-> [want |-> job.want, delivered |-> delivered]]

DeliveryInit ==
    /\ rows = [k \in Keys |-> NoAttempt]
    /\ work = [w \in Workers |-> Idle]
    /\ acks = {}

Take(w) ==
    /\ work[w] = Idle
    /\ LET job == work'[w] IN
          /\ job \in Jobs
          /\ work' = [work EXCEPT ![w] = job]
          /\ rows[job.key] # [want |-> job.want, delivered |-> TRUE]
    /\ UNCHANGED <<rows, acks>>

Attempt(w) ==
    /\ work[w].step = "taken"
    /\ \/ /\ work' = [work EXCEPT ![w] = Attempted(work[w], TRUE)]
          /\ acks' = acks \cup {<<work[w].key, work[w].want>>}
       \/ /\ work' = [work EXCEPT ![w] = Attempted(work[w], FALSE)]
          /\ UNCHANGED acks
    /\ UNCHANGED rows

Record(w) ==
    /\ work[w].step = "attempted"
    /\ rows' = [rows EXCEPT ![work[w].key] = work[w].outcome]
    /\ work' = [work EXCEPT ![w] = Idle]
    /\ UNCHANGED acks

\* The record is lost, or the worker with it.
Lose(w) ==
    /\ work[w] # Idle
    /\ work' = [work EXCEPT ![w] = Idle]
    /\ UNCHANGED <<rows, acks>>

DeliveryNext == \E w \in Workers : Take(w) \/ Attempt(w) \/ Record(w) \/ Lose(w)

DeliverySpec == DeliveryInit /\ [][DeliveryNext]_deliveryVars
=============================================================================
