------------------------------- MODULE Clock -------------------------------
(* The wall clock every instance, handler and SQL parameter reads with       *)
(* time.Now().  It is shared by the whole deployment: clock skew between     *)
(* instances is not modelled.                                                *)
EXTENDS Naturals

CONSTANT MaxClock        \* bound: the clock stops ticking here

ASSUME MaxClockAssumption == MaxClock \in Nat \ {0}

VARIABLE clock

\* time.Time{}: what an absent endsAt decodes to, and what IsZero tests.
ZeroTime == 0

ClockTypeOK == clock \in 1..MaxClock

ClockInit == clock = 1

ClockTick == clock < MaxClock /\ clock' = clock + 1
=============================================================================
