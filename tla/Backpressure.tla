---------------------------- MODULE Backpressure ----------------------------
(***************************************************************************)
(* Admission control (src/internal/delivery/backpressure.go): which tasks  *)
(* ShouldAccept refuses, by the memory pressure it measures and the share  *)
(* of tasks it has refused so far.  It runs under bp.mu, so a call is one  *)
(* step; Submission makes the calls.  ResetWindow has no caller.           *)
(***************************************************************************)
EXTENDS Integers

VARIABLES
    rejectionCount,
    acceptanceCount,
    sawCritical,    \* whether a call has ever measured critical pressure
    last            \* the last call: did it measure critical pressure, accept?

backpressure == <<rejectionCount, acceptanceCount, sawCritical, last>>

Pressures == {"low", "medium", "high", "critical"}

Total == rejectionCount + acceptanceCount

NewBackpressureCtrl ==
    /\ rejectionCount = 0
    /\ acceptanceCount = 0
    /\ sawCritical = FALSE
    /\ last = [critical |-> FALSE, accepted |-> TRUE]

\* The rejection rate exceeds tenths / 10.
RateOver(tenths) == 10 * rejectionCount > tenths * Total

\* Mutant: high pressure refuses whatever the rate is.
RefusesRegardless(priority, pressure) ==
    \/ pressure = "critical" /\ priority < 8
    \/ pressure = "high" /\ (RateOver(3) \/ priority < 6)
    \/ pressure = "medium" /\ RateOver(5) /\ priority < 4

Refuses(priority, pressure) ==
    \/ pressure = "critical" /\ priority < 8
    \/ pressure = "high" /\ RateOver(3) /\ priority < 6
    \/ pressure = "medium" /\ RateOver(5) /\ priority < 4

Accept ==
    /\ acceptanceCount' = acceptanceCount + 1
    /\ UNCHANGED rejectionCount

Reject ==
    /\ rejectionCount' = rejectionCount + 1
    /\ UNCHANGED acceptanceCount

\* The first task is accepted before any pressure is measured.
AcceptFirst ==
    /\ Total = 0
    /\ Accept
    /\ last' = [critical |-> FALSE, accepted |-> TRUE]
    /\ UNCHANGED sawCritical

Decide(priority, pressure) ==
    /\ Total # 0
    /\ IF Refuses(priority, pressure) THEN Reject ELSE Accept
    /\ last' = [critical |-> pressure = "critical",
                accepted |-> ~Refuses(priority, pressure)]
    /\ sawCritical' = (sawCritical \/ pressure = "critical")

ShouldAccept(priority) ==
    AcceptFirst \/ \E pressure \in Pressures : Decide(priority, pressure)

-----------------------------------------------------------------------------
(* Properties.                                                             *)

CountersOK ==
    /\ rejectionCount \in Nat
    /\ acceptanceCount \in Nat
    /\ sawCritical \in BOOLEAN
    /\ last \in [critical : BOOLEAN, accepted : BOOLEAN]

\* The limits for high and medium pressure depend on a rejection rate that only
\* rejections raise: without critical pressure at some time they never engage,
\* and no task is ever refused.
ThrottleNeedsCritical == rejectionCount > 0 => sawCritical

\* Once the rejection rate is down to 0.3 nothing but critical pressure brings
\* the limits back, however long high pressure lasts.
ReleasedStaysReleased ==
    [][~RateOver(3) /\ ~last'.critical => ~RateOver(3)']_backpressure
=============================================================================
