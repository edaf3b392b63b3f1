--------------------------- MODULE CycleDecision ---------------------------
(***************************************************************************)
(* How quota_sync.py decides, from the remembered row of an account and a  *)
(* new snapshot of it, whether the account has entered a new 7d cycle, and *)
(* what each decision writes back into the row.                            *)
(*                                                                         *)
(* Times are integers on one clock, so the seven days, the five minutes of *)
(* boundary tolerance and the configured thresholds are parameters and one *)
(* tick may stand for any of them.  A percentage or a cost is a number or  *)
(* Absent (the NULL of SQLite, the None of Python).                        *)
(***************************************************************************)
EXTENDS Integers

CONSTANTS Week,             \* seven days
          Tolerance,        \* CYCLE_BOUNDARY_TOLERANCE
          JitterTolerance,  \* jitter_tolerance
          MinCycleShift,    \* min_cycle_shift
          RearmRemaining,   \* rearm_remaining
          LowUsed,          \* 5 percent: at most this is "back to low"
          MinDrop,          \* 1 percent: the least drop that counts
          Absent            \* no row yet, no percentage, no cost

\* min_cycle_shift and rearm_remaining are at least a day in the native
\* configuration and jitter_tolerance may be zero; nothing orders the three.
ASSUME ThresholdAssumption ==
  /\ Week \in Nat \ {0} /\ Tolerance \in Nat
  /\ JitterTolerance \in Nat /\ MinCycleShift \in Nat \ {0}
  /\ RearmRemaining \in Nat \ {0}
  /\ LowUsed \in Nat /\ MinDrop \in Nat \ {0}

Reading == Nat \union {Absent}

Snapshot == [resetAt: Int, sampleAt: Int, used: Reading, resetAfter: Nat, cost: Reading]

Row == [resetAt: Int, sampleAt: Int, used: Reading, cost: Reading]

NoRow == Absent

ASSUME AbsentAssumption == Absent \notin Int /\ NoRow \notin Row

-----------------------------------------------------------------------------

Shift(row, s) == s.resetAt - row.resetAt

\* A shift of at most this much is noise of the upstream estimate.
Noise == IF JitterTolerance > Tolerance THEN JitterTolerance ELSE Tolerance

Remaining(s) == s.resetAt - s.sampleAt

FitsWeek(s) == Remaining(s) <= Week + Tolerance

Rearmed(s) ==
  /\ Remaining(s) >= RearmRemaining
  /\ s.resetAfter >= RearmRemaining
  /\ FitsWeek(s)

UsageReset(row, s) ==
  /\ row.used # Absent
  /\ s.used # Absent
  /\ s.used <= LowUsed
  /\ row.used - s.used >= MinDrop

\* Mutant of FreshCycle: no allowance for five minutes of clock difference.
FreshCycleExactly(row, s) ==
  row.sampleAt <= s.resetAt - Week /\ s.resetAt - Week <= s.sampleAt

\* The new cycle starts between the two samples.
FreshCycle(row, s) ==
  /\ row.sampleAt - Tolerance <= s.resetAt - Week
  /\ s.resetAt - Week <= s.sampleAt + Tolerance

CostDropped(row, s) ==
  /\ s.cost # Absent
  /\ row.cost # Absent
  /\ s.cost < row.cost

BoundaryAhead(row, s) == s.sampleAt + Tolerance < row.resetAt

\* Mutant of EarlyReset: a boundary that advances at all is enough.
EarlyResetOnAnyShift(row, s) ==
  Rearmed(s) /\ UsageReset(row, s) /\ FreshCycle(row, s) /\ Shift(row, s) > 0

EarlyReset(row, s) ==
  /\ Rearmed(s)
  /\ UsageReset(row, s)
  /\ FreshCycle(row, s)
  /\ Shift(row, s) > Noise

\* Mutant of DriftFollow: the shift of the boundary is not looked at.
DriftFollowOnAnyShift(row, s) ==
  BoundaryAhead(row, s) /\ CostDropped(row, s) /\ FitsWeek(s)

DriftFollow(row, s) ==
  /\ BoundaryAhead(row, s)
  /\ CostDropped(row, s)
  /\ FitsWeek(s)
  /\ Shift(row, s) > Noise

Decide(row, s) ==
  IF row = NoRow THEN "baseline"
  ELSE IF s.sampleAt <= row.sampleAt THEN "stale"
  ELSE IF Shift(row, s) < -JitterTolerance THEN "suspicious"
  ELSE IF EarlyReset(row, s) \/ DriftFollow(row, s) THEN "reset"
  ELSE IF BoundaryAhead(row, s) THEN "observe"
  ELSE IF ~Rearmed(s) THEN "not_rearmed"
  ELSE IF Shift(row, s) < MinCycleShift THEN "suspicious"
  ELSE IF ~UsageReset(row, s) THEN "observe"
  ELSE "reset"

-----------------------------------------------------------------------------

\* COALESCE(excluded.window_cost, account_state.window_cost)
KeptCost(row, s) ==
  IF s.cost = Absent /\ row # NoRow THEN row.cost ELSE s.cost

Later(t, u) == IF t >= u THEN t ELSE u

\* Mutant of ObservedRow: every observation moves the boundary.
ObservedRowMoving(row, s, updateCycle) ==
  [resetAt |-> s.resetAt, sampleAt |-> s.sampleAt, used |-> s.used, cost |-> KeptCost(row, s)]

\* The row after write_observation.
ObservedRow(row, s, updateCycle) ==
  [resetAt  |-> IF row = NoRow THEN s.resetAt
                ELSE IF updateCycle THEN Later(row.resetAt, s.resetAt)
                ELSE row.resetAt,
   sampleAt |-> s.sampleAt,
   used     |-> s.used,
   cost     |-> KeptCost(row, s)]

\* Mutant of ConfirmedRow: the event is added and the row left as it was.
ConfirmedRowForgotten(row, s) == row

\* The row after _upsert_state, written in the transaction that adds an event.
ConfirmedRow(row, s) ==
  [resetAt |-> s.resetAt, sampleAt |-> s.sampleAt, used |-> s.used, cost |-> KeptCost(row, s)]
=============================================================================
