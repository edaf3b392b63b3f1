------------------------ MODULE CycleDetectorProofs ------------------------
(***************************************************************************)
(* What CycleDetector promises, for every value of the thresholds and for   *)
(* every set of snapshots.  The inductive invariant is Inv: the boundary in *)
(* the row is the latest key, so "at least Spacing beyond the row" means    *)
(* "at least Spacing beyond every key".                                     *)
(***************************************************************************)
EXTENDS CycleDetector, TLAPS

Inv == TypeOK /\ BoundaryIsConfirmed /\ EventsSpaced

-----------------------------------------------------------------------------
(* The rows written by write_observation and _upsert_state *)

\* Recording a sample gives a row whose boundary is not earlier.
LEMMA ObservedRowType ==
  ASSUME NEW r \in Row \union {NoRow}, NEW s \in Snapshot, NEW u \in BOOLEAN
  PROVE  /\ ObservedRow(r, s, u) \in Row
         /\ ObservedRow(r, s, u).sampleAt = s.sampleAt
         /\ r # NoRow => ObservedRow(r, s, u).resetAt >= r.resetAt
         /\ r # NoRow /\ ~u => ObservedRow(r, s, u).resetAt = r.resetAt
<1>1. s.resetAt \in Int /\ s.sampleAt \in Int /\ s.used \in Reading /\ s.cost \in Reading
  BY DEF Snapshot
<1>2. r # NoRow => r.resetAt \in Int /\ r.cost \in Reading
  BY DEF Row
<1> QED
  BY <1>1, <1>2 DEF ObservedRow, Row, KeptCost, Later

\* Confirming a sample gives a row with its boundary.
LEMMA ConfirmedRowType ==
  ASSUME NEW r \in Row \union {NoRow}, NEW s \in Snapshot
  PROVE  /\ ConfirmedRow(r, s) \in Row
         /\ ConfirmedRow(r, s).sampleAt = s.sampleAt
         /\ ConfirmedRow(r, s).resetAt = s.resetAt
<1>1. s.resetAt \in Int /\ s.sampleAt \in Int /\ s.used \in Reading /\ s.cost \in Reading
  BY DEF Snapshot
<1>2. r # NoRow => r.cost \in Reading
  BY DEF Row
<1> QED
  BY <1>1, <1>2 DEF ConfirmedRow, Row, KeptCost

-----------------------------------------------------------------------------

\* The parameters, with the types arithmetic needs.
LEMMA Parameters ==
  /\ Week \in Nat /\ Tolerance \in Nat /\ JitterTolerance \in Nat
  /\ MinCycleShift \in Nat /\ MinCycleShift > 0 /\ RearmRemaining \in Nat
  /\ Noise \in Nat /\ Spacing \in Nat /\ Spacing > 0
  /\ Spacing <= Noise + 1 /\ Spacing <= MinCycleShift
  /\ Absent \notin Int /\ Snapshots \subseteq Snapshot
BY ThresholdAssumption, AbsentAssumption, SnapshotsAssumption DEF Noise, Spacing


\* A reset decision compares with a row, for a sample later than the row's, and
\* its boundary is at least Spacing beyond the row's.
LEMMA ResetMovesBoundary ==
  ASSUME NEW r \in Row \union {NoRow}, NEW s \in Snapshot, Decide(r, s) = "reset"
  PROVE  /\ r # NoRow /\ r \in Row
         /\ s.sampleAt > r.sampleAt
         /\ s.resetAt >= r.resetAt + Spacing
<1>1. r # NoRow /\ r \in Row
  BY DEF Decide
<1>2. r.resetAt \in Int /\ r.sampleAt \in Int /\ s.resetAt \in Int /\ s.sampleAt \in Int
  BY <1>1 DEF Row, Snapshot
<1>3. ~(s.sampleAt <= r.sampleAt)
  BY <1>1 DEF Decide
<1>4. Shift(r, s) > Noise \/ ~(Shift(r, s) < MinCycleShift)
  BY <1>1, <1>3 DEF Decide, EarlyReset, DriftFollow
<1> QED
  BY <1>1, <1>2, <1>3, <1>4, Parameters DEF Shift

\* Under the invariant every key lies at or before the row's boundary, so a reset
\* decision is for a boundary at least Spacing beyond all of them.
LEMMA FreshKey ==
  ASSUME Inv, NEW s \in Snapshot, Decide(row, s) = "reset"
  PROVE  /\ s.resetAt \in Int
         /\ \A k \in keys : k \in Int /\ k + Spacing <= s.resetAt
         /\ s.resetAt \notin keys
<1>1. row \in Row \union {NoRow} /\ keys \subseteq Int
  BY DEF Inv, TypeOK
<1>2. row \in Row /\ s.resetAt >= row.resetAt + Spacing
  BY <1>1, ResetMovesBoundary
<1>3. row.resetAt \in Int /\ s.resetAt \in Int
  BY <1>2 DEF Row, Snapshot
<1>4. \A k \in keys : k \in Int /\ k <= row.resetAt
  BY <1>1 DEF Inv, BoundaryIsConfirmed
<1>5. \A k \in keys : k \in Int /\ k + Spacing <= s.resetAt
  BY <1>2, <1>3, <1>4, Parameters
<1> QED
  BY <1>3, <1>5, Parameters

\* No row and no events to begin with.
LEMMA InitInv == Init => Inv
BY DEF Init, Inv, TypeOK, BoundaryIsConfirmed, EventsSpaced

\* An observation leaves the boundary where it is, or sets the first one.
LEMMA ObserveInv ==
  ASSUME Inv, NEW s \in Snapshot, Observe(s)
  PROVE  Inv'
<1>0. row \in Row \union {NoRow} /\ keys \subseteq Int
  BY DEF Inv, TypeOK
<1> DEFINE u == Decide(row, s) = "baseline"
<1>1. row' = ObservedRow(row, s, u) /\ keys' = keys /\ u \in BOOLEAN
  BY DEF Observe
<1>2. row' \in Row /\ (row # NoRow /\ ~u => row'.resetAt = row.resetAt)
  BY <1>0, <1>1, ObservedRowType
<1>3. row # NoRow => ~u
  BY DEF Decide
<1>4. TypeOK'
  BY <1>0, <1>1, <1>2 DEF TypeOK
<1>5. BoundaryIsConfirmed'
  BY <1>1, <1>2, <1>3, AbsentAssumption DEF Inv, BoundaryIsConfirmed
<1>6. EventsSpaced'
  BY <1>1 DEF Inv, EventsSpaced
<1> QED
  BY <1>4, <1>5, <1>6 DEF Inv

\* An event and its row come together, so the row's boundary is the new latest key.
LEMMA QueueInv ==
  ASSUME Inv, NEW s \in Snapshot, Queue(s)
  PROVE  Inv'
<1>0. row \in Row \union {NoRow} /\ keys \subseteq Int /\ Decide(row, s) = "reset"
  BY DEF Inv, TypeOK, Queue
<1>1. /\ s.resetAt \in Int /\ s.resetAt \notin keys
      /\ \A k \in keys : k \in Int /\ k + Spacing <= s.resetAt
  BY <1>0, FreshKey
<1>2. keys' = keys \union {s.resetAt} /\ row' = ConfirmedRow(row, s)
  BY <1>1 DEF Queue
<1>3. row' \in Row /\ row'.resetAt = s.resetAt
  BY <1>0, <1>2, ConfirmedRowType
<1>4. TypeOK'
  BY <1>0, <1>1, <1>2, <1>3 DEF TypeOK
<1>5. BoundaryIsConfirmed'
  BY <1>1, <1>2, <1>3, Parameters, AbsentAssumption DEF BoundaryIsConfirmed
<1>6. EventsSpaced'
  <2> SUFFICES ASSUME NEW j \in keys', NEW k \in keys', j < k PROVE j + Spacing <= k
    BY DEF EventsSpaced
  <2>1. CASE k = s.resetAt
    BY <1>1, <1>2, <2>1
  <2>2. CASE k # s.resetAt /\ j = s.resetAt
    BY <1>1, <1>2, <2>2, Parameters
  <2>3. CASE j \in keys /\ k \in keys
    BY <2>3 DEF Inv, EventsSpaced
  <2> QED
    BY <1>2, <2>1, <2>2, <2>3
<1> QED
  BY <1>4, <1>5, <1>6 DEF Inv

\* Every step preserves the invariant.
LEMMA NextInv == Inv /\ [Next]_vars => Inv'
<1> SUFFICES ASSUME Inv, [Next]_vars PROVE Inv'
  OBVIOUS
<1>1. CASE Next
  BY <1>1, ObserveInv, QueueInv, Parameters DEF Next
<1>2. CASE UNCHANGED vars
  BY <1>2 DEF vars, Inv, TypeOK, BoundaryIsConfirmed, EventsSpaced
<1> QED
  BY <1>1, <1>2

-----------------------------------------------------------------------------

\* The row stays a row and the boundaries stay times.
THEOREM TypeCorrect == Spec => []TypeOK
<1>1. Inv => TypeOK
  BY DEF Inv
<1> QED
  BY InitInv, NextInv, <1>1, PTL DEF Spec

\* For any thresholds and any snapshots, the row's boundary is the latest key.
THEOREM BoundaryConfirmed == Spec => []BoundaryIsConfirmed
<1>1. Inv => BoundaryIsConfirmed
  BY DEF Inv
<1> QED
  BY InitInv, NextInv, <1>1, PTL DEF Spec

\* For any thresholds and any snapshots, two events of one account are for
\* boundaries more than the noise (or at least the minimal shift) apart.
THEOREM Spaced == Spec => []EventsSpaced
<1>1. Inv => EventsSpaced
  BY DEF Inv
<1> QED
  BY InitInv, NextInv, <1>1, PTL DEF Spec

\* No reset decision ever meets the UNIQUE constraint on event_key.
THEOREM KeysAreFresh == Spec => []KeyIsFresh
<1>1. Inv => KeyIsFresh
  BY FreshKey, Parameters DEF KeyIsFresh
<1> QED
  BY InitInv, NextInv, <1>1, PTL DEF Spec

\* The boundary and the sample time of a row only move forward, the boundary by
\* Spacing or more.
THEOREM Forward == Spec => NeverRetreats
<1> DEFINE Step == row # NoRow =>
                     /\ row' # NoRow
                     /\ row'.sampleAt > row.sampleAt
                     /\ row'.resetAt = row.resetAt \/ row'.resetAt >= row.resetAt + Spacing
<1>1. Inv /\ [Next]_vars => [Step]_vars
  <2> SUFFICES ASSUME Inv, Next, row # NoRow
               PROVE  /\ row' # NoRow
                      /\ row'.sampleAt > row.sampleAt
                      /\ row'.resetAt = row.resetAt \/ row'.resetAt >= row.resetAt + Spacing
    BY DEF vars
  <2>0. row \in Row /\ row.sampleAt \in Int
    BY DEF Inv, TypeOK, Row
  <2>1. ASSUME NEW s \in Snapshots, Observe(s)
        PROVE  row' \in Row /\ row'.sampleAt > row.sampleAt /\ row'.resetAt = row.resetAt
    <3> DEFINE u == Decide(row, s) = "baseline"
    <3>1. s \in Snapshot /\ s.sampleAt \in Int /\ row' = ObservedRow(row, s, u) /\ u \in BOOLEAN
      BY <2>1, Parameters DEF Observe, Snapshot
    <3>2. ~u /\ ~(s.sampleAt <= row.sampleAt)
      BY <2>1 DEF Observe, Decide
    <3>3. row' \in Row /\ row'.sampleAt = s.sampleAt /\ row'.resetAt = row.resetAt
      BY <2>0, <3>1, <3>2, ObservedRowType
    <3> QED
      BY <2>0, <3>1, <3>2, <3>3
  <2>2. ASSUME NEW s \in Snapshots, Queue(s)
        PROVE  row' \in Row /\ row'.sampleAt > row.sampleAt /\ row'.resetAt >= row.resetAt + Spacing
    <3>1. s \in Snapshot /\ Decide(row, s) = "reset"
      BY <2>2, Parameters DEF Queue
    <3>2. row' = ConfirmedRow(row, s)
      BY <2>2, <3>1, FreshKey DEF Queue
    <3>3. row' \in Row /\ row'.resetAt = s.resetAt /\ row'.sampleAt = s.sampleAt
      BY <2>0, <3>1, <3>2, ConfirmedRowType
    <3>4. s.sampleAt > row.sampleAt /\ s.resetAt >= row.resetAt + Spacing
      BY <2>0, <3>1, ResetMovesBoundary
    <3> QED
      BY <3>3, <3>4
  <2> QED
    BY <2>1, <2>2, AbsentAssumption DEF Next
<1> QED
  BY InitInv, NextInv, <1>1, PTL DEF Spec, NeverRetreats
=============================================================================
