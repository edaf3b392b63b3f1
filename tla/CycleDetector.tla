--------------------------- MODULE CycleDetector ---------------------------
(***************************************************************************)
(* The detector of one account: its account_state row and the boundaries    *)
(* (cycle_reset_at) of the reset events it has queued.  The account shows   *)
(* any snapshots whatever, in any order; what holds here holds whatever the *)
(* upstream publishes.  QuotaSync implements this module once per account.  *)
(***************************************************************************)
EXTENDS CycleDecision

CONSTANT Snapshots          \* the snapshots the account may show

ASSUME SnapshotsAssumption == Snapshots \subseteq Snapshot

VARIABLES row,              \* the account_state row, or NoRow
          keys              \* cycle_reset_at of the account's reset_events

vars == <<row, keys>>

Init == row = NoRow /\ keys = {}

\* baseline, not_rearmed, observe and suspicious only record the sample.
Observe(s) ==
  /\ Decide(row, s) \notin {"stale", "reset"}
  /\ row' = ObservedRow(row, s, Decide(row, s) = "baseline")
  /\ UNCHANGED keys

\* One transaction adds the event and confirms the row; the UNIQUE event_key
\* turns a repeated boundary into an observation that may move the boundary.
Queue(s) ==
  /\ Decide(row, s) = "reset"
  /\ keys' = keys \union {s.resetAt}
  /\ row' = IF s.resetAt \in keys THEN ObservedRow(row, s, TRUE) ELSE ConfirmedRow(row, s)

Next == \E s \in Snapshots : Observe(s) \/ Queue(s)

Spec == Init /\ [][Next]_vars

-----------------------------------------------------------------------------

\* The row is a row, and every event has a boundary.
TypeOK == row \in Row \union {NoRow} /\ keys \subseteq Int

\* The boundary the detector compares with is the latest it queued an event for:
\* no observation in between may move it (README, "观察快照不覆盖已确认的周期边界").
BoundaryIsConfirmed ==
  keys # {} => row # NoRow /\ row.resetAt \in keys /\ \A k \in keys : k <= row.resetAt

\* The least distance between two boundaries one account is reset for.
Spacing == IF MinCycleShift > Noise THEN Noise + 1 ELSE MinCycleShift

\* Two events of one account are for boundaries further apart than the noise of
\* the upstream estimate, however many samples came in between: minute-level
\* corrections of reset_at can not queue a second reset.
EventsSpaced == \A j, k \in keys : j < k => j + Spacing <= k

\* Whatever the account shows next, the event a reset decision adds has a key of
\* its own, so the IntegrityError branch of create_event is a second line of
\* defence that a single executor never reaches.
KeyIsFresh == \A s \in Snapshots : Decide(row, s) = "reset" => s.resetAt \notin keys

\* Neither the confirmed boundary nor the sample time of a row ever goes back,
\* and a boundary never moves by less than Spacing once an event is queued.
NeverRetreats ==
  [][row # NoRow => /\ row' # NoRow
                    /\ row'.sampleAt > row.sampleAt
                    /\ row'.resetAt = row.resetAt \/ row'.resetAt >= row.resetAt + Spacing]_vars
=============================================================================
